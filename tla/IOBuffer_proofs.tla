-------------------------- MODULE IOBuffer_proofs --------------------------
(***************************************************************************)
(* What each method of IOBuffer does to the sequence of used bytes, for     *)
(* every buffer size.  The proofs about the two buffers of a session cite   *)
(* these lemmas and never look at a position in a buffer themselves.        *)
(***************************************************************************)
EXTENDS IOBuffer, SequenceTheorems, TLAPS

(* A sequence cut in two. *)
LEMMA CutInTwo ==
  ASSUME NEW S, NEW s \in Seq(S), NEW n \in 0..Len(s)
  PROVE  /\ SubSeq(s, 1, n) \in Seq(S) /\ Len(SubSeq(s, 1, n)) = n
         /\ SubSeq(s, n + 1, Len(s)) \in Seq(S)
         /\ Len(SubSeq(s, n + 1, Len(s))) = Len(s) - n
         /\ SubSeq(s, 1, n) \o SubSeq(s, n + 1, Len(s)) = s
<1>1. Len(s) \in Nat /\ n \in Nat /\ n <= Len(s) /\ n + 1 <= Len(s) + 1
  OBVIOUS
<1>2. /\ SubSeq(s, 1, n) \in Seq(S) /\ Len(SubSeq(s, 1, n)) = n
      /\ SubSeq(s, n + 1, Len(s)) \in Seq(S)
      /\ Len(SubSeq(s, n + 1, Len(s))) = Len(s) - n
  BY <1>1
<1>3. SubSeq(s, 1, n) \o SubSeq(s, n + 1, Len(s)) = SubSeq(s, 1, Len(s))
  <2>1. 1 \in 1..(Len(s) + 1) /\ n \in (1 - 1)..Len(s) /\ Len(s) \in n..Len(s)
    BY <1>1
  <2> QED BY <2>1, ConcatAdjacentSubSeq
<1> QED BY <1>2, <1>3, SubSeqFull

LEMMA FunctionIsSeq ==
  ASSUME NEW S, NEW n \in Nat, NEW f \in [1..n -> S]
  PROVE  f \in Seq(S) /\ Len(f) = n
OBVIOUS

(* The used bytes are a sequence of bytes, as long as usedSize says. *)
LEMMA UsedBytes ==
  ASSUME NEW b, WellFormed(b)
  PROVE  /\ usedSize(b) \in Nat
         /\ Used(b) \in Seq(Byte)
         /\ Len(Used(b)) = usedSize(b)
<1>1. /\ b.start \in 0..Size /\ b.end \in 0..Size /\ b.start <= b.end
      /\ Size \in Nat /\ b.data \in [Index -> Byte]
  BY SizeAssumption DEF WellFormed, Buffer
<1>2. usedSize(b) \in Nat
  BY <1>1 DEF usedSize
<1>3. Used(b) \in [1..usedSize(b) -> Byte]
  <2>1. ASSUME NEW i \in 1..usedSize(b) PROVE b.data[b.start + i - 1] \in Byte
    <3>1. b.start + i - 1 \in Index
      BY <1>1 DEF usedSize, Index
    <3> QED BY <1>1, <3>1
  <2> QED BY <2>1 DEF Used
<1> QED BY <1>2, <1>3, FunctionIsSeq

(* Appending to the free area appends to the used bytes (freeArea, markUsed). *)
LEMMA PutUsed ==
  ASSUME NEW b, WellFormed(b), NEW s \in Seq(Byte), Len(s) <= freeSize(b)
  PROVE  /\ WellFormed(Put(b, s))
         /\ Put(b, s).start = b.start
         /\ usedSize(Put(b, s)) = usedSize(b) + Len(s)
         /\ Used(Put(b, s)) = Used(b) \o s
<1> DEFINE c == Put(b, s)
<1>1. /\ b \in Buffer /\ b.start \in 0..Size /\ b.end \in 0..Size /\ b.start <= b.end
      /\ Size \in Nat /\ Len(s) \in Nat /\ b.end + Len(s) <= Size
  BY SizeAssumption DEF WellFormed, Buffer, freeSize
<1>2. \A i \in Index : b.data[i] \in Byte
  BY <1>1 DEF Buffer
<1>3. c.data \in [Index -> Byte]
  <2>1. c.data = [i \in Index |-> IF b.end <= i /\ i < b.end + Len(s)
                                  THEN s[i - b.end + 1] ELSE b.data[i]]
    BY <1>1 DEF Put, Buffer
  <2>2. ASSUME NEW i \in Index, b.end <= i, i < b.end + Len(s)
        PROVE  s[i - b.end + 1] \in Byte
    BY <1>1, <2>2 DEF Index
  <2> QED BY <1>2, <2>1, <2>2
<1>4. c.start = b.start /\ c.end = b.end + Len(s) /\ c \in Buffer
  <2>1. PICK d : d = c.data
    OBVIOUS
  <2>2. c = [b EXCEPT !.data = d, !.end = b.end + Len(s)]
    BY <1>1, <2>1 DEF Put, Buffer
  <2>3. d \in [Index -> Byte] /\ b.end + Len(s) \in 0..Size /\ 0 \in 0..Size
    BY <1>1, <1>3, <2>1
  <2> HIDE DEF c
  <2> QED BY <1>1, <2>2, <2>3 DEF Buffer
<1>5. usedSize(c) = usedSize(b) + Len(s)
  BY <1>1, <1>4 DEF usedSize
<1>6. Used(c) = Used(b) \o s
  <2>1. /\ Used(b) \in Seq(Byte) /\ Len(Used(b)) = usedSize(b)
        /\ usedSize(b) \in Nat
    BY UsedBytes
  <2>2. /\ Used(c) \in Seq(Byte) /\ Len(Used(c)) = usedSize(c)
    <3> HIDE DEF c
    <3>1. WellFormed(c) BY <1>1, <1>4 DEF WellFormed
    <3> QED BY <3>1, UsedBytes
  <2>3. ASSUME NEW i \in 1..usedSize(c)
        PROVE  Used(c)[i] = (Used(b) \o s)[i]
    <3>1. Used(c)[i] = c.data[b.start + i - 1]
      BY <1>4 DEF Used
    <3>2. b.start + i - 1 \in Index
      BY <1>1, <1>5 DEF usedSize, Index
    <3>3. CASE i <= usedSize(b)
      <4>1. c.data[b.start + i - 1] = b.data[b.start + i - 1]
        BY <1>1, <3>2, <3>3 DEF Put, usedSize, Buffer
      <4>2. (Used(b) \o s)[i] = Used(b)[i] /\ Used(b)[i] = b.data[b.start + i - 1]
        BY <2>1, <3>3 DEF Used
      <4> QED BY <3>1, <4>1, <4>2
    <3>4. CASE i > usedSize(b)
      <4>1. c.data[b.start + i - 1] = s[b.start + i - 1 - b.end + 1]
        BY <1>1, <1>5, <3>2, <3>4 DEF Put, usedSize, Buffer
      <4>2. (Used(b) \o s)[i] = s[i - usedSize(b)]
        BY <1>5, <2>1, <3>4
      <4>3. b.start + i - 1 - b.end + 1 = i - usedSize(b)
        BY <1>1 DEF usedSize
      <4> QED BY <3>1, <4>1, <4>2, <4>3
    <3>5. i <= usedSize(b) \/ i > usedSize(b)
      BY <1>5, <2>1, <1>1
    <3> QED BY <3>3, <3>4, <3>5
  <2>4. Used(b) \o s \in Seq(Byte) /\ Len(Used(b) \o s) = usedSize(c)
    BY <1>1, <1>5, <2>1
  <2> HIDE DEF c
  <2> QED BY <2>2, <2>3, <2>4, SeqEqual
<1> QED BY <1>1, <1>4, <1>5, <1>6 DEF WellFormed

(* Freeing n bytes drops the first n used bytes (markFree). *)
LEMMA FreeUsed ==
  ASSUME NEW b, WellFormed(b), NEW n \in 0..usedSize(b)
  PROVE  /\ WellFormed(markFree(b, n))
         /\ Used(markFree(b, n)) = SubSeq(Used(b), n + 1, usedSize(b))
<1> DEFINE c == markFree(b, n)
<1>1. /\ b \in Buffer /\ b.start \in 0..Size /\ b.end \in 0..Size /\ b.start <= b.end
      /\ Size \in Nat /\ n \in Nat /\ b.start + n <= b.end
  BY SizeAssumption DEF WellFormed, Buffer, usedSize
<1>2. WellFormed(c) /\ c.data = b.data /\ c.end - c.start = b.end - b.start - n
      /\ (c.start = b.start + n \/ c.start = c.end)
  <2>1. CASE b.start + n = b.end
    <3>1. c = [b EXCEPT !.start = 0, !.end = 0]
      BY <2>1 DEF markFree
    <3>2. 0 \in 0..Size /\ b.data \in [Index -> Byte]
      BY <1>1 DEF Buffer
    <3> HIDE DEF c
    <3>3. c \in Buffer /\ c.data = b.data /\ c.start = 0 /\ c.end = 0
      BY <1>1, <3>1, <3>2 DEF Buffer
    <3> QED BY <1>1, <2>1, <3>3 DEF WellFormed
  <2>2. CASE b.start + n # b.end
    <3>1. c = [b EXCEPT !.start = b.start + n]
      BY <2>2 DEF markFree
    <3>2. b.start + n \in 0..Size /\ b.data \in [Index -> Byte]
      BY <1>1 DEF Buffer
    <3> HIDE DEF c
    <3>3. c \in Buffer /\ c.data = b.data /\ c.start = b.start + n /\ c.end = b.end
      BY <1>1, <3>1, <3>2 DEF Buffer
    <3> QED BY <1>1, <2>2, <3>3 DEF WellFormed
  <2> QED BY <2>1, <2>2
<1>3. /\ Used(b) \in Seq(Byte) /\ Len(Used(b)) = usedSize(b) /\ usedSize(b) \in Nat
  BY UsedBytes
<1>4. /\ Used(c) \in Seq(Byte) /\ Len(Used(c)) = usedSize(b) - n
  <2> HIDE DEF c
  <2> QED BY <1>1, <1>2, UsedBytes DEF usedSize
<1>5. /\ SubSeq(Used(b), n + 1, usedSize(b)) \in Seq(Byte)
      /\ Len(SubSeq(Used(b), n + 1, usedSize(b))) = usedSize(b) - n
  BY <1>1, <1>3 DEF usedSize
<1>6. ASSUME NEW i \in 1..(usedSize(b) - n)
      PROVE  Used(c)[i] = SubSeq(Used(b), n + 1, usedSize(b))[i]
  <2>1. c.start = b.start + n
    BY <1>1, <1>2, <1>6 DEF usedSize, WellFormed, Buffer
  <2>2. Used(c)[i] = b.data[b.start + n + i - 1]
    BY <1>1, <1>2, <2>1 DEF Used, usedSize
  <2>3. SubSeq(Used(b), n + 1, usedSize(b))[i] = Used(b)[n + i]
    BY <1>1, <1>3
  <2>4. Used(b)[n + i] = b.data[b.start + (n + i) - 1]
    BY <1>1, <1>3 DEF Used
  <2>5. b.start + (n + i) - 1 = b.start + n + i - 1
    BY <1>1
  <2> HIDE DEF c
  <2> QED BY <2>2, <2>3, <2>4, <2>5
<1> QED
  <2> HIDE DEF c
  <2>1. Used(c) = SubSeq(Used(b), n + 1, usedSize(b))
    BY <1>4, <1>5, <1>6, SeqEqual
  <2> QED BY <1>2, <2>1 DEF c

(* Moving the used bytes to the front does not change them (coalesce). *)
LEMMA CoalesceUsed ==
  ASSUME NEW b, WellFormed(b)
  PROVE  /\ WellFormed(coalesce(b))
         /\ coalesce(b).start = 0
         /\ Used(coalesce(b)) = Used(b)
<1> DEFINE c == coalesce(b)
<1>1. /\ b \in Buffer /\ b.start \in 0..Size /\ b.end \in 0..Size /\ b.start <= b.end
      /\ Size \in Nat /\ b.data \in [Index -> Byte]
  BY SizeAssumption DEF WellFormed, Buffer
<1>2. c.data = [i \in Index |-> IF i < b.end - b.start THEN b.data[i + b.start]
                                                       ELSE b.data[i]]
      /\ c.start = 0 /\ c.end = b.end - b.start
  BY <1>1 DEF coalesce, Buffer
<1>3. c.data \in [Index -> Byte]
  BY <1>1, <1>2 DEF Index
<1>4. WellFormed(c)
  <2>1. PICK d : d = c.data
    OBVIOUS
  <2>2. c = [b EXCEPT !.data = d, !.start = 0, !.end = b.end - b.start]
    BY <1>1, <2>1 DEF coalesce, Buffer
  <2>3. d \in [Index -> Byte] /\ b.end - b.start \in 0..Size /\ 0 \in 0..Size
    BY <1>1, <1>3, <2>1
  <2> HIDE DEF c
  <2>4. c \in Buffer /\ c.start = 0 /\ c.end = b.end - b.start
    BY <1>1, <2>2, <2>3 DEF Buffer
  <2> QED BY <2>3, <2>4 DEF WellFormed
<1>5. usedSize(c) = usedSize(b)
  BY <1>1, <1>2 DEF usedSize
<1>6. ASSUME NEW i \in 1..usedSize(b)
      PROVE  c.data[c.start + i - 1] = b.data[b.start + i - 1]
  BY <1>1, <1>2 DEF usedSize, Index
<1>7. Used(c) = Used(b)
  <2> HIDE DEF c
  <2> QED BY <1>5, <1>6 DEF Used
<1> QED BY <1>2, <1>4, <1>7

LEMMA EmptyBuffer == WellFormed(NewBuffer) /\ NewBuffer.start = 0 /\ Used(NewBuffer) = <<>>
BY NULAssumption, SizeAssumption DEF NewBuffer, WellFormed, Buffer, Used, usedSize, Index

(* Clearing drops all used bytes (clear). *)
LEMMA ClearUsed ==
  ASSUME NEW b, WellFormed(b)
  PROVE  /\ WellFormed(clear(b))
         /\ clear(b).start = 0 /\ usedSize(clear(b)) = 0 /\ freeSize(clear(b)) = Size
         /\ Used(clear(b)) = <<>>
<1>1. b \in Buffer /\ 0 \in 0..Size /\ Size \in Nat /\ b.data \in [Index -> Byte]
  BY SizeAssumption DEF WellFormed, Buffer
<1>2. /\ clear(b) \in Buffer /\ clear(b).start = 0 /\ clear(b).end = 0
  BY <1>1 DEF clear, Buffer
<1>3. WellFormed(clear(b)) /\ usedSize(clear(b)) = 0 /\ freeSize(clear(b)) = Size
  BY <1>1, <1>2 DEF WellFormed, usedSize, freeSize
<1>4. Used(clear(b)) \in Seq(Byte) /\ Len(Used(clear(b))) = 0
  BY <1>3, UsedBytes
<1> QED BY <1>2, <1>3, <1>4, EmptySeq

(* Freeing n bytes and compacting leaves the others at the front (markFree, coalesce). *)
LEMMA TakeUsed ==
  ASSUME NEW b, WellFormed(b), NEW n \in 0..usedSize(b)
  PROVE  /\ WellFormed(coalesce(markFree(b, n)))
         /\ coalesce(markFree(b, n)).start = 0
         /\ Used(coalesce(markFree(b, n))) = SubSeq(Used(b), n + 1, Len(Used(b)))
         /\ usedSize(coalesce(markFree(b, n))) = usedSize(b) - n
<1> DEFINE c == coalesce(markFree(b, n))
<1>1. Used(b) \in Seq(Byte) /\ Len(Used(b)) = usedSize(b) /\ usedSize(b) \in Nat
  BY UsedBytes
<1>2. /\ WellFormed(markFree(b, n))
      /\ Used(markFree(b, n)) = SubSeq(Used(b), n + 1, usedSize(b))
  BY FreeUsed
<1>3. WellFormed(c) /\ c.start = 0 /\ Used(c) = SubSeq(Used(b), n + 1, Len(Used(b)))
  BY <1>1, <1>2, CoalesceUsed
<1> HIDE DEF c
<1>4. Len(Used(c)) = usedSize(b) - n
  BY <1>1, <1>3
<1>5. usedSize(c) = usedSize(b) - n
  BY <1>3, <1>4, UsedBytes
<1> QED BY <1>3, <1>5 DEF c

=============================================================================
