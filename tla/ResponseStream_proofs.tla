----------------------- MODULE ResponseStream_proofs -----------------------
(***************************************************************************)
(* The replies arrive: for every buffer size, every set of replies and any  *)
(* number of bytes, ResponseStream implements Pipe.                         *)
(***************************************************************************)
EXTENDS ResponseStream, IOBuffer_proofs

(* A reply is a sequence of bytes, and the NUL does not change its length. *)
LEMMA ReplyBytes ==
  ASSUME NEW r \in Replies, Fits(r)
  PROVE  /\ r \in Seq(Byte) /\ Formatted(r) \in Seq(Byte)
         /\ Len(r) \in Nat /\ Len(Formatted(r)) = Len(r)
         /\ r \in ReplyChunks /\ Formatted(r) \in ReplyChunks
<1>1. r \in Seq(Byte) /\ Len(r) \in Nat \ {0}
  <2>1. r \in Seq(Byte \ {NUL}) /\ r # <<>>
    BY RepliesAssumption
  <2>2. Byte \ {NUL} \subseteq Byte
    OBVIOUS
  <2>3. r \in Seq(Byte)
    BY <2>1, <2>2, SeqMonotonic
  <2> QED BY <2>1, <2>3, EmptySeq
<1>2. [r EXCEPT ![Len(r)] = NUL] \in Seq(Byte) /\ Len([r EXCEPT ![Len(r)] = NUL]) = Len(r)
  BY <1>1, NULAssumption, ExceptSeq
<1> QED BY <1>1, <1>2 DEF Formatted, ReplyChunks

(* A write takes the first n used bytes and leaves the others at the front. *)
LEMMA SentBytes ==
  ASSUME NEW STATE b, WellFormed(b), NEW n \in 1..usedSize(b),
         written \in Seq(Byte), Sent(b, n)
  PROVE  /\ WellFormed(buffer') /\ buffer'.start = 0
         /\ Used(buffer') = SubSeq(Used(b), n + 1, Len(Used(b)))
         /\ written' = written \o SubSeq(Used(b), 1, n)
         /\ written' \in Seq(Byte)
<1>1. /\ usedSize(b) \in Nat /\ Used(b) \in Seq(Byte) /\ Len(Used(b)) = usedSize(b)
  BY UsedBytes
<1>2. n \in 0..usedSize(b)
  BY <1>1
<1>3. /\ WellFormed(markFree(b, n))
      /\ Used(markFree(b, n)) = SubSeq(Used(b), n + 1, usedSize(b))
  BY <1>2, FreeUsed
<1>4. SubSeq(Used(b), 1, n) \in Seq(Byte)
  BY <1>1, <1>2
<1>5. buffer' = coalesce(markFree(b, n)) /\ written' = written \o SubSeq(Used(b), 1, n)
  BY DEF Sent
<1> QED BY <1>1, <1>3, <1>4, <1>5, CoalesceUsed

-----------------------------------------------------------------------------
(* Every step keeps the buffer in order and is a step of Pipe.              *)

StreamInv == TypeOK /\ RoomReclaimed

(* What a step is to Pipe: chunk s handed over, n bytes delivered. *)
Carried(s, n) ==
  /\ s \in ReplyChunks /\ n \in 0..(Len(Used(buffer)) + Len(s))
  /\ replied' = replied \o s
  /\ written' = written \o SubSeq(Used(buffer) \o s, 1, n)
  /\ Used(buffer') = SubSeq(Used(buffer) \o s, n + 1, Len(Used(buffer) \o s))

LEMMA NothingCarried ==
  ASSUME StreamInv, UNCHANGED <<buffer, replied, written>>
  PROVE  Carried(<<>>, 0)
<1>1. Used(buffer) \in Seq(Byte) /\ replied \in Seq(Byte) /\ written \in Seq(Byte)
  BY UsedBytes DEF StreamInv, TypeOK
<1>2. Used(buffer') = Used(buffer)
  OBVIOUS
<1> QED BY <1>1, <1>2 DEF Carried, ReplyChunks

(* A chunk is put into the buffer and nothing is written. *)
LEMMA ChunkPut ==
  ASSUME StreamInv, NEW s \in ReplyChunks, s \in Seq(Byte), Len(s) <= freeSize(buffer),
         buffer' = Put(buffer, s), replied' = replied \o s, UNCHANGED written
  PROVE  /\ WellFormed(buffer') /\ buffer'.start = 0 /\ replied' \in Seq(Byte)
         /\ Carried(s, 0)
<1>1. /\ WellFormed(buffer) /\ buffer.start = 0
      /\ replied \in Seq(Byte) /\ written \in Seq(Byte)
  BY DEF StreamInv, TypeOK, RoomReclaimed
<1>2. Used(buffer) \in Seq(Byte) /\ Len(Used(buffer)) \in Nat /\ Len(s) \in Nat
  BY <1>1, UsedBytes
<1>3. WellFormed(buffer') /\ buffer'.start = 0 /\ Used(buffer') = Used(buffer) \o s
  BY <1>1, PutUsed
<1> QED BY <1>1, <1>2, <1>3 DEF Carried

(* A chunk is put into the buffer and the first n bytes of all are written. *)
LEMMA ChunkSent ==
  ASSUME StreamInv, NEW s \in ReplyChunks, s \in Seq(Byte), Len(s) <= freeSize(buffer),
         replied' = replied \o s,
         NEW n \in 1..usedSize(Put(buffer, s)), Sent(Put(buffer, s), n)
  PROVE  /\ WellFormed(buffer') /\ buffer'.start = 0
         /\ replied' \in Seq(Byte) /\ written' \in Seq(Byte)
         /\ Carried(s, n)
<1>1. /\ WellFormed(buffer) /\ replied \in Seq(Byte) /\ written \in Seq(Byte)
  BY DEF StreamInv, TypeOK
<1>2. Used(buffer) \in Seq(Byte) /\ Len(Used(buffer)) = usedSize(buffer)
      /\ usedSize(buffer) \in Nat /\ Len(s) \in Nat
  BY <1>1, UsedBytes
<1>3. /\ WellFormed(Put(buffer, s))
      /\ usedSize(Put(buffer, s)) = usedSize(buffer) + Len(s)
      /\ Used(Put(buffer, s)) = Used(buffer) \o s
  BY <1>1, PutUsed
<1>4. /\ WellFormed(buffer') /\ buffer'.start = 0
      /\ Used(buffer') = SubSeq(Used(buffer) \o s, n + 1, Len(Used(buffer) \o s))
      /\ written' = written \o SubSeq(Used(buffer) \o s, 1, n)
      /\ written' \in Seq(Byte)
  BY <1>1, <1>3, SentBytes
<1>5. n \in 0..(Len(Used(buffer)) + Len(s))
  BY <1>2, <1>3
<1> QED BY <1>1, <1>2, <1>4, <1>5 DEF Carried

(* The bytes written by writeResponse were all there before. *)
LEMMA UsedSent ==
  ASSUME StreamInv, UNCHANGED replied,
         NEW n \in 1..usedSize(buffer), Sent(buffer, n)
  PROVE  /\ WellFormed(buffer') /\ buffer'.start = 0 /\ written' \in Seq(Byte)
         /\ Carried(<<>>, n)
<1>1. /\ WellFormed(buffer) /\ replied \in Seq(Byte) /\ written \in Seq(Byte)
  BY DEF StreamInv, TypeOK
<1>2. Used(buffer) \in Seq(Byte) /\ Len(Used(buffer)) = usedSize(buffer)
      /\ usedSize(buffer) \in Nat
  BY <1>1, UsedBytes
<1>3. Used(buffer) \o <<>> = Used(buffer) /\ replied \o <<>> = replied /\ <<>> \in ReplyChunks
  BY <1>1, <1>2, ConcatEmptySeq DEF ReplyChunks
<1>4. /\ WellFormed(buffer') /\ buffer'.start = 0
      /\ Used(buffer') = SubSeq(Used(buffer), n + 1, Len(Used(buffer)))
      /\ written' = written \o SubSeq(Used(buffer), 1, n)
      /\ written' \in Seq(Byte)
  BY <1>1, SentBytes
<1>5. n \in 0..(Len(Used(buffer)) + Len(<<>>))
  BY <1>2
<1> QED BY <1>3, <1>4, <1>5 DEF Carried

(* One step: the invariant is kept, and Pipe makes a step or stutters. *)
LEMMA StreamStep ==
  ASSUME StreamInv, [Next]_vars
  PROVE  /\ StreamInv'
         /\ (\E s, n : open /\ open' \in BOOLEAN /\ Carried(s, n))
            \/ UNCHANGED <<replied, Used(buffer), written, open>>
<1> DEFINE Step == \E s, n : open /\ open' \in BOOLEAN /\ Carried(s, n)
           Goal == StreamInv' /\ (Step \/ UNCHANGED <<replied, Used(buffer), written, open>>)
<1>1. /\ WellFormed(buffer) /\ buffer.start = 0 /\ open \in BOOLEAN
      /\ replied \in Seq(Byte) /\ written \in Seq(Byte) /\ fault \in BOOLEAN
  BY DEF StreamInv, TypeOK, RoomReclaimed
<1>2. ASSUME UNCHANGED <<buffer, replied, written>>, open, open' \in BOOLEAN, fault' \in BOOLEAN
      PROVE  Goal
  <2>1. StreamInv'
    BY <1>1, <1>2 DEF StreamInv, TypeOK, RoomReclaimed
  <2>2. Carried(<<>>, 0)
    BY <1>2, NothingCarried
  <2> QED BY <1>2, <2>1, <2>2
<1>3. ASSUME UNCHANGED vars PROVE Goal
  <2>1. StreamInv'
    BY <1>1, <1>3 DEF vars, StreamInv, TypeOK, RoomReclaimed
  <2> QED BY <1>3, <2>1 DEF vars
<1>4. ASSUME NEW s, NEW n, Carried(s, n), WellFormed(buffer'), buffer'.start = 0,
             replied' \in Seq(Byte), written' \in Seq(Byte),
             open, open' \in BOOLEAN, fault' = fault
      PROVE  Goal
  <2>1. StreamInv'
    BY <1>1, <1>4 DEF StreamInv, TypeOK, RoomReclaimed
  <2> QED BY <1>4, <2>1
<1>5. ASSUME NEW r, NoFreeArea \/ NoRoom(r), open PROVE Goal
  BY <1>1, <1>2, <1>5 DEF NoFreeArea, NoRoom
<1>6. ASSUME NEW r \in Replies, SendFormatted(r) PROVE Goal
  <2>1. open
    BY <1>6 DEF SendFormatted, Answerable
  <2>2. CASE NoFreeArea \/ NoRoom(r)
    BY <1>5, <2>1, <2>2
  <2> DEFINE s == Formatted(r)
  <2>3. CASE Fits(r) /\ UNCHANGED fault /\ replied' = replied \o s
             /\ \/ \E n \in 1..usedSize(Put(buffer, s)) :
                      Sent(Put(buffer, s), n) /\ UNCHANGED open
                \/ buffer' = Put(buffer, s) /\ UNCHANGED written /\ open' \in BOOLEAN
    <3>1. s \in ReplyChunks /\ s \in Seq(Byte) /\ Len(s) <= freeSize(buffer)
      BY <2>3, ReplyBytes DEF Fits
    <3> HIDE DEF s
    <3>2. CASE \E n \in 1..usedSize(Put(buffer, s)) :
                 Sent(Put(buffer, s), n) /\ UNCHANGED open
      <4>1. PICK n \in 1..usedSize(Put(buffer, s)) : Sent(Put(buffer, s), n) /\ open' = open
        BY <3>2
      <4>2. /\ WellFormed(buffer') /\ buffer'.start = 0
            /\ replied' \in Seq(Byte) /\ written' \in Seq(Byte) /\ Carried(s, n)
        BY <2>3, <3>1, <4>1, ChunkSent
      <4> HIDE DEF Goal
      <4> QED BY <1>1, <1>4, <2>1, <2>3, <4>1, <4>2
    <3>3. CASE buffer' = Put(buffer, s) /\ UNCHANGED written /\ open' \in BOOLEAN
      <4>1. /\ WellFormed(buffer') /\ buffer'.start = 0 /\ replied' \in Seq(Byte)
            /\ Carried(s, 0)
        BY <2>3, <3>1, <3>3, ChunkPut
      <4> HIDE DEF Goal
      <4> QED BY <1>1, <1>4, <2>1, <2>3, <3>3, <4>1
    <3> QED BY <2>3, <3>2, <3>3
  <2> HIDE DEF Goal
  <2> QED BY <1>1, <1>6, <2>2, <2>3 DEF SendFormatted
<1>7. ASSUME NEW r \in Replies, SendPrepared(r) PROVE Goal
  <2>1. open
    BY <1>7 DEF SendPrepared, Answerable
  <2>2. CASE NoFreeArea \/ NoRoom(r)
    BY <1>5, <2>1, <2>2
  <2>3. CASE Fits(r) /\ buffer' = Put(buffer, r) /\ replied' = replied \o r
             /\ UNCHANGED <<open, written, fault>>
    <3>1. r \in ReplyChunks /\ r \in Seq(Byte) /\ Len(r) <= freeSize(buffer)
      BY <2>3, ReplyBytes DEF Fits
    <3>2. /\ WellFormed(buffer') /\ buffer'.start = 0 /\ replied' \in Seq(Byte)
          /\ Carried(r, 0)
      BY <2>3, <3>1, ChunkPut
    <3> HIDE DEF Goal
    <3> QED BY <1>1, <1>4, <2>1, <2>3, <3>2
  <2> HIDE DEF Goal
  <2> QED BY <1>7, <2>2, <2>3 DEF SendPrepared
<1>8. ASSUME WriteResponse PROVE Goal
  <2>1. CASE \E n \in 1..usedSize(buffer) : Sent(buffer, n) /\ UNCHANGED open
    <3>1. PICK n \in 1..usedSize(buffer) : Sent(buffer, n) /\ open' = open
      BY <2>1
    <3>2. open /\ UNCHANGED <<replied, fault>>
      BY <1>8 DEF WriteResponse
    <3>3. /\ WellFormed(buffer') /\ buffer'.start = 0 /\ written' \in Seq(Byte)
          /\ Carried(<<>>, n)
      BY <3>1, <3>2, UsedSent
    <3> HIDE DEF Goal
    <3> QED BY <1>1, <1>4, <3>1, <3>2, <3>3
  <2>2. CASE open' = FALSE /\ UNCHANGED <<buffer, written>>
    <3> HIDE DEF Goal
    <3> QED BY <1>1, <1>2, <1>8, <2>2 DEF WriteResponse
  <2> QED BY <1>8, <2>1, <2>2 DEF WriteResponse
<1>9. ASSUME Close PROVE Goal
  <2> HIDE DEF Goal
  <2> QED BY <1>1, <1>2, <1>9 DEF Close
<1>10. ASSUME Over PROVE Goal
  BY <1>3, <1>10 DEF Over
<1>11. Goal
  <2> HIDE DEF Goal
  <2> QED BY <1>3, <1>6, <1>7, <1>8, <1>9, <1>10 DEF Next
<1> QED BY <1>11

(* A chunk carried is a step of Pipe, read through the refinement mapping. *)
LEMMA PipeStep ==
  ASSUME (\E s, n : open /\ open' \in BOOLEAN /\ Carried(s, n))
         \/ UNCHANGED <<replied, Used(buffer), written, open>>
  PROVE  [P!Next]_P!vars
<1>1. CASE \E s, n : open /\ open' \in BOOLEAN /\ Carried(s, n)
  BY <1>1 DEF Carried, P!Next, P!Carry
<1>2. CASE UNCHANGED <<replied, Used(buffer), written, open>>
  BY <1>2 DEF P!vars
<1> QED BY <1>1, <1>2

-----------------------------------------------------------------------------

(* Whatever the socket does, the response buffer stays well formed and all   *)
(* of it but the unsent bytes is free (sendResponse, writeResponse).         *)
THEOREM Reclaimed == Spec => [](TypeOK /\ RoomReclaimed)
<1>1. Init => StreamInv
  <2> SUFFICES ASSUME Init PROVE StreamInv
    OBVIOUS
  <2> QED BY EmptyBuffer, EmptySeq DEF Init, StreamInv, TypeOK, RoomReclaimed
<1>2. StreamInv /\ [Next]_vars => StreamInv'
  BY StreamStep
<1> QED BY <1>1, <1>2, PTL DEF Spec, StreamInv

(* The response buffer is a pipe: the client receives the bytes of the       *)
(* replies in order, none lost and none twice, until the connection breaks.  *)
THEOREM Delivered == Spec => PipeSpec
<1>1. Init => P!Init
  <2> SUFFICES ASSUME Init PROVE P!Init
    OBVIOUS
  <2> QED BY EmptyBuffer DEF Init, P!Init
<1>2. StreamInv /\ [Next]_vars => [P!Next]_P!vars
  <2> SUFFICES ASSUME StreamInv, [Next]_vars PROVE [P!Next]_P!vars
    OBVIOUS
  <2>1. (\E s, n : open /\ open' \in BOOLEAN /\ Carried(s, n))
        \/ UNCHANGED <<replied, Used(buffer), written, open>>
    BY StreamStep
  <2> QED BY <2>1, PipeStep
<1>3. Spec => []StreamInv
  BY Reclaimed, PTL DEF StreamInv
<1> QED BY <1>1, <1>2, <1>3, PTL DEF Spec, PipeSpec, P!Spec

=============================================================================
