------------------------ MODULE CommandStream_proofs ------------------------
(***************************************************************************)
(* Commands are whole lines: for every buffer size, every set of bytes and  *)
(* any number of bytes and Synchs, CommandStream implements CommandLines,   *)
(* and only a line as long as the buffer is refused.                        *)
(***************************************************************************)
EXTENDS CommandStream, IOBuffer_proofs

-----------------------------------------------------------------------------
(* Sequences.                                                               *)

(* Dropping from the first of two sequences leaves the second alone. *)
LEMMA DropOfConcat ==
  ASSUME NEW S, NEW s \in Seq(S), NEW t \in Seq(S), NEW n \in 0..Len(s)
  PROVE  SubSeq(s \o t, n + 1, Len(s \o t)) = SubSeq(s, n + 1, Len(s)) \o t
<1> DEFINE l == SubSeq(s \o t, n + 1, Len(s \o t))
           r == SubSeq(s, n + 1, Len(s)) \o t
<1>1. /\ Len(s) \in Nat /\ Len(t) \in Nat /\ n \in Nat /\ n <= Len(s)
      /\ s \o t \in Seq(S) /\ Len(s \o t) = Len(s) + Len(t)
  OBVIOUS
<1>2. l \in Seq(S) /\ Len(l) = Len(s) + Len(t) - n
  BY <1>1, CutInTwo
<1>3. /\ SubSeq(s, n + 1, Len(s)) \in Seq(S)
      /\ Len(SubSeq(s, n + 1, Len(s))) = Len(s) - n
  BY CutInTwo
<1>4. r \in Seq(S) /\ Len(r) = Len(s) - n + Len(t)
  BY <1>1, <1>3
<1>5. ASSUME NEW i \in 1..Len(l) PROVE l[i] = r[i]
  <2>1. i \in Nat /\ 1 <= i /\ i <= Len(s) + Len(t) - n
    BY <1>1, <1>2
  <2>2. l[i] = (s \o t)[n + i]
    BY <1>1, <2>1
  <2>3. CASE i <= Len(s) - n
    <3>1. l[i] = s[n + i]
      BY <1>1, <2>1, <2>2, <2>3
    <3>2. r[i] = SubSeq(s, n + 1, Len(s))[i]
      BY <1>1, <1>3, <2>1, <2>3
    <3>3. SubSeq(s, n + 1, Len(s))[i] = s[n + i]
      BY <1>1, <2>1, <2>3, SMTT(60)
    <3> QED BY <3>1, <3>2, <3>3
  <2>4. CASE i > Len(s) - n
    <3>1. l[i] = t[n + i - Len(s)]
      BY <1>1, <2>1, <2>2, <2>4
    <3>2. r[i] = t[i - (Len(s) - n)]
      BY <1>1, <1>3, <2>1, <2>4
    <3>3. n + i - Len(s) = i - (Len(s) - n)
      BY <1>1, <2>1
    <3> QED BY <3>1, <3>2, <3>3
  <2> QED BY <1>1, <2>1, <2>3, <2>4
<1> HIDE DEF l, r
<1>6. l = r
  BY <1>1, <1>2, <1>4, <1>5, SeqEqual
<1> QED BY <1>6 DEF l, r

(* A prefix of the first of two sequences is one of both. *)
LEMMA PrefixOfConcat ==
  ASSUME NEW S, NEW s \in Seq(S), NEW t \in Seq(S), NEW i \in 1..Len(s)
  PROVE  (s \o t)[i] = s[i] /\ i \in 1..Len(s \o t)
OBVIOUS

-----------------------------------------------------------------------------
(* What the invariant says of the bytes.                                    *)

LEMMA Bytes ==
  ASSUME StreamInv
  PROVE  /\ WellFormed(buffer) /\ buffer.start = 0
         /\ usedSize(buffer) \in Nat
         /\ Used(buffer) \in Seq(Byte) /\ Len(Used(buffer)) = usedSize(buffer)
         /\ Size \in Nat \ {0} /\ freeSize(buffer) = Size - usedSize(buffer)
         /\ net \in Seq(Byte) /\ Len(net) \in Nat
         /\ mark \in 0..Len(net) /\ (oob = "none" => mark = 0)
         /\ Used(buffer) \o net \in Seq(Byte)
         /\ Len(Used(buffer) \o net) = usedSize(buffer) + Len(net)
<1>1. WellFormed(buffer) /\ buffer.start = 0 /\ net \in Seq(Byte) /\ mark \in 0..Len(net)
      /\ (oob = "none" => mark = 0)
  BY DEF StreamInv, TypeOK
<1>2. /\ usedSize(buffer) \in Nat
      /\ Used(buffer) \in Seq(Byte) /\ Len(Used(buffer)) = usedSize(buffer)
  BY <1>1, UsedBytes
<1>3. freeSize(buffer) = Size - usedSize(buffer)
  BY <1>1, SizeAssumption DEF freeSize, usedSize, WellFormed, Buffer
<1> QED BY <1>1, <1>2, <1>3, SizeAssumption

(* n bytes move from the network to the buffer: what is left to do stays the same. *)
LEMMA BytesRead ==
  ASSUME StreamInv, NEW n \in 1..InBand, n <= freeSize(buffer), Read(n)
  PROVE  LET b == Put(buffer, SubSeq(net, 1, n))
         IN  /\ WellFormed(b) /\ b.start = 0
             /\ usedSize(b) = usedSize(buffer) + n
             /\ Used(b) \in Seq(Byte) /\ Len(Used(b)) = usedSize(b)
             /\ net' \in Seq(Byte) /\ mark' \in 0..Len(net')
             /\ Used(b) \o net' = Used(buffer) \o net
             /\ oob = "none" => mark' = 0
             /\ oob # "none" => usedSize(b) + mark' = usedSize(buffer) + mark
<1> DEFINE b == Put(buffer, SubSeq(net, 1, n))
<1>1. n \in 0..Len(net) /\ n \in Nat /\ (oob # "none" => n <= mark)
  BY Bytes DEF InBand
<1>2. /\ SubSeq(net, 1, n) \in Seq(Byte) /\ Len(SubSeq(net, 1, n)) = n
      /\ SubSeq(net, n + 1, Len(net)) \in Seq(Byte)
      /\ Len(SubSeq(net, n + 1, Len(net))) = Len(net) - n
      /\ SubSeq(net, 1, n) \o SubSeq(net, n + 1, Len(net)) = net
  BY <1>1, Bytes, CutInTwo
<1>3. /\ WellFormed(b) /\ b.start = 0 /\ usedSize(b) = usedSize(buffer) + n
      /\ Used(b) = Used(buffer) \o SubSeq(net, 1, n)
  BY <1>2, Bytes, PutUsed
<1> HIDE DEF b
<1>4. net' = SubSeq(net, n + 1, Len(net)) /\ mark' = IF oob = "none" THEN 0 ELSE mark - n
  BY DEF Read
<1>5. net' \in Seq(Byte) /\ mark' \in 0..Len(net')
  BY <1>1, <1>2, <1>4, Bytes, SMTT(60)
<1>6. Used(b) \o net' = Used(buffer) \o net
  <2> DEFINE r == SubSeq(net, 1, n)
             t == SubSeq(net, n + 1, Len(net))
  <2>1. Used(buffer) \in Seq(Byte) /\ r \in Seq(Byte) /\ t \in Seq(Byte)
    BY <1>2, Bytes
  <2>2. r \o t = net /\ Used(b) = Used(buffer) \o r /\ net' = t
    BY <1>2, <1>3, <1>4
  <2> HIDE DEF r, t
  <2>3. (Used(buffer) \o r) \o t = Used(buffer) \o (r \o t)
    BY <2>1, ConcatAssociative, SMTT(60)
  <2> QED BY <2>2, <2>3
<1>7. Used(b) \in Seq(Byte) /\ Len(Used(b)) = usedSize(b)
  BY <1>3, UsedBytes
<1>8. oob # "none" => usedSize(b) + mark' = usedSize(buffer) + mark
  BY <1>1, <1>3, <1>4, Bytes
<1> QED BY <1>3, <1>4, <1>5, <1>6, <1>7, <1>8 DEF b

(* The first n bytes in a buffer go, and what is left to do loses its first n bytes. *)
LEMMA BytesTaken ==
  ASSUME NEW b, WellFormed(b), NEW n \in 0..usedSize(b), NEW s \in Seq(Byte)
  PROVE  LET c == coalesce(markFree(b, n))
         IN  /\ WellFormed(c) /\ c.start = 0
             /\ usedSize(c) = usedSize(b) - n
             /\ Used(c) \o s = SubSeq(Used(b) \o s, n + 1, Len(Used(b) \o s))
<1>1. Used(b) \in Seq(Byte) /\ Len(Used(b)) = usedSize(b) /\ usedSize(b) \in Nat
  BY UsedBytes
<1>2. n \in 0..Len(Used(b))
  BY <1>1
<1>3. SubSeq(Used(b) \o s, n + 1, Len(Used(b) \o s)) = SubSeq(Used(b), n + 1, Len(Used(b))) \o s
  BY <1>1, <1>2, DropOfConcat
<1> QED BY <1>3, TakeUsed

-----------------------------------------------------------------------------
(* What a step is to CommandLines.                                          *)

LinesStep == L!Next \/ UNCHANGED L!vars

(* A step that leaves the buffer, the network's bytes and the Synch alone is a stutter, or
   the end of the connection. *)
LEMMA NothingMoved ==
  ASSUME StreamInv, UNCHANGED <<buffer, urgent, executed, net, oob, mark>>,
         open' \in BOOLEAN, open' => open
  PROVE  LinesStep
<1>1. Used(buffer') = Used(buffer) /\ usedSize(buffer') = usedSize(buffer)
  OBVIOUS
<1> QED BY <1>1 DEF LinesStep, L!Next

LEMMA ClientStep ==
  ASSUME StreamInv, (\E x \in Byte : Send(x)) \/ Synch \/ UrgentArrives \/ Leave
  PROVE  StreamInv' /\ LinesStep
<1>1. Used(buffer') = Used(buffer) /\ usedSize(buffer') = usedSize(buffer) /\ buffer' = buffer
  BY DEF Send, Synch, UrgentArrives, Leave
<1>2. ASSUME NEW x \in Byte, Send(x) PROVE StreamInv' /\ LinesStep
  <2>1. net' = Append(net, x) /\ net' \in Seq(Byte) /\ Len(net') = Len(net) + 1
    BY <1>2, Bytes, AppendProperties DEF Send
  <2>2. sent' \in 0..MaxBytes
    BY <1>2, BoundAssumption DEF Send, StreamInv, TypeOK
  <2>3. mark' \in 0..Len(net')
    BY <1>2, <2>1, Bytes DEF Send
  <2>4. TypeOK'
    BY <1>1, <1>2, <2>1, <2>2, <2>3 DEF Send, StreamInv, TypeOK
  <2>5. StreamInv'
    BY <1>1, <1>2, <2>4 DEF Send, StreamInv, OnlyLongLinesRefused
  <2>6. Used(buffer') \o net' = Append(Used(buffer) \o net, x)
    <3>1. net' = net \o <<x>> /\ <<x>> \in Seq(Byte)
      BY <2>1, Bytes, AppendIsConcat
    <3>2. (Used(buffer) \o net) \o <<x>> = Used(buffer) \o (net \o <<x>>)
      <4> DEFINE u == Used(buffer)
                 t == <<x>>
      <4>1. u \in Seq(Byte) /\ net \in Seq(Byte) /\ t \in Seq(Byte)
        BY <3>1, Bytes
      <4> HIDE DEF u, t
      <4>2. (u \o net) \o t = u \o (net \o t)
        BY <4>1, ConcatAssociative
      <4> QED BY <4>2 DEF u, t
    <3> QED BY <1>1, <3>1, <3>2, Bytes, AppendIsConcat
  <2>7. L!Send(x)
    BY <1>1, <1>2, <2>6 DEF L!Send, Send
  <2>8. open' \in BOOLEAN /\ (open' => open)
    BY <1>2 DEF Send, StreamInv, TypeOK
  <2> QED BY <2>5, <2>7, <2>8 DEF LinesStep, L!Next
<1>3. CASE Synch
  <2>1. /\ oob' \in {"pending", "here"} /\ mark' = Len(net) /\ net' = net
        /\ synchs' \in 0..MaxSynchs /\ mark' \in 0..Len(net')
    BY <1>3, Bytes, BoundAssumption DEF Synch, StreamInv, TypeOK
  <2>2. TypeOK'
    BY <1>1, <1>3, <2>1 DEF Synch, StreamInv, TypeOK
  <2>3. StreamInv'
    BY <1>1, <1>3, <2>1, <2>2 DEF Synch, StreamInv, OnlyLongLinesRefused
  <2>4. L!Synch
    BY <1>1, <1>3, <2>1, Bytes DEF L!Synch, Synch
  <2>5. open' \in BOOLEAN /\ (open' => open)
    BY <1>3 DEF Synch, StreamInv, TypeOK
  <2> QED BY <2>3, <2>4, <2>5 DEF LinesStep, L!Next
<1>4. CASE UrgentArrives
  <2>1. StreamInv'
    BY <1>1, <1>4 DEF UrgentArrives, client, StreamInv, TypeOK, OnlyLongLinesRefused
  <2>2. /\ (oob' # "none") = (oob # "none") /\ (oob' = "none") = (oob = "none")
        /\ UNCHANGED <<urgent, executed, net, mark, open>>
    BY <1>4 DEF UrgentArrives
  <2> QED BY <1>1, <2>1, <2>2 DEF LinesStep, L!vars
<1>5. CASE Leave
  <2>1. StreamInv'
    BY <1>1, <1>5 DEF Leave, StreamInv, TypeOK, OnlyLongLinesRefused
  <2>2. LinesStep
    BY <1>5, NothingMoved DEF Leave, StreamInv, TypeOK
  <2> QED BY <2>1, <2>2
<1> QED BY <1>2, <1>3, <1>4, <1>5

LEMMA PollStep ==
  ASSUME StreamInv, Poll \/ Close
  PROVE  StreamInv' /\ LinesStep
<1>1. /\ UNCHANGED <<buffer, urgent, refused, executed, net, oob, mark, client>>
      /\ open /\ open' \in BOOLEAN /\ step = "poll" /\ (open' \/ step' = "poll")
      /\ step' \in {"poll", "urgent", "read"} /\ (step' = "urgent" => oob # "none")
      /\ (step' = "read" => oob = "none")
  BY DEF Poll, Close, StreamInv, TypeOK
<1>2. StreamInv'
  <2>1. ~refused
    BY <1>1 DEF StreamInv
  <2>2. TypeOK'
    BY <1>1 DEF StreamInv, TypeOK, client
  <2> QED BY <1>1, <2>1, <2>2 DEF StreamInv, OnlyLongLinesRefused
<1> QED BY <1>1, <1>2, NothingMoved

-----------------------------------------------------------------------------
(* A Synch is looked at.                                                    *)

(* What is left of the bytes when the buffer is emptied: those of the network. *)
LEMMA BufferDropped ==
  ASSUME StreamInv
  PROVE  SubSeq(Used(buffer) \o net, usedSize(buffer) + 1, Len(Used(buffer) \o net)) = net
<1> DEFINE u == Used(buffer)
<1>1. /\ u \in Seq(Byte) /\ net \in Seq(Byte) /\ Len(u) \in Nat
      /\ Len(u) = usedSize(buffer) /\ Len(u) \in 0..Len(u)
  BY Bytes
<1> HIDE DEF u
<1>2. SubSeq(u \o net, Len(u) + 1, Len(u \o net)) = SubSeq(u, Len(u) + 1, Len(u)) \o net
  BY <1>1, DropOfConcat
<1>3. SubSeq(u, Len(u) + 1, Len(u)) = <<>>
  BY <1>1
<1> QED BY <1>1, <1>2, <1>3, ConcatEmptySeq DEF u

(* The bytes before the mark come into the emptied buffer, or nothing does. *)
LEMMA InBandDiscarded ==
  ASSUME StreamInv, oob # "none", DiscardInBand
  PROVE  /\ WellFormed(buffer') /\ buffer'.start = 0 /\ net' \in Seq(Byte)
         /\ mark' \in 0..Len(net') /\ usedSize(buffer') + mark' = mark
         /\ Used(buffer') \o net' = net
         /\ oob' = oob /\ open' \in BOOLEAN /\ (open' => open)
<1> DEFINE e == clear(buffer)
<1>1. /\ WellFormed(e) /\ e.start = 0 /\ usedSize(e) = 0 /\ freeSize(e) = Size /\ Used(e) = <<>>
  BY Bytes, ClearUsed
<1> HIDE DEF e
<1>2. oob' = oob
  BY DEF DiscardInBand
<1>3. ASSUME NEW n \in 0..mark, n <= Size, buffer' = Put(e, SubSeq(net, 1, n)), Read(n),
             UNCHANGED open
      PROVE  /\ WellFormed(buffer') /\ buffer'.start = 0 /\ net' \in Seq(Byte)
             /\ mark' \in 0..Len(net') /\ usedSize(buffer') + mark' = mark
             /\ Used(buffer') \o net' = net
             /\ open' \in BOOLEAN /\ (open' => open)
  <2>1. /\ n \in 0..Len(net) /\ n \in Nat /\ n <= mark
        /\ mark \in Nat /\ Len(net) \in Nat /\ mark <= Len(net)
    BY <1>3, Bytes
  <2>2. /\ SubSeq(net, 1, n) \in Seq(Byte) /\ Len(SubSeq(net, 1, n)) = n
        /\ SubSeq(net, n + 1, Len(net)) \in Seq(Byte)
        /\ Len(SubSeq(net, n + 1, Len(net))) = Len(net) - n
        /\ SubSeq(net, 1, n) \o SubSeq(net, n + 1, Len(net)) = net
    BY <2>1, Bytes, CutInTwo
  <2>3. /\ WellFormed(buffer') /\ buffer'.start = 0 /\ usedSize(buffer') = 0 + n
        /\ Used(buffer') = <<>> \o SubSeq(net, 1, n)
    BY <1>1, <1>3, <2>2, PutUsed
  <2>4. net' = SubSeq(net, n + 1, Len(net)) /\ mark' = mark - n
    BY <1>3 DEF Read
  <2>5. Used(buffer') = SubSeq(net, 1, n)
    BY <2>2, <2>3, ConcatEmptySeq
  <2>6. usedSize(buffer') + mark' = mark /\ mark' \in 0..Len(net')
    <3>1. usedSize(buffer') = n
      BY <2>1, <2>3
    <3>2. Len(net') = Len(net) - n
      BY <2>2, <2>4
    <3> QED BY <2>1, <2>4, <3>1, <3>2
  <2>7. Used(buffer') \o net' = net
    BY <2>2, <2>4, <2>5
  <2>8. open' \in BOOLEAN /\ (open' => open)
    BY <1>3 DEF StreamInv, TypeOK
  <2> QED BY <2>2, <2>3, <2>4, <2>6, <2>7, <2>8
<1>4. ASSUME buffer' = e, open' = FALSE, UNCHANGED <<net, mark>>
      PROVE  /\ WellFormed(buffer') /\ buffer'.start = 0 /\ net' \in Seq(Byte)
             /\ mark' \in 0..Len(net') /\ usedSize(buffer') + mark' = mark
             /\ Used(buffer') \o net' = net
             /\ open' \in BOOLEAN /\ (open' => open)
  <2>1. net \in Seq(Byte) /\ mark \in 0..Len(net) /\ 0 + mark = mark
    BY Bytes
  <2>2. <<>> \o net = net
    BY <2>1, ConcatEmptySeq
  <2> QED BY <1>1, <1>4, <2>1, <2>2
<1> QED BY <1>2, <1>3, <1>4 DEF DiscardInBand, e

(* The urgent byte is taken at the mark: nothing that was sent before it is left. *)
LEMMA UrgentByteTaken ==
  ASSUME StreamInv, TakeUrgentByte
  PROVE  /\ WellFormed(buffer') /\ buffer'.start = 0 /\ usedSize(buffer') = 0
         /\ Used(buffer') = <<>> /\ net' = net /\ mark = 0 /\ mark' = 0
         /\ Used(buffer') \o net' = net
         /\ oob' \in {oob, "none"} /\ open' \in BOOLEAN /\ (open' => open)
<1>1. /\ WellFormed(clear(buffer)) /\ clear(buffer).start = 0 /\ usedSize(clear(buffer)) = 0
      /\ Used(clear(buffer)) = <<>>
  BY Bytes, ClearUsed
<1>2. buffer' = clear(buffer) /\ net' = net /\ mark = 0 /\ mark' = 0
  BY DEF TakeUrgentByte
<1>3. oob' \in {oob, "none"}
  BY DEF TakeUrgentByte
<1>4. open' \in BOOLEAN /\ (open' => open)
  <2>1. open \in BOOLEAN
    BY DEF StreamInv, TypeOK
  <2>2. CASE open' = open
    BY <2>1, <2>2
  <2>3. CASE open' = FALSE
    BY <2>3
  <2> QED BY <2>2, <2>3 DEF TakeUrgentByte
<1>5. net \in Seq(Byte)
  BY Bytes
<1>6. <<>> \o net = net
  BY <1>5, ConcatEmptySeq
<1> QED BY <1>1, <1>2, <1>3, <1>4, <1>6

LEMMA UrgentStep ==
  ASSUME StreamInv, ReadUrgent
  PROVE  StreamInv' /\ LinesStep
<1>1. /\ step = "urgent" /\ step' = "poll" /\ urgent' = TRUE /\ ~refused /\ oob # "none"
      /\ UNCHANGED <<refused, executed, client>>
  BY DEF ReadUrgent, StreamInv
<1>2. SubSeq(Used(buffer) \o net, 1, Len(Used(buffer) \o net)) = Used(buffer) \o net
  BY Bytes, SubSeqFull
<1>3. CASE DiscardInBand
  <2>1. /\ WellFormed(buffer') /\ buffer'.start = 0 /\ net' \in Seq(Byte)
        /\ mark' \in 0..Len(net') /\ usedSize(buffer') + mark' = mark
        /\ Used(buffer') \o net' = net
        /\ oob' = oob /\ open' \in BOOLEAN /\ (open' => open)
    BY <1>1, <1>3, InBandDiscarded
  <2>2. TypeOK'
    BY <1>1, <2>1 DEF StreamInv, TypeOK, client
  <2>3. StreamInv'
    BY <1>1, <2>1, <2>2 DEF StreamInv, OnlyLongLinesRefused
  <2>4. L!Discard(usedSize(buffer))
    BY <1>1, <2>1, Bytes, BufferDropped DEF L!Discard, L!Drop
  <2> QED BY <2>1, <2>3, <2>4, Bytes DEF LinesStep, L!Next
<1>4. CASE TakeUrgentByte
  <2>1. /\ WellFormed(buffer') /\ buffer'.start = 0 /\ usedSize(buffer') = 0
        /\ Used(buffer') = <<>> /\ net' = net /\ mark = 0 /\ mark' = 0
        /\ Used(buffer') \o net' = net
        /\ oob' \in {oob, "none"} /\ open' \in BOOLEAN /\ (open' => open)
    BY <1>4, UrgentByteTaken
  <2>2. TypeOK'
    BY <1>1, <2>1, Bytes DEF StreamInv, TypeOK, client
  <2>3. ~Has(Used(buffer'), DM)
    BY <2>1 DEF Has
  <2>4. StreamInv'
    BY <1>1, <2>1, <2>2, <2>3 DEF StreamInv, OnlyLongLinesRefused
  <2>5. L!Discard(usedSize(buffer))
    BY <1>1, <2>1, Bytes, BufferDropped DEF L!Discard, L!Drop
  <2> QED BY <2>1, <2>4, <2>5, Bytes DEF LinesStep, L!Next
<1>5. CASE open' = FALSE /\ UNCHANGED <<buffer, net, oob, mark>>
  <2>1. TypeOK'
    BY <1>1, <1>5 DEF StreamInv, TypeOK, client
  <2>2. StreamInv'
    BY <1>1, <1>5, <2>1 DEF StreamInv, OnlyLongLinesRefused
  <2>3. L!Discard(0)
    <3>1. Used(buffer') = Used(buffer) /\ usedSize(buffer') = usedSize(buffer)
      BY <1>5
    <3> QED BY <1>1, <1>2, <1>5, <3>1, Bytes DEF L!Discard, L!Drop
  <2>4. 0 \in 0..Len(Used(buffer) \o net)
    BY Bytes
  <2> QED BY <1>5, <2>2, <2>3, <2>4 DEF LinesStep, L!Next
<1> QED BY <1>3, <1>4, <1>5 DEF ReadUrgent

-----------------------------------------------------------------------------
(* Bytes are read.                                                          *)

(* After a Synch: no data mark and the bytes stay, or what precedes it goes. *)
LEMMA ReceiveStep ==
  ASSUME StreamInv, step = "read", ~refused,
         NEW n \in 1..InBand, n <= freeSize(buffer), Read(n),
         Receive(Put(buffer, SubSeq(net, 1, n))),
         UNCHANGED <<open, refused, executed, oob, client>>
  PROVE  StreamInv' /\ LinesStep
<1> DEFINE b == Put(buffer, SubSeq(net, 1, n))
<1>1. /\ WellFormed(b) /\ b.start = 0
      /\ usedSize(b) = usedSize(buffer) + n
      /\ Used(b) \in Seq(Byte) /\ Len(Used(b)) = usedSize(b)
      /\ net' \in Seq(Byte) /\ mark' \in 0..Len(net')
      /\ Used(b) \o net' = Used(buffer) \o net
      /\ (oob = "none" => mark' = 0)
      /\ (oob # "none" => usedSize(b) + mark' = usedSize(buffer) + mark)
  BY BytesRead
<1>2. Receive(b)
  OBVIOUS
<1> HIDE DEF b
<1>3. open' \in BOOLEAN /\ (open' => open) /\ UNCHANGED <<refused, executed, oob, client>>
  BY DEF StreamInv, TypeOK
<1>4. usedSize(b) \in Nat
  BY <1>1, UsedBytes
<1>5. ASSUME buffer' = b, urgent' = urgent, step' \in {"poll", "loop"},
             urgent => ~Has(Used(b), DM) /\ step' = "poll", ~urgent => step' = "loop"
      PROVE  StreamInv' /\ LinesStep
  <2>1. TypeOK'
    BY <1>1, <1>3, <1>5 DEF StreamInv, TypeOK, client
  <2>2. StreamInv'
    BY <1>1, <1>3, <1>5, <2>1 DEF StreamInv, OnlyLongLinesRefused
  <2>3. UNCHANGED <<Used(buffer) \o net, executed, urgent, oob # "none",
                    IF oob = "none" THEN 0 ELSE usedSize(buffer) + mark>>
    BY <1>1, <1>3, <1>5
  <2> QED BY <1>3, <2>2, <2>3 DEF LinesStep, L!Next
<1>6. ASSUME urgent, NEW k \in 1..usedSize(b), Used(b)[k] = DM,
             \A i \in 1..(k - 1) : Used(b)[i] # DM,
             buffer' = coalesce(markFree(b, k)), urgent' = FALSE, step' = "loop"
      PROVE  StreamInv' /\ LinesStep
  <2>1. k \in 0..usedSize(b) /\ k \in Nat /\ k <= usedSize(b) /\ k \in 1..Len(Used(b))
    BY <1>1, <1>4
  <2>2. /\ WellFormed(buffer') /\ buffer'.start = 0 /\ usedSize(buffer') = usedSize(b) - k
        /\ Used(buffer') \o net' = SubSeq(Used(b) \o net', k + 1, Len(Used(b) \o net'))
    BY <1>1, <1>6, <2>1, BytesTaken
  <2>3. TypeOK'
    BY <1>1, <1>3, <1>6, <2>2 DEF StreamInv, TypeOK, client
  <2>4. StreamInv'
    BY <1>1, <1>3, <1>6, <2>2, <2>3 DEF StreamInv, OnlyLongLinesRefused
  <2>5. /\ k \in 1..Len(Used(buffer) \o net)
        /\ (Used(buffer) \o net)[k] = DM
        /\ \A i \in 1..(k - 1) : (Used(buffer) \o net)[i] # DM
    <3>1. \A i \in 1..Len(Used(b)) : /\ (Used(b) \o net')[i] = Used(b)[i]
                                     /\ i \in 1..Len(Used(b) \o net')
      BY <1>1, PrefixOfConcat
    <3>2. \A i \in 1..(k - 1) : i \in 1..Len(Used(b))
      BY <1>1, <2>1
    <3> QED BY <1>1, <1>6, <2>1, <3>1, <3>2
  <2>6. oob # "none" => /\ k <= usedSize(buffer) + mark
                        /\ usedSize(buffer') + mark' = usedSize(buffer) + mark - k
    <3> SUFFICES ASSUME oob # "none"
                 PROVE  /\ k <= usedSize(buffer) + mark
                        /\ usedSize(buffer') + mark' = usedSize(buffer) + mark - k
      OBVIOUS
    <3>1. mark' \in Nat /\ usedSize(b) + mark' = usedSize(buffer) + mark
      <4>1. Len(net') \in Nat
        BY <1>1
      <4> QED BY <1>1, <4>1
    <3>2. mark \in Nat /\ usedSize(buffer) \in Nat
      BY Bytes
    <3>3. usedSize(buffer') = usedSize(b) - k /\ k <= usedSize(b) /\ k \in Nat
      BY <2>1, <2>2
    <3> QED BY <1>4, <3>1, <3>2, <3>3
  <2>7. L!Drop(k)
    <3>1. Used(buffer') \o net' = SubSeq(Used(buffer) \o net, k + 1, Len(Used(buffer) \o net))
      BY <1>1, <2>2
    <3>2. k <= Len(Used(buffer) \o net)
      BY <2>5, Bytes
    <3>3. oob' = oob
      BY <1>3
    <3>4. CASE oob = "none"
      BY <3>1, <3>2, <3>3, <3>4 DEF L!Drop
    <3>5. CASE oob # "none"
      <4>1. /\ k <= usedSize(buffer) + mark
            /\ usedSize(buffer') + mark' = usedSize(buffer) + mark - k
        BY <2>6, <3>5
      <4>2. oob' # "none"
        BY <3>3, <3>5
      <4>3. mark \in Nat /\ usedSize(buffer) \in Nat /\ k \in Nat
        BY <2>1, Bytes
      <4>4. mark' \in Nat /\ usedSize(buffer') \in Nat
        <5>1. Len(net') \in Nat
          BY <1>1
        <5> QED BY <1>1, <2>2, <5>1, UsedBytes
      <4> QED BY <3>1, <3>2, <3>5, <4>1, <4>2, <4>3, <4>4 DEF L!Drop
    <3> QED BY <3>4, <3>5
  <2>8. L!Resume(k)
    BY <1>3, <1>6, <2>5, <2>7 DEF L!Resume, L!EndsAt
  <2> QED BY <1>3, <2>4, <2>5, <2>8 DEF LinesStep, L!Next
<1>7. CASE ~urgent /\ buffer' = b /\ step' = "loop" /\ UNCHANGED urgent
  BY <1>5, <1>7
<1>8. CASE urgent /\ ~Has(Used(b), DM) /\ buffer' = b /\ step' = "poll" /\ UNCHANGED urgent
  BY <1>5, <1>8
<1> QED BY <1>2, <1>6, <1>7, <1>8 DEF Receive

LEMMA ReadStep ==
  ASSUME StreamInv, ReadInBand
  PROVE  StreamInv' /\ LinesStep
<1>1. step = "read" /\ ~refused /\ UNCHANGED <<executed, oob, client>>
  BY DEF ReadInBand, StreamInv
<1>2. ASSUME open' = FALSE, step' = "poll", UNCHANGED <<buffer, urgent, net, mark>>,
             refused' = refused \/ (refused' = TRUE /\ freeSize(buffer) = 0)
      PROVE  StreamInv' /\ LinesStep
  <2>1. TypeOK'
    BY <1>1, <1>2 DEF StreamInv, TypeOK, client
  <2>2. refused' => /\ usedSize(buffer) = Size
                    /\ ~Has(Used(buffer), IF urgent THEN DM ELSE LF)
    <3>1. freeSize(buffer) = 0 => usedSize(buffer) = Size
      BY Bytes
    <3>2. ~Has(Used(buffer), IF urgent THEN DM ELSE LF)
      BY <1>1 DEF StreamInv
    <3> QED BY <1>1, <1>2, <3>1, <3>2
  <2>3. OnlyLongLinesRefused'
    BY <1>2, <2>2 DEF OnlyLongLinesRefused
  <2>4. StreamInv'
    BY <1>1, <1>2, <2>1, <2>3 DEF StreamInv
  <2>5. LinesStep
    BY <1>1, <1>2, NothingMoved
  <2> QED BY <2>4, <2>5
<1>3. ASSUME NEW n \in 1..InBand, n <= freeSize(buffer), Read(n),
             Receive(Put(buffer, SubSeq(net, 1, n))), UNCHANGED <<open, refused>>
      PROVE  StreamInv' /\ LinesStep
  BY <1>1, <1>3, ReceiveStep
<1> QED BY <1>2, <1>3 DEF ReadInBand

-----------------------------------------------------------------------------
(* A line is executed.                                                      *)

(* The bytes up to the first delimiter and with it are the first line. *)
LEMMA FirstLine ==
  ASSUME NEW u \in Seq(Byte), NEW p \in 1..Len(u),
         Delimits(u, p), \A q \in 1..(p - 1) : ~Delimits(u, q)
  PROVE  LET n == IF u[p] = CR THEN p + 1 ELSE p
         IN  /\ n \in 1..Len(u) /\ u[n] = LF /\ \A i \in 1..(n - 1) : u[i] # LF
             /\ (IF n > 1 /\ u[n - 1] = CR THEN n - 2 ELSE n - 1) = p - 1
<1> DEFINE n == IF u[p] = CR THEN p + 1 ELSE p
<1>1. Len(u) \in Nat /\ p \in Nat /\ 1 <= p /\ p <= Len(u) /\ CR # LF
  BY CharAssumption
<1>2. \A i \in 1..(p - 1) : u[i] # LF
  BY DEF Delimits
<1>3. CASE u[p] = CR
  <2>1. n = p + 1 /\ p < Len(u) /\ u[p + 1] = LF
    BY <1>1, <1>3 DEF Delimits
  <2>2. ASSUME NEW i \in 1..(n - 1) PROVE u[i] # LF
    <3>1. i \in 1..(p - 1) \/ i = p
      BY <1>1, <2>1
    <3> QED BY <1>1, <1>2, <1>3, <3>1
  <2>3. n - 1 = p /\ n > 1 /\ n - 2 = p - 1 /\ n \in 1..Len(u)
    BY <1>1, <2>1
  <2> QED BY <1>3, <2>1, <2>2, <2>3
<1>4. CASE u[p] # CR
  <2>1. n = p /\ u[p] = LF
    BY <1>4 DEF Delimits
  <2>2. ASSUME n > 1 PROVE u[n - 1] # CR
    <3>1. p - 1 \in 1..(p - 1) /\ p - 1 < Len(u) /\ p - 1 + 1 = p
      BY <1>1, <2>1, <2>2
    <3>2. ~Delimits(u, p - 1)
      BY <3>1
    <3> QED BY <2>1, <3>1, <3>2 DEF Delimits
  <2> QED BY <1>1, <1>2, <1>4, <2>1, <2>2
<1> QED BY <1>3, <1>4

(* What the handler is given is the text of that line. *)
LEMMA LineText ==
  ASSUME NEW u \in Seq(Byte), NEW t \in Seq(Byte), NEW p \in 1..Len(u), NEW n \in 1..Len(u),
         (IF n > 1 /\ u[n - 1] = CR THEN n - 2 ELSE n - 1) = p - 1
  PROVE  /\ L!Text(SubSeq(u \o t, 1, n)) = Decoded(SubSeq(u, 1, p - 1))
         /\ Decoded(SubSeq(u, 1, p - 1)) \in Seq(Byte)
<1> DEFINE line == SubSeq(u \o t, 1, n)
           before == SubSeq(u, 1, p - 1)
<1>1. /\ Len(u) \in Nat /\ p \in Nat /\ 1 <= p /\ p <= Len(u)
      /\ n \in Nat /\ 1 <= n /\ n <= Len(u) /\ p - 1 \in Nat /\ p - 1 <= n
  OBVIOUS
<1>2. /\ u \o t \in Seq(Byte) /\ n \in 0..Len(u \o t) /\ p - 1 \in 0..Len(u)
  BY <1>1
<1>3. line \in Seq(Byte) /\ Len(line) = n
  BY <1>2, CutInTwo
<1>4. before \in Seq(Byte) /\ Len(before) = p - 1
  BY <1>2, CutInTwo
<1>5. \A i \in 1..n : line[i] = u[i]
  BY <1>1, <1>2
<1>6. \A i \in 1..(p - 1) : before[i] = u[i]
  BY <1>1
<1> HIDE DEF line, before
<1>7. (IF n > 1 /\ line[n - 1] = CR THEN n - 2 ELSE n - 1) = p - 1
  <2>1. n > 1 => line[n - 1] = u[n - 1]
    BY <1>1, <1>5
  <2> QED BY <2>1
<1>8. L!Text(line) = [i \in 1..(p - 1) |-> IF line[i] = NUL THEN LF ELSE line[i]]
  BY <1>3, <1>7 DEF L!Text
<1>9. \A i \in 1..(p - 1) : line[i] = before[i]
  BY <1>1, <1>5, <1>6
<1>10. Decoded(before) = [i \in 1..(p - 1) |-> IF before[i] = NUL THEN LF ELSE before[i]]
  BY <1>4 DEF Decoded
<1>11. \A i \in 1..(p - 1) : (IF before[i] = NUL THEN LF ELSE before[i]) \in Byte
  BY <1>4, CharAssumption
<1>12. Decoded(before) \in [1..(p - 1) -> Byte]
  BY <1>10, <1>11
<1>13. Decoded(before) \in Seq(Byte)
  BY <1>1, <1>12, FunctionIsSeq
<1> QED BY <1>8, <1>9, <1>10, <1>13 DEF line, before

LEMMA LoopStep ==
  ASSUME StreamInv, step = "loop", NEW p \in 1..Len(Used(buffer)),
         Delimits(Used(buffer), p), \A q \in 1..(p - 1) : ~Delimits(Used(buffer), q),
         TakeLine(buffer, p), open' \in {open, FALSE},
         UNCHANGED <<step, urgent, refused, net, oob, mark, client>>
  PROVE  StreamInv' /\ LinesStep
<1> DEFINE u == Used(buffer)
           n == IF u[p] = CR THEN p + 1 ELSE p
<1>1. /\ u \in Seq(Byte) /\ Len(u) = usedSize(buffer) /\ net \in Seq(Byte)
      /\ usedSize(buffer) \in Nat
  BY Bytes
<1>2. /\ n \in 1..Len(u) /\ u[n] = LF /\ \A i \in 1..(n - 1) : u[i] # LF
      /\ (IF n > 1 /\ u[n - 1] = CR THEN n - 2 ELSE n - 1) = p - 1
  BY <1>1, FirstLine
<1>3. /\ buffer' = coalesce(markFree(buffer, n))
      /\ executed' = Append(executed, Decoded(SubSeq(u, 1, p - 1)))
  BY DEF TakeLine
<1>4. p \in 1..Len(u)
  OBVIOUS
<1> HIDE DEF n
<1>5. /\ n \in 0..usedSize(buffer) /\ n \in Nat /\ n <= usedSize(buffer)
  BY <1>1, <1>2
<1>6. /\ WellFormed(buffer') /\ buffer'.start = 0
      /\ usedSize(buffer') = usedSize(buffer) - n
      /\ Used(buffer') \o net = SubSeq(u \o net, n + 1, Len(u \o net))
  BY <1>1, <1>3, <1>5, Bytes, BytesTaken
<1>7. /\ L!Text(SubSeq(u \o net, 1, n)) = Decoded(SubSeq(u, 1, p - 1))
      /\ Decoded(SubSeq(u, 1, p - 1)) \in Seq(Byte)
  BY <1>1, <1>2, <1>4, LineText
<1>8. open' \in BOOLEAN /\ (open' => open)
  <2>1. open \in BOOLEAN
    BY DEF StreamInv, TypeOK
  <2>2. CASE open' = open
    BY <2>1, <2>2
  <2>3. CASE open' = FALSE
    BY <2>3
  <2> QED BY <2>2, <2>3
<1>9. ~urgent /\ ~refused /\ executed \in Seq(Seq(Byte))
  BY DEF StreamInv, TypeOK
<1>10. executed' \in Seq(Seq(Byte))
  BY <1>3, <1>7, <1>9
<1>11. TypeOK'
  BY <1>6, <1>8, <1>10 DEF StreamInv, TypeOK, client
<1>12. StreamInv'
  BY <1>6, <1>9, <1>11 DEF StreamInv, OnlyLongLinesRefused
<1>13. L!EndsAt(u \o net, LF, n)
  <2>1. \A i \in 1..Len(u) : (u \o net)[i] = u[i]
    BY <1>1, PrefixOfConcat
  <2>2. \A i \in 1..(n - 1) : i \in 1..Len(u)
    BY <1>1, <1>5
  <2> QED BY <1>2, <2>1, <2>2 DEF L!EndsAt
<1>14. n \in 1..Len(u \o net) /\ n <= Len(u \o net)
  <2>1. Len(u \o net) = usedSize(buffer) + Len(net) /\ Len(net) \in Nat
    BY Bytes
  <2> HIDE DEF u
  <2> QED BY <1>1, <1>2, <1>5, <2>1
<1>15. L!Drop(n)
  <2>1. oob' = oob /\ mark' = mark /\ net' = net
    OBVIOUS
  <2>2. mark \in Nat
    BY Bytes
  <2>3. usedSize(buffer) - n + mark = usedSize(buffer) + mark - n /\ n <= usedSize(buffer) + mark
    BY <1>1, <1>5, <2>2
  <2>4. Used(buffer') \o net' = SubSeq(u \o net, n + 1, Len(u \o net))
    BY <1>6, <2>1
  <2>5. CASE oob = "none"
    BY <1>14, <2>1, <2>4, <2>5 DEF L!Drop
  <2>6. CASE oob # "none"
    BY <1>1, <1>5, <1>6, <1>14, <2>1, <2>2, <2>3, <2>4, <2>6 DEF L!Drop
  <2> QED BY <2>5, <2>6
<1>16. L!Execute(n)
  BY <1>3, <1>7, <1>9, <1>13, <1>15 DEF L!Execute
<1> QED BY <1>8, <1>12, <1>14, <1>16 DEF LinesStep, L!Next

LEMMA NextCommandStep ==
  ASSUME StreamInv, NextCommand
  PROVE  StreamInv' /\ LinesStep
<1>1. /\ step = "loop" /\ ~urgent /\ ~refused
      /\ UNCHANGED <<urgent, refused, net, oob, mark, client>>
  BY DEF NextCommand, StreamInv
<1>2. ASSUME ~\E p \in 1..Len(Used(buffer)) : Delimits(Used(buffer), p), step' = "poll",
             UNCHANGED <<buffer, executed, open>>
      PROVE  StreamInv' /\ LinesStep
  <2>1. ~Has(Used(buffer), LF)
    BY <1>2 DEF Has, Delimits
  <2>2. TypeOK'
    BY <1>1, <1>2 DEF StreamInv, TypeOK, client
  <2>3. StreamInv'
    BY <1>1, <1>2, <2>1, <2>2 DEF StreamInv, OnlyLongLinesRefused
  <2>4. LinesStep
    BY <1>1, <1>2, NothingMoved DEF StreamInv, TypeOK
  <2> QED BY <2>3, <2>4
<1>3. ASSUME NEW p \in 1..Len(Used(buffer)),
             Delimits(Used(buffer), p), \A q \in 1..(p - 1) : ~Delimits(Used(buffer), q),
             TakeLine(buffer, p), UNCHANGED step, open' \in {open, FALSE}
      PROVE  StreamInv' /\ LinesStep
  BY <1>1, <1>3, LoopStep
<1> QED BY <1>2, <1>3 DEF NextCommand

-----------------------------------------------------------------------------

LEMMA StreamStep == StreamInv /\ [Next]_vars => StreamInv' /\ LinesStep
<1> SUFFICES ASSUME StreamInv, [Next]_vars PROVE StreamInv' /\ LinesStep
  OBVIOUS
<1>1. CASE UNCHANGED vars
  <2>1. StreamInv'
    BY <1>1 DEF vars, client, StreamInv, TypeOK, OnlyLongLinesRefused
  <2>2. LinesStep
    BY <1>1 DEF vars, LinesStep, L!vars
  <2> QED BY <2>1, <2>2
<1>2. CASE (\E x \in Byte : Send(x)) \/ Synch \/ UrgentArrives \/ Leave
  BY <1>2, ClientStep
<1>3. CASE Poll \/ Close
  BY <1>3, PollStep
<1>4. CASE ReadUrgent
  BY <1>4, UrgentStep
<1>5. CASE ReadInBand
  BY <1>5, ReadStep
<1>6. CASE NextCommand
  BY <1>6, NextCommandStep
<1>7. CASE Over
  BY <1>1, <1>7 DEF Over
<1> QED BY <1>1, <1>2, <1>3, <1>4, <1>5, <1>6, <1>7 DEF Next, Server

LEMMA InitialStream == Init => StreamInv /\ L!Init
<1> SUFFICES ASSUME Init PROVE StreamInv /\ L!Init
  OBVIOUS
<1>1. WellFormed(buffer) /\ buffer.start = 0 /\ Used(buffer) = <<>> /\ net = <<>>
  BY EmptyBuffer DEF Init
<1>2. ~Has(Used(buffer), LF) /\ net \in Seq(Byte) /\ Len(net) = 0 /\ <<>> \o <<>> = <<>>
  BY <1>1 DEF Has
<1>3. executed \in Seq(Seq(Byte))
  BY DEF Init
<1>4. TypeOK
  <2>1. /\ 0 \in 0..MaxBytes /\ 0 \in 0..MaxSynchs /\ 0 \in 0..Len(net)
    BY <1>2, BoundAssumption
  <2> QED BY <1>1, <1>2, <1>3, <2>1 DEF Init, TypeOK
<1>5. StreamInv
  BY <1>1, <1>2, <1>4 DEF Init, StreamInv, OnlyLongLinesRefused
<1>6. L!Init
  BY <1>1, <1>2 DEF Init, L!Init
<1> QED BY <1>5, <1>6

(* The inductive invariant, and with it type correctness: the buffer is compact between two
   steps, and what is left in it outside the loop of readCommand holds no whole line. *)
THEOREM InvariantKept == Spec => [](StreamInv /\ TypeOK)
<1>1. StreamInv => TypeOK
  BY DEF StreamInv
<1> QED BY <1>1, InitialStream, StreamStep, PTL DEF Spec

(* readCommand closes a connection for "Exceeded command buffer size" only when one line
   fills the whole buffer, whatever was sent before it and however it was cut. *)
THEOREM LongLines == Spec => []OnlyLongLinesRefused
<1>1. StreamInv => OnlyLongLinesRefused
  BY DEF StreamInv
<1> QED BY <1>1, InitialStream, StreamStep, PTL DEF Spec

(* The commands given to handlers are the whole lines the client sent, in order and once
   each, and a Synch drops all that was sent before it (readCommand, parseCommand). *)
THEOREM WholeLines == Spec => LinesSpec
<1>1. LinesStep => [L!Next]_(L!vars)
  BY DEF LinesStep
<1> QED BY <1>1, InitialStream, StreamStep, PTL DEF Spec, LinesSpec, L!Spec

=============================================================================
