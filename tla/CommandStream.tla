--------------------------- MODULE CommandStream ---------------------------
(***************************************************************************)
(* The commands of a client on their way to the handlers: readCommand and   *)
(* m_commandBuffer, byte by byte, with Telnet Synchs (TCP urgent data).     *)
(*                                                                          *)
(* FtpSession takes the commands of one read as a batch; here they are cut  *)
(* out of the bytes that arrive.  What a handler does is left to that       *)
(* module: it may close the command socket, and the loop goes on.           *)
(***************************************************************************)
EXTENDS IOBuffer

CONSTANTS CR, LF, DM,    \* the bytes that matter, beside NUL
          MaxBytes,      \* bound: bytes the client sends
          MaxSynchs      \* bound: Synchs the client sends

ASSUME CharAssumption == /\ CR \in Byte /\ LF \in Byte /\ DM \in Byte
                         /\ CR # LF /\ CR # DM /\ LF # DM
                         /\ NUL # LF /\ NUL # CR /\ NUL # DM
ASSUME BoundAssumption == MaxBytes \in Nat /\ MaxSynchs \in Nat

VARIABLES buffer,     \* m_commandBuffer
          urgent,     \* m_urgent
          step,       \* where the thread is in poll and readCommand
          open,       \* m_commandSocket is there
          refused,    \* history: "Exceeded command buffer size"
          executed,   \* history: the commands given to their handlers
          net,        \* in-band bytes not read yet
          oob,        \* the urgent byte: "none", "pending" (announced) or "here"
          mark,       \* the bytes of net that precede it
          sent, synchs, gone    \* the client: bytes and Synchs sent, end of stream

client == <<sent, synchs, gone>>

vars == <<buffer, urgent, step, open, refused, executed, net, oob, mark, client>>

TypeOK == /\ WellFormed(buffer)
          /\ urgent \in BOOLEAN
          /\ step \in {"poll", "urgent", "read", "loop"}
          /\ open \in BOOLEAN
          /\ refused \in BOOLEAN
          /\ executed \in Seq(Seq(Byte))
          /\ net \in Seq(Byte)
          /\ oob \in {"none", "pending", "here"}
          /\ mark \in 0..Len(net)
          /\ sent \in 0..MaxBytes
          /\ synchs \in 0..MaxSynchs
          /\ gone \in BOOLEAN

Init == /\ buffer = NewBuffer
        /\ urgent = FALSE
        /\ step = "poll"
        /\ open = TRUE
        /\ refused = FALSE
        /\ executed = <<>>
        /\ net = <<>>
        /\ oob = "none"
        /\ mark = 0
        /\ sent = 0
        /\ synchs = 0
        /\ gone = FALSE

Has(s, x) == \E i \in 1..Len(s) : s[i] = x

-----------------------------------------------------------------------------
\* The client and the network.

Send(b) == /\ open /\ ~gone
           /\ sent < MaxBytes
           /\ sent' = sent + 1
           /\ net' = Append(net, b)
           /\ UNCHANGED <<buffer, urgent, step, open, refused, executed, oob, mark,
                          synchs, gone>>

\* A later urgent byte takes the place of one that was not read.
Synch == /\ open /\ ~gone
         /\ synchs < MaxSynchs
         /\ synchs' = synchs + 1
         /\ oob' \in {"pending", "here"}
         /\ mark' = Len(net)
         /\ UNCHANGED <<buffer, urgent, step, open, refused, executed, net, sent, gone>>

UrgentArrives == /\ oob = "pending"
                 /\ oob' = "here"
                 /\ UNCHANGED <<buffer, urgent, step, open, refused, executed, net, mark,
                                client>>

Leave == /\ ~gone
         /\ gone' = TRUE
         /\ UNCHANGED <<buffer, urgent, step, open, refused, executed, net, oob, mark,
                        sent, synchs>>

-----------------------------------------------------------------------------

\* What a read without MSG_OOB returns stops at the mark.
InBand == IF oob = "none" THEN Len(net) ELSE mark

\* The first n in-band bytes were read.
Read(n) == /\ net' = SubSeq(net, n + 1, Len(net))
           /\ mark' = IF oob = "none" THEN 0 ELSE mark - n

\* poll reports POLLPRI as soon as a Synch is announced, and POLLIN for bytes or the end.
Poll == /\ step = "poll" /\ open
        /\ \/ oob # "none" /\ step' = "urgent"
           \/ oob = "none" /\ (net # <<>> \/ gone) /\ step' = "read"
        /\ UNCHANGED <<buffer, urgent, open, refused, executed, net, oob, mark, client>>

\* Mutant: what is read is appended to what the buffer holds.
DiscardInBandAppends ==
  /\ mark # 0
  /\ \E n \in 0..mark : /\ n <= Size
                        /\ n = 0 => oob = "pending"
                        /\ buffer' = Put(buffer, SubSeq(net, 1, n))
                        /\ Read(n)
                        /\ UNCHANGED open
  /\ UNCHANGED oob

\* The bytes before the mark are read to be dropped by the next call, as many as fit;
\* that call comes, as the urgent byte is still there.
DiscardInBand ==
  /\ mark # 0
  /\ \/ \E n \in 0..mark : /\ n <= Size
                           /\ n = 0 => oob = "pending"
                           /\ buffer' = Put(clear(buffer), SubSeq(net, 1, n))
                           /\ Read(n)
                           /\ UNCHANGED open
     \/ buffer' = clear(buffer) /\ open' = FALSE /\ UNCHANGED <<net, mark>>
  /\ UNCHANGED oob

\* Mutant: what is in the buffer survives the Synch.
TakeUrgentByteKeepsBuffer ==
  /\ mark = 0
  /\ \/ oob = "here" /\ oob' = "none" /\ UNCHANGED open
     \/ oob = "pending" /\ UNCHANGED <<oob, open>>
     \/ open' = FALSE /\ UNCHANGED oob
  /\ UNCHANGED <<buffer, net, mark>>

\* At the mark the urgent byte itself is read and dropped; EWOULDBLOCK: it is on the way.
TakeUrgentByte ==
  /\ mark = 0
  /\ buffer' = clear(buffer)
  /\ \/ oob = "here" /\ oob' = "none" /\ UNCHANGED open
     \/ oob = "pending" /\ UNCHANGED <<oob, open>>
     \/ open' = FALSE /\ UNCHANGED oob
  /\ UNCHANGED <<net, mark>>

\* readCommand with POLLPRI: the buffered commands and all bytes before the mark go.
ReadUrgent ==
  /\ step = "urgent"
  /\ step' = "poll"
  /\ urgent' = TRUE
  /\ \/ DiscardInBand
     \/ TakeUrgentByte
     \/ open' = FALSE /\ UNCHANGED <<buffer, net, oob, mark>>   \* sockatmark failed
  /\ UNCHANGED <<refused, executed, client>>

\* Mutant: the call ends with the data mark, whatever follows it.
ReceiveStopsAtMark(b) ==
  \/ ~urgent /\ buffer' = b /\ step' = "loop" /\ UNCHANGED urgent
  \/ urgent /\ ~Has(Used(b), DM) /\ buffer' = b /\ step' = "poll" /\ UNCHANGED urgent
  \/ /\ urgent
     /\ \E n \in 1..usedSize(b) : /\ Used(b)[n] = DM
                                  /\ \A i \in 1..(n - 1) : Used(b)[i] # DM
                                  /\ buffer' = coalesce(markFree(b, n))
     /\ urgent' = FALSE
     /\ step' = "poll"

\* After a Synch all that precedes the data mark is ignored; without it nothing is looked at.
Receive(b) ==
  \/ ~urgent /\ buffer' = b /\ step' = "loop" /\ UNCHANGED urgent
  \/ urgent /\ ~Has(Used(b), DM) /\ buffer' = b /\ step' = "poll" /\ UNCHANGED urgent
  \/ /\ urgent
     /\ \E n \in 1..usedSize(b) : /\ Used(b)[n] = DM
                                  /\ \A i \in 1..(n - 1) : Used(b)[i] # DM
                                  /\ buffer' = coalesce(markFree(b, n))
     /\ urgent' = FALSE
     /\ step' = "loop"

\* readCommand with POLLIN alone.  A read may fail at any time; 0 is the end of the stream.
ReadInBand ==
  /\ step = "read"
  /\ \/ /\ freeSize(buffer) = 0
        /\ open' = FALSE /\ refused' = TRUE /\ step' = "poll"
        /\ UNCHANGED <<buffer, urgent, net, mark>>
     \/ /\ freeSize(buffer) # 0
        /\ open' = FALSE /\ step' = "poll"
        /\ UNCHANGED <<buffer, urgent, refused, net, mark>>
     \/ \E n \in 1..InBand : /\ n <= freeSize(buffer)
                             /\ Read(n)
                             /\ Receive(Put(buffer, SubSeq(net, 1, n)))
                             /\ UNCHANGED <<open, refused>>
  /\ UNCHANGED <<executed, oob, client>>

\* The delimiter parseCommand looks for: CR LF or LF.
Delimits(s, p) == s[p] = LF \/ (s[p] = CR /\ p < Len(s) /\ s[p + 1] = LF)

\* decodePath: an encoded LF.
Decoded(s) == [i \in 1..Len(s) |-> IF s[i] = NUL THEN LF ELSE s[i]]

\* Mutant: the room of the commands that were executed is not reclaimed.
TakeLineKeepsGap(b, p) ==
  /\ executed' = Append(executed, Decoded(SubSeq(Used(b), 1, p - 1)))
  /\ buffer' = markFree(b, IF Used(b)[p] = CR THEN p + 1 ELSE p)

\* The command that ends at delimiter p is executed, then its bytes are freed.
TakeLine(b, p) ==
  /\ executed' = Append(executed, Decoded(SubSeq(Used(b), 1, p - 1)))
  /\ buffer' = coalesce(markFree(b, IF Used(b)[p] = CR THEN p + 1 ELSE p))

\* The loop of readCommand.  It goes on when a handler closed the command socket.
NextCommand ==
  /\ step = "loop"
  /\ LET s == Used(buffer)
     IN  \/ /\ ~\E p \in 1..Len(s) : Delimits(s, p)
            /\ step' = "poll"
            /\ UNCHANGED <<buffer, executed, open>>
         \/ \E p \in 1..Len(s) : /\ Delimits(s, p)
                                 /\ \A q \in 1..(p - 1) : ~Delimits(s, q)
                                 /\ TakeLine(buffer, p)
                                 /\ UNCHANGED step
                                 /\ open' \in {open, FALSE}
  /\ UNCHANGED <<urgent, refused, net, oob, mark, client>>

\* Anything else that closes the command socket: the idle test, a failing reply.
Close == /\ open /\ step = "poll"
         /\ open' = FALSE
         /\ UNCHANGED <<buffer, urgent, step, refused, executed, net, oob, mark, client>>

Over == ~open /\ step = "poll" /\ UNCHANGED vars

Server == Poll \/ ReadUrgent \/ ReadInBand \/ NextCommand

Next == \/ \E b \in Byte : Send(b)
        \/ Synch \/ UrgentArrives \/ Leave
        \/ Server \/ Close \/ Over

Spec == Init /\ [][Next]_vars

\* The server loop polls the session and runs what it finds; an announced byte arrives.
FairSpec == Spec /\ WF_vars(Server) /\ WF_vars(UrgentArrives)

-----------------------------------------------------------------------------

L == INSTANCE CommandLines
       WITH todo <- Used(buffer) \o net, waiting <- urgent, due <- oob # "none",
            before <- IF oob = "none" THEN 0 ELSE usedSize(buffer) + mark, up <- open

\* However the bytes are cut by reads and interleaved with Synchs: every command is one
\* whole line, in order, none twice, none made of bytes from both sides of a Synch.
LinesSpec == L!Spec

\* A client is refused only for one line that fills the whole buffer, never for many
\* short ones (while a Synch is handled: for a buffer of bytes without a data mark).
OnlyLongLinesRefused ==
  refused => /\ usedSize(buffer) = Size
             /\ ~Has(Used(buffer), IF urgent THEN DM ELSE LF)

\* Between two steps the buffer has no gap, a Synch is looked at as long as it is due, and
\* outside the loop no whole line is in the buffer (after a Synch: no data mark).
StreamInv ==
  /\ TypeOK
  /\ buffer.start = 0
  /\ oob = "none" => mark = 0
  /\ step = "urgent" => oob # "none"
  /\ step = "loop" => ~urgent
  /\ urgent /\ (step = "read" \/ oob = "none") => ~Has(Used(buffer), DM)
  /\ ~urgent /\ step # "loop" => ~Has(Used(buffer), LF)
  /\ refused => step = "poll" /\ ~open
  /\ OnlyLongLinesRefused

\* No line is left lying: as long as the connection lasts, every line that was sent is
\* executed or dropped by a Synch, and a data mark ends the wait after one.
NothingLeftLying ==
  <>[](open => ~Has(Used(buffer) \o net, IF urgent THEN DM ELSE LF))

=============================================================================
