--------------------------- MODULE ResponseStream ---------------------------
(***************************************************************************)
(* The replies of a session on their way to the client: both overloads of   *)
(* sendResponse and writeResponse, through m_responseBuffer.                *)
(*                                                                          *)
(* FtpSession only knows whether the buffer holds something; here it is     *)
(* held byte by byte.  The two modules meet in sendResponse: what fails     *)
(* here (no room, a write error) is what closes the command socket there.   *)
(***************************************************************************)
EXTENDS IOBuffer

CONSTANTS Replies,     \* the texts a reply may have
          MaxBytes     \* bound: bytes of all replies together

ASSUME RepliesAssumption == Replies \subseteq Seq(Byte \ {NUL}) \ {<<>>}
ASSUME MaxBytesAssumption == MaxBytes \in Nat

VARIABLES buffer,      \* m_responseBuffer
          open,        \* m_commandSocket is there
          replied,     \* history: bytes put into the buffer
          written,     \* history: bytes ::send took
          fault        \* the assert of IOBuffer::freeArea failed

vars == <<buffer, open, replied, written, fault>>

TypeOK == /\ WellFormed(buffer)
          /\ open \in BOOLEAN
          /\ replied \in Seq(Byte)
          /\ written \in Seq(Byte)
          /\ fault \in BOOLEAN

Init == /\ buffer = NewBuffer
        /\ open = TRUE
        /\ replied = <<>>
        /\ written = <<>>
        /\ fault = FALSE

-----------------------------------------------------------------------------

Answerable(r) == open /\ ~fault /\ Len(replied) + Len(r) <= MaxBytes

\* freeArea is called before the size is looked at.
NoFreeArea == /\ ~FreeAreaExists(buffer)
              /\ fault' = TRUE
              /\ UNCHANGED <<buffer, open, replied, written>>

\* "Not enough space for response".
NoRoom(r) == /\ FreeAreaExists(buffer)
             /\ Len(r) > freeSize(buffer)
             /\ open' = FALSE
             /\ UNCHANGED <<buffer, replied, written, fault>>

Fits(r) == FreeAreaExists(buffer) /\ Len(r) <= freeSize(buffer)

\* vsnprintf ends what it writes with a NUL and returns the length of the whole
\* text: of one that just fits the last byte is the NUL.
Formatted(r) == IF Len(r) = freeSize(buffer) THEN [r EXCEPT ![Len(r)] = NUL] ELSE r

\* Mutant: what was written is freed, but its room is not reclaimed.
SentKeepsGap(b, n) ==
  /\ buffer' = markFree(b, n)
  /\ written' = written \o SubSeq(Used(b), 1, n)

\* The socket took n bytes.
Sent(b, n) ==
  /\ buffer' = coalesce(markFree(b, n))
  /\ written' = written \o SubSeq(Used(b), 1, n)

\* sendResponse (char const *, ...): format, then try to write at once.
SendFormatted(r) ==
  /\ Answerable(r)
  /\ \/ NoFreeArea
     \/ NoRoom(r)
     \/ /\ Fits(r)
        /\ LET b == Put(buffer, Formatted(r))
           IN  /\ replied' = replied \o Formatted(r)
               /\ \/ \E n \in 1..usedSize(b) : Sent(b, n) /\ UNCHANGED open
                  \/ buffer' = b /\ UNCHANGED <<open, written>>
                  \/ buffer' = b /\ open' = FALSE /\ UNCHANGED written
        /\ UNCHANGED fault

\* sendResponse (std::string_view): only append.
SendPrepared(r) ==
  /\ Answerable(r)
  /\ \/ NoFreeArea
     \/ NoRoom(r)
     \/ /\ Fits(r)
        /\ buffer' = Put(buffer, r)
        /\ replied' = replied \o r
        /\ UNCHANGED <<open, written, fault>>

\* The poll asked for POLLOUT and got it: here a socket that would block is an error.
WriteResponse ==
  /\ open /\ ~fault
  /\ usedSize(buffer) # 0
  /\ \/ \E n \in 1..usedSize(buffer) : Sent(buffer, n) /\ UNCHANGED open
     \/ open' = FALSE /\ UNCHANGED <<buffer, written>>
  /\ UNCHANGED <<replied, fault>>

\* The command socket is closed for any other reason, or the process is dead.
Close == open /\ ~fault /\ open' = FALSE /\ UNCHANGED <<buffer, replied, written, fault>>

Over == (~open \/ fault) /\ UNCHANGED vars

Next == \/ \E r \in Replies : SendFormatted(r) \/ SendPrepared(r)
        \/ WriteResponse
        \/ Close
        \/ Over

Spec == Init /\ [][Next]_vars

-----------------------------------------------------------------------------

\* A step hands over nothing, a reply, or one whose last byte is lost to the NUL.
ReplyChunks == {<<>>} \cup Replies \cup {[r EXCEPT ![Len(r)] = NUL] : r \in Replies}

P == INSTANCE Pipe WITH Chunks <- ReplyChunks, accepted <- replied,
                        pending <- Used(buffer), delivered <- written, up <- open

\* The client receives the replies as they were put into the buffer: in order,
\* none lost between a partial write, a blocked one and a later one, none twice.
PipeSpec == P!Spec

\* Between two calls all room but that of the unsent bytes is free: a client
\* that reads slowly is only refused when it really lags a buffer behind.
RoomReclaimed == buffer.start = 0

\* The assert of IOBuffer::freeArea holds whenever a reply is sent.
FreeAreaInBuffer == ~fault

=============================================================================
