------------------------------ MODULE Transfer ------------------------------
(***************************************************************************)
(* The bytes of one file between m_file and the data connection: REST,      *)
(* xferFile and the two transfer functions, with the numbers they go        *)
(* through (a 64-bit offset that reaches fseek as a long) and the buffer of *)
(* the C library, which may fail to reach the disk when the file is closed. *)
(*                                                                          *)
(* The sockets, and whatever ends a transfer from outside, are FtpSession's *)
(* subject.  The client is logged in; no other session has the file.        *)
(***************************************************************************)
EXTENDS IOBuffer

CONSTANTS UMax,            \* UINT64_MAX
          LongMax,         \* LONG_MAX, which is SSIZE_MAX
          Offsets,         \* what clients send with REST: digits, and 10 for any other char
          Contents,        \* what the file may hold at first
          Upload,          \* the bytes clients send
          MaxUpload,       \* bound: bytes of one upload
          MaxTransfers     \* bound: transfers begun

ASSUME WidthAssumption == UMax \in Nat /\ LongMax \in Nat
ASSUME OffsetAssumption == \A args \in Offsets : args \in Seq(0..10)
ASSUME DataAssumption == Upload \subseteq Byte /\ \A s \in Contents : s \in Seq(Byte)
ASSUME BoundAssumption == MaxUpload \in Nat /\ MaxTransfers \in Nat

VARIABLES state,       \* m_state
          mode,        \* mode_ of the last xferFile that went through, for m_transfer
          ready,       \* m_pasv or m_port
          restart,     \* m_restartPosition
          devZero,     \* m_devZero
          buffer,      \* m_xferBuffer
          pos,         \* where m_file is read next, or where the first byte of pending goes
          pending,     \* bytes fwrite took that are not on the disk yet
          exists, disk,                     \* the file
          upload, coming, ended,            \* the peer of a store: sent, not read yet, closed
          sent,                             \* the peer of a retrieve: received
          asked,       \* history: the offset REST asked for
          at, base,    \* history: where the transfer began, and what the file held then
          flushed,     \* history: bytes of the transfer on the disk
          result,      \* history: how it ended
          count        \* transfers begun

target  == <<exists, disk>>
peer    == <<upload, coming, ended, sent>>
history == <<at, base, count>>
vars    == <<state, mode, ready, restart, devZero, buffer, pos, pending, target, peer,
             asked, history, flushed, result>>

TypeOK == /\ state \in {"COMMAND", "DATA_CONNECT", "DATA_TRANSFER"}
          /\ mode \in {"none", "RETR", "STOR", "APPE"}
          /\ ready \in BOOLEAN /\ devZero \in BOOLEAN /\ exists \in BOOLEAN /\ ended \in BOOLEAN
          /\ WellFormed(buffer)
          /\ pos \in Nat /\ at \in Nat
          /\ \A s \in {pending, disk, upload, coming, sent, base, flushed} : s \in Seq(Byte)
          /\ result \in {"none", "226", "lost", "failed", "destroyed"}
          /\ count \in 0..MaxTransfers

Init == /\ state = "COMMAND"
        /\ mode = "none"
        /\ ready = FALSE
        /\ restart = 0
        /\ devZero = FALSE
        /\ buffer = NewBuffer
        /\ pos = 0
        /\ pending = <<>>
        /\ \/ exists = FALSE /\ disk = <<>>
           \/ exists = TRUE /\ disk \in Contents
        /\ upload = <<>> /\ coming = <<>> /\ ended = FALSE /\ sent = <<>>
        /\ asked = 0
        /\ at = 0 /\ base = <<>>
        /\ flushed = <<>>
        /\ result = "none"
        /\ count = 0

-----------------------------------------------------------------------------
\* Numbers.

Refused == -1

\* The loop over the digits.  Without its checks the sum would wrap.
Parsed(args) ==
  LET digits[i \in 0..Len(args)] ==
        IF i = 0 THEN 0
        ELSE IF digits[i - 1] = Refused \/ args[i] \notin 0..9 \/ UMax \div 10 < digits[i - 1]
        THEN Refused
        ELSE LET tens == (digits[i - 1] * 10) % (UMax + 1)
             IN  IF UMax - args[i] < tens THEN Refused ELSE tens + args[i]
  IN  digits[Len(args)]

\* The number the client wrote.
Value(args) == LET v[i \in 0..Len(args)] == IF i = 0 THEN 0 ELSE v[i - 1] * 10 + args[i]
               IN  v[Len(args)]

\* A 64-bit number as a long: its lower bits.
Narrow(n) == LET low == n % (2 * (LongMax + 1))
             IN  IF low <= LongMax THEN low ELSE low - 2 * (LongMax + 1)

-----------------------------------------------------------------------------
\* The file.

\* f after s was written at offset p: a gap is filled with zeros, a tail stays.
Patch(f, p, s) ==
  IF s = <<>> THEN f
  ELSE [i \in 1..(IF Len(f) < p + Len(s) THEN p + Len(s) ELSE Len(f)) |->
          IF p < i /\ i <= p + Len(s) THEN s[i - p] ELSE IF i <= Len(f) THEN f[i] ELSE NUL]

\* The first n bytes of s, which fwrite took, reach the disk.
Flush(s, n) == disk' = Patch(disk, pos, SubSeq(s, 1, n))

\* setState (COMMAND).  What is not kept any more is emptied here, the history too.
ToCommand == /\ state' = "COMMAND"
             /\ restart' = 0
             /\ asked' = 0
             /\ devZero' = FALSE
             /\ pos' = 0 /\ pending' = <<>> /\ flushed' = <<>>
             /\ upload' = <<>> /\ coming' = <<>> /\ ended' = FALSE /\ sent' = <<>>
             /\ at' = 0 /\ base' = <<>>

\* A transfer ends with reply how.
Finish(how) == /\ ToCommand
               /\ result' = how
               /\ UNCHANGED <<mode, exists, count>>

\* The file is closed.  It may not take all of what is pending; fclose is not asked.
CloseFile(p, how) == \E n \in 0..Len(p) :
                       /\ Flush(p, n)
                       /\ Finish(IF how = "226" /\ n < Len(p) THEN "lost" ELSE how)

-----------------------------------------------------------------------------
\* Commands.

\* Mutant: the offset of an earlier REST stays when this one is refused.
RESTKeepsOffset(args) ==
  LET offset == Parsed(args)
  IN  /\ state = "COMMAND"
      /\ restart' = IF offset = Refused THEN restart ELSE offset
      /\ asked' = IF offset = Refused THEN 0 ELSE Value(args)
      /\ devZero' = FALSE
      /\ pending' = <<>>
      /\ UNCHANGED <<state, mode, ready, buffer, pos, target, peer, history, flushed, result>>

REST(args) ==
  LET offset == Parsed(args)
  IN  /\ state = "COMMAND"
      /\ restart' = IF offset = Refused THEN 0 ELSE offset
      /\ asked' = IF offset = Refused THEN 0 ELSE Value(args)
      /\ devZero' = FALSE
      /\ pending' = <<>>
      /\ UNCHANGED <<state, mode, ready, buffer, pos, target, peer, history, flushed, result>>

\* PASV and PORT, and the many commands that do nothing here but reset the state.
Prepare == /\ state = "COMMAND"
           /\ ToCommand
           /\ ready' \in BOOLEAN
           /\ UNCHANGED <<mode, buffer, target, count, result>>

\* Where fopen and fseek leave the file.
Start(m) == IF m = "APPE" THEN Len(disk) ELSE Narrow(restart)

\* Mutant: the file is always opened with "wb".
TruncatesAlways(m) == m = "STOR"

\* fopen with "wb" and not "r+b".
Truncates(m) == m = "STOR" /\ restart = 0

\* 450: the file is not there, or is not opened, or does not take the offset.
NotOpened == UNCHANGED <<state, mode, ready, restart, devZero, pos, pending, target, peer,
                         asked, history, flushed, result>>

\* 553 before the file is opened, 503 or 425 after.
Abandon == /\ ToCommand
           /\ ready' \in {ready, FALSE}
           /\ UNCHANGED <<mode, count, result>>

\* Mutant: what fseek returns is not looked at.
OpenedAnyhow(m) == /\ exists \/ m = "APPE" \/ Truncates(m)
                   /\ exists' = TRUE
                   /\ disk' = IF Truncates(m) THEN <<>> ELSE disk

Opened(m) == /\ exists \/ m = "APPE" \/ Truncates(m)
             /\ Start(m) \in Nat
             /\ exists' = TRUE
             /\ disk' = IF Truncates(m) THEN <<>> ELSE disk

\* The data connection is awaited; restart stays.
Begin(m, start) ==
  /\ ready
  /\ count < MaxTransfers
  /\ count' = count + 1
  /\ state' = "DATA_CONNECT"
  /\ mode' = m
  /\ ready' \in BOOLEAN
  /\ pos' = start /\ at' = start /\ base' = disk'
  /\ result' = "none"
  /\ UNCHANGED <<restart, asked, pending, flushed, peer>>

\* Mutant: m_xferBuffer keeps what an earlier transfer left.
xferFileKeepsBuffer(m) ==
  /\ state = "COMMAND"
  /\ UNCHANGED buffer
  /\ \/ NotOpened
     \/ Abandon /\ UNCHANGED target
     \/ Opened(m) /\ Abandon
     \/ Opened(m) /\ Begin(m, Start(m)) /\ devZero' = FALSE
     \/ UNCHANGED target /\ Begin(m, 0) /\ devZero' = TRUE

\* The last case is "/devZero", which names no file.
xferFile(m) ==
  /\ state = "COMMAND"
  /\ buffer' = clear(buffer)
  /\ \/ NotOpened
     \/ Abandon /\ UNCHANGED target
     \/ Opened(m) /\ Abandon
     \/ Opened(m) /\ Begin(m, Start(m)) /\ devZero' = FALSE
     \/ UNCHANGED target /\ Begin(m, 0) /\ devZero' = TRUE

-----------------------------------------------------------------------------
\* The data connection and its other end.

\* dataAccept, or POLLOUT after dataConnect.
Connected == /\ state = "DATA_CONNECT"
             /\ state' = "DATA_TRANSFER"
             /\ ready' = FALSE
             /\ UNCHANGED <<mode, restart, devZero, buffer, pos, pending, target, peer,
                            asked, history, flushed, result>>

\* What ends a transfer from outside: ABOR, a refused command, a failing connection.
Broken == /\ state # "COMMAND"
          /\ CloseFile(pending, "failed")
          /\ ready' \in {ready, FALSE}
          /\ UNCHANGED buffer

\* The session is destroyed, found idle or with the server, and another one begins.  (Bound:
\* it transfers nothing; it would start like the first one, whatever is in the file.)  The
\* buffer m_file gave to the C library is destroyed before m_fp: what fclose writes out of
\* it is whatever is there by then.
Destroy ==
  /\ ToCommand
  /\ mode' = "none" /\ ready' = FALSE /\ buffer' = NewBuffer
  /\ \E n \in 0..Len(pending) : \E junk \in [1..n -> Byte] : disk' = Patch(disk, pos, junk)
  /\ result' = "destroyed"
  /\ count' = MaxTransfers
  /\ UNCHANGED exists

Store(m) == m \in {"STOR", "APPE"}

PeerSends(b) == /\ state = "DATA_TRANSFER" /\ Store(mode) /\ ~ended
                /\ Len(upload) < MaxUpload
                /\ upload' = Append(upload, b)
                /\ coming' = Append(coming, b)
                /\ UNCHANGED <<state, mode, ready, restart, devZero, buffer, pos, pending,
                               target, ended, sent, asked, history, flushed, result>>

PeerEnds == /\ state = "DATA_TRANSFER" /\ Store(mode) /\ ~ended
            /\ ended' = TRUE
            /\ UNCHANGED <<state, mode, ready, restart, devZero, buffer, pos, pending,
                           target, upload, coming, sent, asked, history, flushed, result>>

-----------------------------------------------------------------------------
\* The transfer functions.  A call that returns true is followed by another one.

\* The second half of retrieveTransfer: b to the socket, some of it, or an error.  m_file
\* was read up to p.
Write(b, p) ==
  \/ /\ \E n \in 0..usedSize(b) :
           /\ buffer' = markFree(b, n)
           /\ sent' = IF devZero THEN sent ELSE sent \o SubSeq(Used(b), 1, n)
     /\ pos' = p
     /\ UNCHANGED <<state, mode, restart, asked, devZero, pending, exists, upload, coming,
                    ended, history, flushed, result>>
  \/ Finish("failed") /\ buffer' = b

retrieveTransfer ==
  /\ state = "DATA_TRANSFER" /\ mode = "RETR"
  /\ \/ Used(buffer) # <<>> /\ Write(buffer, pos)
     \/ /\ Used(buffer) = <<>> /\ devZero
        /\ Write(Put(clear(buffer), [i \in 1..Size |-> NUL]), pos)
     \/ /\ Used(buffer) = <<>> /\ ~devZero
        /\ \E n \in 1..Size : /\ pos + n <= Len(disk)
                              /\ Write(Put(clear(buffer), SubSeq(disk, pos + 1, pos + n)),
                                       pos + n)
     \/ /\ Used(buffer) = <<>> /\ ~devZero
        /\ buffer' = clear(buffer)
        /\ Finish("failed") \/ (pos >= Len(disk) /\ Finish("226"))
  /\ UNCHANGED <<ready, disk>>

\* Mutant: a short write counts as a full one.
SaveAll(b, left) ==
  \/ /\ ~devZero
     /\ \E n \in 1..usedSize(b) :
          LET taken == pending \o SubSeq(Used(b), 1, n)
          IN  /\ buffer' = clear(b)
              /\ \E k \in 0..Len(taken) : /\ Flush(taken, k)
                                          /\ pos' = pos + k
                                          /\ flushed' = flushed \o SubSeq(taken, 1, k)
                                          /\ pending' = SubSeq(taken, k + 1, Len(taken))
     /\ coming' = left
     /\ UNCHANGED <<state, mode, restart, asked, devZero, exists, upload, ended, sent,
                    history, result>>
  \/ ~devZero /\ CloseFile(pending, "failed") /\ buffer' = b
  \/ /\ devZero
     /\ buffer' = clear(b)
     /\ coming' = left
     /\ UNCHANGED <<state, mode, restart, asked, devZero, pos, pending, target, upload,
                    ended, sent, history, flushed, result>>

\* The second half of storeTransfer: fwrite takes b or some of it and may write out what
\* it holds, or it takes nothing.  What is left in the socket is left.
Save(b, left) ==
  \/ /\ ~devZero
     /\ \E n \in 1..usedSize(b) :
          LET taken == pending \o SubSeq(Used(b), 1, n)
          IN  /\ buffer' = markFree(b, n)
              /\ \E k \in 0..Len(taken) : /\ Flush(taken, k)
                                          /\ pos' = pos + k
                                          /\ flushed' = flushed \o SubSeq(taken, 1, k)
                                          /\ pending' = SubSeq(taken, k + 1, Len(taken))
     /\ coming' = left
     /\ UNCHANGED <<state, mode, restart, asked, devZero, exists, upload, ended, sent,
                    history, result>>
  \/ ~devZero /\ CloseFile(pending, "failed") /\ buffer' = b
  \/ /\ devZero
     /\ buffer' = clear(b)
     /\ coming' = left
     /\ UNCHANGED <<state, mode, restart, asked, devZero, pos, pending, target, upload,
                    ended, sent, history, flushed, result>>

\* Mutant: the end of the stream counts before what was read is written.
storeTransferEndsEarly ==
  /\ state = "DATA_TRANSFER" /\ Store(mode)
  /\ \/ Used(buffer) # <<>> /\ Save(buffer, coming)
     \/ /\ Used(buffer) = <<>>
        /\ \E n \in 1..Size : /\ n <= Len(coming)
                              /\ Save(Put(clear(buffer), SubSeq(coming, 1, n)),
                                      SubSeq(coming, n + 1, Len(coming)))
     \/ /\ buffer' = clear(buffer)
        /\ ended /\ coming = <<>> /\ CloseFile(pending, "226")
  /\ UNCHANGED ready

\* A read of the socket that fails or would block, or tells the end of the upload.
storeTransfer ==
  /\ state = "DATA_TRANSFER" /\ Store(mode)
  /\ \/ Used(buffer) # <<>> /\ Save(buffer, coming)
     \/ /\ Used(buffer) = <<>>
        /\ \E n \in 1..Size : /\ n <= Len(coming)
                              /\ Save(Put(clear(buffer), SubSeq(coming, 1, n)),
                                      SubSeq(coming, n + 1, Len(coming)))
     \/ /\ Used(buffer) = <<>>
        /\ buffer' = clear(buffer)
        /\ \/ UNCHANGED <<state, mode, restart, asked, devZero, pos, pending, target, peer,
                          history, flushed, result>>
           \/ CloseFile(pending, "failed")
           \/ ended /\ coming = <<>> /\ CloseFile(pending, "226")
  /\ UNCHANGED ready

Next == \/ \E args \in Offsets : REST(args)
        \/ Prepare
        \/ \E m \in {"RETR", "STOR", "APPE"} : xferFile(m)
        \/ Connected \/ Broken \/ Destroy
        \/ \E b \in Upload : PeerSends(b)
        \/ PeerEnds
        \/ retrieveTransfer \/ storeTransfer

Spec == Init /\ [][Next]_vars

-----------------------------------------------------------------------------

Busy == state # "COMMAND" /\ ~devZero

\* A client that retrieves a file is sent its bytes in order, none twice and none left out,
\* from where the transfer began: what left the buffer and what is in it are what was read.
SentInOrder ==
  Busy /\ mode = "RETR" =>
    /\ disk = base
    /\ pos = at + Len(sent) + usedSize(buffer)
    /\ pos <= Len(disk) \/ pos = at
    /\ sent \o Used(buffer) = SubSeq(disk, at + 1, pos)

\* Of a store the bytes on the disk, those the C library holds, those in the buffer and
\* those not read yet are the upload, in this order; and what is on the disk has replaced
\* the bytes of the file from where the transfer began, and nothing before or behind.
StoredInOrder ==
  Busy /\ Store(mode) =>
    /\ upload = ((flushed \o pending) \o Used(buffer)) \o coming
    /\ pos = at + Len(flushed)
    /\ disk = Patch(base, at, flushed)

\* A transfer begins at the lower bits of the offset the client asked for: there, if a long
\* can hold the number, and somewhere else if it is narrowed to one that is no error.  No
\* offset outlives the command it was meant for, except when that is answered with 450.
BeginsWhereAsked ==
  /\ restart = asked
  /\ Busy /\ mode # "APPE" => /\ at = asked % (2 * (LongMax + 1))
                              /\ at = asked <=> asked <= LongMax

Acknowledged ==
  result' \in {"226", "lost"} /\ result = "none" =>
    /\ mode = "RETR" => sent = SubSeq(disk, at + 1, Len(disk))
    /\ Store(mode) => ended /\ coming = <<>>
    /\ Store(mode) /\ ~devZero /\ result' = "226" => disk' = Patch(base, at, upload)

\* The client is told that the transfer is complete only when the peer has been sent the
\* whole rest of the file, or has ended its upload and every byte of it is in the file, or
\* the close failed (which nobody is told).
CompleteWhenAcknowledged == [][Acknowledged]_vars

Written ==
  disk' # disk =>
    \/ state = "COMMAND" /\ restart = 0 /\ disk' = <<>>
    \/ /\ Busy /\ Store(mode)
       /\ \E n \in 0..Len(upload) : disk' = Patch(base, at, SubSeq(upload, 1, n))
    \/ /\ Busy /\ Store(mode) /\ result' = "destroyed"
       /\ \E n \in 1..Len(pending) :
            disk' = Patch(base, at, flushed \o SubSeq(disk', pos + 1, pos + n))

\* Whatever goes wrong, the file is only ever emptied by a STOR without offset, and else
\* holds its old bytes with a first part of the upload in place; only a session that is
\* destroyed may spoil bytes that were not on the disk yet, and no others.
OnlyUploadedBytes == [][Written]_vars

\* The comment of m_restartPosition: "Position from REST command".
BeginsAtPositionFromREST == Busy /\ mode # "APPE" => at = asked

=============================================================================
