--------------------------- MODULE SessionObject ---------------------------
(***************************************************************************)
(* The FtpSession object (include/ftpSession.h) and its private methods,    *)
(* as a record and operators over it.  A method that changes only members   *)
(* is an operator returning the new record; a method whose outcome depends  *)
(* on a socket, the file system or the allocator is an operator returning   *)
(* the SET of records it may leave.                                         *)
(*                                                                          *)
(* A socket is named by the heap address of its Socket object, because that *)
(* is what FtpSession::poll compares.  An address is free again as soon as  *)
(* its object is destroyed.  When every address is in use no socket can be  *)
(* created, as when ::socket runs out of descriptors.                       *)
(*                                                                          *)
(* Members that only carry data (paths, offsets, the listing text, the      *)
(* command bytes) are reduced to what the control flow tells apart.         *)
(***************************************************************************)
EXTENDS Integers, Sequences

CONSTANTS Addr,     \* heap addresses a Socket object may have
          None      \* the null pointer

ASSUME NoneAssumption == None \notin Addr

Slot == Addr \cup {None}

States == {"COMMAND", "DATA_CONNECT", "DATA_TRANSFER"}

\* m_transfer: the member function run for each data event.
Transfers == {"none", "listTransfer", "globTransfer", "retrieveTransfer", "storeTransfer"}

\* m_xferDirMode; indeterminate ("none") until the first xferDir.
DirModes == {"none", "LIST", "MLSD", "MLST", "NLST", "STAT"}

\* m_xferBuffer: nothing in it, bytes of the present transfer, or bytes an
\* earlier transfer left behind.
XferContents == {"empty", "own", "old"}

\* How the process can die inside FtpSession: a null socket is used, an
\* empty buffer is handed to Socket::write, std::abort is called, or an
\* assert on the flags fails.
Faults == {"none", "nullPasv", "nullData", "nullCommand", "emptyWrite", "abort", "assert"}

Count == Int

Session ==
  [ commandSocket      : Slot,          \* m_commandSocket
    pasvSocket         : Slot,          \* m_pasvSocket
    dataSocket         : Slot,          \* m_dataSocket, may share m_commandSocket
    pendingCloseSocket : SUBSET Addr,   \* m_pendingCloseSocket
    state              : States,        \* m_state
    pasv               : BOOLEAN,       \* m_pasv
    port               : BOOLEAN,       \* m_port
    recv               : BOOLEAN,       \* m_recv
    send               : BOOLEAN,       \* m_send
    transfer           : Transfers,     \* m_transfer
    xferDirMode        : DirModes,      \* m_xferDirMode
    file               : BOOLEAN,       \* m_file is open
    dir                : BOOLEAN,       \* m_dir is open
    devZero            : BOOLEAN,       \* m_devZero
    restart            : BOOLEAN,       \* m_restartPosition # 0
    rename             : BOOLEAN,       \* m_rename is not empty
    xfer               : XferContents,  \* m_xferBuffer
    response           : BOOLEAN,       \* m_responseBuffer.usedSize () # 0
    urgent             : BOOLEAN,       \* m_urgent
    authorizedUser     : BOOLEAN,       \* m_authorizedUser
    authorizedPass     : BOOLEAN,       \* m_authorizedPass
    stale              : BOOLEAN,       \* IDLE_TIMEOUT has passed since m_timestamp
    owed               : Count,         \* history: final replies the client still waits for
    fault              : Faults ]       \* the process died here

-----------------------------------------------------------------------------
(* Sockets                                                                 *)

InUse(x) == {x.commandSocket, x.pasvSocket, x.dataSocket} \cup x.pendingCloseSocket

\* The addresses a new Socket object may get.
Free(x) == Addr \ InUse(x)

\* Mutant: closeSocket without its test for the null pointer.
CloseCommandUnchecked(x) ==
  [x EXCEPT !.commandSocket = None,
            !.pendingCloseSocket = @ \cup ({x.commandSocket} \ {x.dataSocket}),
            !.owed = 0]

\* A socket nobody else holds is shut down and waits for its peer; a shared
\* one only loses this reference.  With no command socket nobody waits for a
\* reply any more.
CloseCommand(x) ==
  [x EXCEPT !.commandSocket = None,
            !.pendingCloseSocket = @ \cup ({x.commandSocket} \ {None, x.dataSocket}),
            !.owed = 0]

\* The listening socket has one owner: it is destroyed at once.
ClosePasv(x) == [x EXCEPT !.pasvSocket = None]

\* Mutant: closeSocket without its test that the socket is not shared.
CloseDataShared(x) ==
  [x EXCEPT !.dataSocket = None,
            !.pendingCloseSocket = @ \cup ({x.dataSocket} \ {None}),
            !.recv = FALSE, !.send = FALSE]

\* Mutant: the direction of the old transfer is kept.
CloseDataKeepsDirection(x) ==
  [x EXCEPT !.dataSocket = None,
            !.pendingCloseSocket = @ \cup ({x.dataSocket} \ {None, x.commandSocket})]

\* Mutant: the data socket is destroyed instead of shut down.
CloseDataDestroys(x) == [x EXCEPT !.dataSocket = None, !.recv = FALSE, !.send = FALSE]

CloseData(x) ==
  [x EXCEPT !.dataSocket = None,
            !.pendingCloseSocket = @ \cup ({x.dataSocket} \ {None, x.commandSocket}),
            !.recv = FALSE,
            !.send = FALSE]

\* Mutant: setState leaves m_dir open.
EnterKeepsDir(x, st) ==
  IF st = "COMMAND"
  THEN [x EXCEPT !.state = st, !.stale = FALSE, !.restart = FALSE,
                 !.devZero = FALSE, !.file = FALSE,
                 !.xfer = IF @ = "own" THEN "old" ELSE @]
  ELSE [x EXCEPT !.state = st, !.stale = FALSE]

\* All that setState does besides the closing it is asked for.  Back in
\* COMMAND, what is still in m_xferBuffer belongs to an earlier transfer.
Enter(x, st) ==
  IF st = "COMMAND"
  THEN [x EXCEPT !.state = st, !.stale = FALSE, !.restart = FALSE,
                 !.devZero = FALSE, !.file = FALSE, !.dir = FALSE,
                 !.xfer = IF @ = "own" THEN "old" ELSE @]
  ELSE [x EXCEPT !.state = st, !.stale = FALSE]

SetState(x, st, closePasv, closeData) ==
  LET p == IF closePasv THEN ClosePasv(x) ELSE x
      d == IF closeData THEN CloseData(p) ELSE p
  IN  Enter(d, st)

Dead(x) == {x.commandSocket, x.pasvSocket, x.dataSocket} = {None}

Authorized(x) == x.authorizedUser /\ x.authorizedPass

-----------------------------------------------------------------------------
(* Replies.  `final' is 1 for the reply that ends a command and 0 for a     *)
(* preliminary one (150, 250-Status).                                       *)

\* Written at once, written in part, blocked, or failed (no room, or a write error).
SendResponse(x, final) ==
  IF x.commandSocket = None THEN {x}
  ELSE LET y == [x EXCEPT !.owed = @ - final]
       IN  { [y EXCEPT !.response = FALSE, !.stale = FALSE],
             [y EXCEPT !.response = TRUE,  !.stale = FALSE],
             [y EXCEPT !.response = TRUE],
             CloseCommand(y) }

\* The overload for a prepared string only appends it to the buffer.
BufferResponse(x) ==
  IF x.commandSocket = None THEN {x}
  ELSE { [x EXCEPT !.response = TRUE, !.owed = @ - 1], CloseCommand(x) }

\* Reply and drop whatever transfer there was.
Fail(x) == {SetState(y, "COMMAND", TRUE, TRUE) : y \in SendResponse(x, 1)}

\* Return to COMMAND without closing anything, then reply.
Settle(x) == SendResponse(SetState(x, "COMMAND", FALSE, FALSE), 1)

\* 150 Ready: the data connection is there.
Ready(x) == {SetState(y, "DATA_TRANSFER", TRUE, FALSE) : y \in SendResponse(x, 0)}

-----------------------------------------------------------------------------
(* Data connections                                                        *)

\* PASV: take the connection the listening socket reported.
DataAccept(x) ==
  IF ~x.pasv THEN Fail(x)
  ELSE LET y == [x EXCEPT !.pasv = FALSE]
       IN  IF x.pasvSocket = None THEN {[y EXCEPT !.fault = "nullPasv"]}
           ELSE Fail([y EXCEPT !.dataSocket = None])
                \cup UNION { Fail([y EXCEPT !.dataSocket = a])
                             \cup Ready([y EXCEPT !.dataSocket = a]) : a \in Free(y) }

\* PORT: dataConnect returned false, with or without a socket.
ConnectFailed(x) == {[x EXCEPT !.port = FALSE, !.dataSocket = a] : a \in Free(x) \cup {None}}

\* PORT: dataConnect returned true, connecting or already connected.
ConnectStarted(x) ==
  UNION { LET y == [x EXCEPT !.port = FALSE, !.dataSocket = a]
          IN  {y} \cup Ready(y) : a \in Free(x) }

\* `if (m_port && !dataConnect ()) 425': what is left when the transfer goes on.
Connecting(x) == IF x.port THEN ConnectStarted(x) ELSE {x}

\* The same test when it fails.
NotConnected(x) == IF x.port THEN UNION {Fail(y) : y \in ConnectFailed(x)} ELSE {}

-----------------------------------------------------------------------------
(* Starting a transfer                                                     *)

\* xferFile after its source or target is in place.
BeginFile(x, retr) ==
  IF ~x.port /\ ~x.pasv THEN Fail(x)
  ELSE LET y == SetState(x, "DATA_CONNECT", FALSE, TRUE)
       IN  NotConnected(y)
           \cup { [z EXCEPT !.recv = ~retr, !.send = retr,
                            !.transfer = IF retr THEN "retrieveTransfer" ELSE "storeTransfer"]
                  : z \in Connecting(y) }

\* Mutant: no return after the 450 of a file that cannot be opened.
XferFileGoesOn(x, mode) ==
  LET y == [x EXCEPT !.xfer = "empty"]
  IN  Fail(y) \cup UNION {BeginFile(z, mode = "RETR") : z \in SendResponse(y, 1)}

\* Mutant: m_xferBuffer is not cleared.
XferFileKeepsBuffer(x, mode) ==
  Fail(x) \cup BeginFile([x EXCEPT !.file = TRUE], mode = "RETR")

\* A path that does not resolve ends in 553; /devZero needs no file; a file
\* that cannot be opened is answered 450 and leaves m_file as it was, and one
\* that cannot be sought to the restart offset is answered 450 with the file open.
XferFile(x, mode) ==
  LET y    == [x EXCEPT !.xfer = "empty"]
      open == [y EXCEPT !.file = TRUE]
  IN  Fail(y)
      \cup BeginFile([y EXCEPT !.devZero = TRUE], mode = "RETR")
      \cup SendResponse(y, 1)
      \cup (IF y.restart /\ mode # "APPE" THEN SendResponse(open, 1) ELSE {})
      \cup BeginFile(open, mode = "RETR")

\* What xferDir may have prepared: one finished entry in the buffer, a
\* directory still to be read, or for MLSD both (the cdir entry).
Listings(x, mode) ==
  LET entry == [x EXCEPT !.xfer = "own"]
      open  == [x EXCEPT !.dir = TRUE]
      cdir  == [open EXCEPT !.xfer = "own"]
  IN  CASE mode = "MLST" -> {entry}
        [] mode = "MLSD" -> {open, cdir}
        [] OTHER         -> {entry, open}

\* xferDir once the listing is prepared.  MLST and STAT answer on the command
\* connection: m_dataSocket becomes a second owner of it.
BeginList(x, mode) ==
  IF mode \in {"MLST", "STAT"}
  THEN { [SetState(y, "DATA_TRANSFER", TRUE, TRUE)
            EXCEPT !.dataSocket = y.commandSocket, !.send = TRUE] : y \in SendResponse(x, 0) }
  ELSE IF ~x.port /\ ~x.pasv THEN Fail(x)
  ELSE LET y == [SetState(x, "DATA_CONNECT", FALSE, TRUE) EXCEPT !.send = TRUE]
       IN  NotConnected(y) \cup Connecting(y)

XferDir(x, mode) ==
  LET y == [x EXCEPT !.xferDirMode = mode, !.recv = FALSE, !.send = TRUE,
                     !.xfer = "empty", !.transfer = "listTransfer"]
  IN  Fail(y) \cup UNION {BeginList(z, mode) : z \in Listings(y, mode)}

\* NLST with a wildcard: the matches are kept in m_glob and m_xferBuffer is
\* left as it is.
XferGlob(x) ==
  LET left == [x EXCEPT !.transfer = "globTransfer"]
  IN  {SetState(y, "COMMAND", FALSE, FALSE) : y \in SendResponse(x, 1)}
      \cup IF ~x.port /\ ~x.pasv THEN Fail(left)
           ELSE LET y == [SetState(left, "DATA_CONNECT", FALSE, TRUE) EXCEPT !.send = TRUE]
                IN  NotConnected(y) \cup Connecting(y)

-----------------------------------------------------------------------------
(* One call of m_transfer.  Going is the case that it returns true, Ending  *)
(* the case that it returns false.                                          *)

\* m_dataSocket->write of the buffer took some or all of it.
Written(x) == {[x EXCEPT !.xfer = c, !.stale = FALSE] : c \in {"empty", x.xfer}}

\* The socket would block, or the transfer is over: an error or, for a read, its end.
Stopped(x) == {x} \cup Fail(x)

\* The buffer to send: what is left in it, or the next piece of the source.
Filled(x) == IF x.xfer = "empty" THEN [x EXCEPT !.xfer = "own"] ELSE x

\* A listing goes on while its buffer holds something or its directory is open.
ListGoing(x) == IF x.xfer = "empty" /\ ~x.dir THEN {} ELSE Written(Filled(x))
ListEnding(x) ==
  IF x.xfer = "empty"
  THEN Fail(x) \cup (IF x.dir THEN Stopped(Filled(x)) ELSE {})
  ELSE Stopped(x)

\* Matches, file blocks and zeros are sent alike; only /devZero has no end.
GlobGoing(x) == Written(Filled(x))
GlobEnding(x) == Stopped(Filled(x)) \cup (IF x.xfer = "empty" THEN Fail(x) ELSE {})

RetrieveGoing(x) == Written(Filled(x))
RetrieveEnding(x) ==
  Stopped(Filled(x)) \cup (IF x.xfer = "empty" /\ ~x.devZero THEN Fail(x) ELSE {})

\* Received bytes go to the file in one or more calls; a zero length read is
\* the end of the file.
StoreGoing(x) ==
  LET y == IF x.xfer = "empty" THEN [x EXCEPT !.xfer = "own", !.stale = FALSE] ELSE x
  IN  {[y EXCEPT !.xfer = "empty"]} \cup (IF x.devZero THEN {} ELSE {y})
StoreEnding(x) ==
  IF x.xfer = "empty"
  THEN Stopped(x) \cup (IF x.devZero THEN {} ELSE Fail([x EXCEPT !.xfer = "own", !.stale = FALSE]))
  ELSE IF x.devZero THEN {} ELSE Fail(x)

=============================================================================
