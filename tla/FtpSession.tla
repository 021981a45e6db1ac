----------------------------- MODULE FtpSession -----------------------------
(***************************************************************************)
(* One client session as the server thread drives it: the poll over its     *)
(* sockets, the dispatch of the events in the order they were reported, the *)
(* loop over the commands of one read, the transfer loop and the idle test. *)
(*                                                                          *)
(* The events are a snapshot.  Between taking it and looking at an entry    *)
(* the session may have closed, shared or replaced the socket the entry     *)
(* names; the code then compares addresses.                                 *)
(*                                                                          *)
(* Sessions are all driven by the one thread and touch nothing of each      *)
(* other but the configuration, so one session is modelled; others that are *)
(* polled with it get it past the early return of an empty pollInfo, and    *)
(* their events keep it from being found idle.                              *)
(***************************************************************************)
EXTENDS SessionCommands

CONSTANTS Commands,    \* the commands the client sends, a subset of AllCommands
          MaxBatch     \* bound: complete commands found in one read

ASSUME CommandsAssumption == Commands \subseteq AllCommands
ASSUME MaxBatchAssumption == MaxBatch \in Nat \ {0}

VARIABLES session,     \* the FtpSession object
          pc,          \* where FtpSession::poll is
          reported,    \* the entries of pollInfo still to be looked at that have revents
          handled,     \* `handled': some entry had revents
          batch        \* complete commands left in m_commandBuffer

vars == <<session, pc, reported, handled, batch>>

Events == {"IN", "PRI", "OUT", "ERR"}     \* ERR stands for POLLERR and POLLHUP

\* "poll": between two calls.  "entry": at the next reported entry.  "read",
\* "commands" and "hangup" follow the command socket, "data" and "transfer"
\* the data socket.  "reaped": the object was destroyed.
Places == {"poll", "entry", "read", "commands", "hangup", "data", "transfer", "reaped"}

Entry == [sock : Addr, revents : SUBSET Events]

TypeOK == /\ session \in Session
          /\ pc \in Places
          /\ reported \in Seq(Entry)
          /\ handled \in BOOLEAN
          /\ batch \in 0..MaxBatch

\* The constructor on an accepted socket, after its greeting.  m_timestamp is
\* not initialised: unless the greeting could be written it is indeterminate.
NewSession(a) ==
  [ commandSocket |-> a, pasvSocket |-> None, dataSocket |-> None,
    pendingCloseSocket |-> {}, state |-> "COMMAND", pasv |-> FALSE, port |-> FALSE,
    recv |-> FALSE, send |-> FALSE, transfer |-> "none", xferDirMode |-> "none",
    file |-> FALSE, dir |-> FALSE, devZero |-> FALSE, restart |-> FALSE, rename |-> FALSE,
    xfer |-> "empty", response |-> FALSE, urgent |-> FALSE, authorizedUser |-> FALSE,
    authorizedPass |-> FALSE, stale |-> FALSE, owed |-> 0, fault |-> "none" ]

Init ==
  /\ \E a \in Addr, noUser, noPass, indeterminate \in BOOLEAN :
       session \in SendResponse([NewSession(a) EXCEPT !.authorizedUser = noUser,
                                                      !.authorizedPass = noPass,
                                                      !.stale = indeterminate], 0)
  /\ pc = "poll"
  /\ reported = <<>>
  /\ handled = FALSE
  /\ batch = 0

-----------------------------------------------------------------------------
(* FtpSession::poll: what is polled                                        *)

\* The asserts and dereferences made while pollInfo is built.
PollFault(x) ==
  CASE x.state = "DATA_CONNECT" /\ x.pasv ->
         IF x.port THEN "assert" ELSE IF x.pasvSocket = None THEN "nullPasv" ELSE "none"
    [] x.state = "DATA_CONNECT" /\ ~x.pasv ->
         IF x.dataSocket = None THEN "nullData" ELSE "none"
    [] x.state = "DATA_TRANSFER" ->
         IF x.recv = x.send THEN "assert" ELSE IF x.dataSocket = None THEN "nullData" ELSE "none"
    [] OTHER -> "none"

\* The socket of the second entry and the event asked of it, if there is one.
DataPolled(x) ==
  CASE x.state = "DATA_CONNECT"  -> IF x.pasv THEN {<<x.pasvSocket, "IN">>}
                                              ELSE {<<x.dataSocket, "OUT">>}
    [] x.state = "DATA_TRANSFER" -> {<<x.dataSocket, IF x.recv THEN "IN" ELSE "OUT">>}
    [] OTHER                     -> {}

\* What ::poll may report of one socket: nothing, or some of what was asked and errors.
Reports(sock, events) ==
  {<<>>} \cup {<<[sock |-> sock, revents |-> r]>> : r \in SUBSET (events \cup {"ERR"}) \ {{}}}

CommandReports(x) ==
  IF x.commandSocket = None THEN {<<>>}
  ELSE Reports(x.commandSocket, {"IN", "PRI"} \cup (IF x.response THEN {"OUT"} ELSE {}))

DataReports(x) ==
  IF DataPolled(x) = {} THEN {<<>>}
  ELSE UNION {Reports(p[1], {p[2]}) : p \in DataPolled(x)}

\* Nothing of the session is polled.  Its socket may still be in m_pasvSocket.
Unpolled(x) == x.commandSocket = None /\ DataPolled(x) = {}

-----------------------------------------------------------------------------
(* Between two calls of FtpSession::poll                                   *)

Running == session.fault = "none"

\* FtpServer::loop drops a dead session; its pending sockets go with it.
Reap ==
  /\ pc = "poll" /\ Running /\ Dead(session)
  /\ pc' = "reaped"
  /\ session' = [session EXCEPT !.pendingCloseSocket = {}]
  /\ UNCHANGED <<reported, handled, batch>>

\* The server loses its network, a poll fails or the server stops: the
\* destructor closes everything.
Destroy ==
  /\ pc = "poll" /\ Running /\ ~Dead(session)
  /\ pc' = "reaped"
  /\ session' = [CloseData(ClosePasv(CloseCommand(session))) EXCEPT !.pendingCloseSocket = {}]
  /\ UNCHANGED <<reported, handled, batch>>

\* Pending sockets whose peer answered are closed first; then pollInfo is
\* built.  With nothing to poll, of this session or of others, the call returns
\* before the idle test.
Poll ==
  /\ pc = "poll" /\ Running /\ ~Dead(session)
  /\ \E closed \in SUBSET session.pendingCloseSocket :
       LET x == [session EXCEPT !.pendingCloseSocket = @ \ closed]
       IN  IF PollFault(x) # "none"
           THEN /\ session' = [x EXCEPT !.fault = PollFault(x)]
                /\ UNCHANGED <<pc, reported, handled>>
           ELSE \E late \in {x.stale, TRUE}, others \in {"none", "silent", "active"} :
                /\ session' = [x EXCEPT !.stale = late]
                /\ IF Unpolled(x) /\ others = "none"
                   THEN /\ handled' = FALSE
                        /\ UNCHANGED <<pc, reported>>
                   ELSE \E c \in CommandReports(x), d \in DataReports(x) :
                        /\ reported' = c \o d
                        /\ handled' = (others = "active" \/ c \o d # <<>>)
                        /\ pc' = "entry"
  /\ UNCHANGED batch

-----------------------------------------------------------------------------
(* The command socket                                                      *)

revents == Head(reported).revents

\* The rest of the work for an entry of the command socket.
AfterWrite == IF {"IN", "PRI"} \cap revents # {} THEN "read"
              ELSE IF "ERR" \in revents THEN "hangup" ELSE "data"
AfterRead  == IF "ERR" \in revents THEN "hangup" ELSE "data"

AtCommandSocket == pc = "entry" /\ Running /\ reported # <<>>
                   /\ Head(reported).sock = session.commandSocket

\* writeResponse, skipped while there is a data socket.
WriteResponse ==
  /\ AtCommandSocket
  /\ IF session.dataSocket = None /\ "OUT" \in revents
     THEN IF session.response
          THEN session' \in { [session EXCEPT !.response = FALSE, !.stale = FALSE],
                              [session EXCEPT !.stale = FALSE],
                              CloseCommand(session) }
          ELSE session' = [session EXCEPT !.fault = "emptyWrite"]
     ELSE UNCHANGED session
  /\ pc' = AfterWrite
  /\ UNCHANGED <<reported, handled, batch>>

\* readCommand with urgent data: everything buffered is discarded.
ReadUrgent ==
  /\ pc = "read" /\ Running /\ "PRI" \in revents
  /\ IF session.commandSocket = None
     THEN session' = [session EXCEPT !.fault = "nullCommand", !.urgent = TRUE]
     ELSE LET x == [session EXCEPT !.urgent = TRUE]
          IN  session' \in {CloseCommand(x), [x EXCEPT !.stale = FALSE]}
  /\ pc' = AfterRead
  /\ UNCHANGED <<reported, handled, batch>>

\* readCommand with in-band data: the read fails, the peer has closed or the
\* buffer is full; the data mark is still missing; or there are commands.
ReadCommand ==
  /\ pc = "read" /\ Running /\ "PRI" \notin revents
  /\ \/ /\ session.commandSocket = None
        /\ session' = [session EXCEPT !.fault = "nullCommand"]
        /\ pc' = AfterRead
        /\ UNCHANGED batch
     \/ /\ session.commandSocket # None
        /\ session' = CloseCommand(session)
        /\ pc' = AfterRead
        /\ UNCHANGED batch
     \/ /\ session.commandSocket # None
        /\ session.urgent
        /\ session' = [session EXCEPT !.stale = FALSE]
        /\ pc' = AfterRead
        /\ UNCHANGED batch
     \/ /\ session.commandSocket # None
        /\ session' = [session EXCEPT !.stale = FALSE, !.urgent = FALSE]
        /\ batch' \in 0..MaxBatch
        /\ pc' = IF batch' = 0 THEN AfterRead ELSE "commands"
  /\ UNCHANGED <<reported, handled>>

\* A command was taken out of the buffer: its reply is owed.
Taken == [session EXCEPT !.stale = FALSE,
                         !.owed = IF session.commandSocket = None THEN 0 ELSE @ + 1]

\* Mutant: the command is not removed from m_commandBuffer.
NextCommandAgain == pc' = "commands" /\ UNCHANGED <<reported, handled, batch>>

NextCommand == /\ batch' = batch - 1
               /\ pc' = IF batch = 1 THEN AfterRead ELSE "commands"
               /\ UNCHANGED <<reported, handled>>

UnknownCommand ==
  /\ pc = "commands" /\ Running /\ "OTHER" \in Commands
  /\ session' \in BufferResponse(Taken)
  /\ NextCommand

\* A command that is not allowed during a transfer ends the session.
RefuseCommand(c) ==
  /\ pc = "commands" /\ Running
  /\ session.state # "COMMAND"
  /\ c \notin DuringTransfer \cup {"OTHER"}
  /\ session' \in {CloseCommand(x) : x \in Fail(Taken)}
  /\ NextCommand

\* Mutant: m_rename is not cleared before the handler runs.
ExecuteCommandKeepsName(c) ==
  /\ pc = "commands" /\ Running
  /\ c # "OTHER"
  /\ session.state = "COMMAND" \/ c \in DuringTransfer
  /\ session' \in Handler(c, Taken)
  /\ NextCommand

\* Every command but RNTO forgets the name RNFR gave.
ExecuteCommand(c) ==
  /\ pc = "commands" /\ Running
  /\ c # "OTHER"
  /\ \/ /\ session.state = "COMMAND"
        /\ session' \in Handler(c, IF c = "RNTO" THEN Taken ELSE [Taken EXCEPT !.rename = FALSE])
     \/ /\ session.state # "COMMAND"
        /\ c \in DuringTransfer
        /\ session' \in Handler(c, Taken)
  /\ NextCommand

HangUp ==
  /\ pc = "hangup" /\ Running
  /\ session' = CloseCommand(session)
  /\ pc' = "data"
  /\ UNCHANGED <<reported, handled, batch>>

-----------------------------------------------------------------------------
(* The data socket                                                         *)

\* The second test is made of every entry, also of the command socket's.
AtData == /\ Running
          /\ reported # <<>>
          /\ \/ pc = "data"
             \/ pc = "entry" /\ Head(reported).sock # session.commandSocket

IsData == Head(reported).sock \in {session.pasvSocket, session.dataSocket}

NextEntry == /\ reported' = Tail(reported)
             /\ pc' = "entry"
             /\ UNCHANGED <<handled, batch>>

NotData == AtData /\ ~IsData /\ NextEntry /\ UNCHANGED session

DataInCommand ==
  /\ AtData /\ IsData /\ session.state = "COMMAND"
  /\ session' = [session EXCEPT !.fault = "abort"]
  /\ NextEntry

\* What is done for an event of the awaited data connection.
Connected(x, r) ==
  IF "ERR" \in r THEN Fail(x)
  ELSE IF "IN" \in r THEN DataAccept(x)
  ELSE IF "OUT" \notin r THEN {x}
  ELSE IF x.dataSocket = None THEN {[x EXCEPT !.fault = "nullData"]}
  ELSE Ready(x)

DataConnectEvent ==
  /\ AtData /\ IsData /\ session.state = "DATA_CONNECT"
  /\ session' \in Connected(session, revents)
  /\ NextEntry

DataTransferEvent ==
  /\ AtData /\ IsData /\ session.state = "DATA_TRANSFER"
  /\ \/ "ERR" \in revents /\ session' \in Fail(session) /\ NextEntry
     \/ /\ "ERR" \notin revents /\ {"IN", "OUT"} \cap revents # {}
        /\ pc' = "transfer"
        /\ UNCHANGED <<session, reported, handled, batch>>
     \/ revents = {"PRI"} /\ UNCHANGED session /\ NextEntry

\* m_transfer returned true: it is called again until five seconds are over.
GoOn == \/ pc' = "transfer" /\ UNCHANGED <<reported, handled, batch>>
        \/ NextEntry

InTransfer(name) == pc = "transfer" /\ Running /\ session.transfer = name

ListTransfer ==
  /\ InTransfer("listTransfer")
  /\ \/ session' \in ListGoing(session) /\ GoOn
     \/ session' \in ListEnding(session) /\ NextEntry

GlobTransfer ==
  /\ InTransfer("globTransfer")
  /\ \/ session' \in GlobGoing(session) /\ GoOn
     \/ session' \in GlobEnding(session) /\ NextEntry

RetrieveTransfer ==
  /\ InTransfer("retrieveTransfer")
  /\ \/ session' \in RetrieveGoing(session) /\ GoOn
     \/ session' \in RetrieveEnding(session) /\ NextEntry

StoreTransfer ==
  /\ InTransfer("storeTransfer")
  /\ \/ session' \in StoreGoing(session) /\ GoOn
     \/ session' \in StoreEnding(session) /\ NextEntry

\* Mutant: an idle session keeps its listening socket.
IdleTestKeepsPasv ==
  /\ pc = "entry" /\ Running /\ reported = <<>>
  /\ session' = IF ~handled /\ session.stale THEN CloseData(CloseCommand(session)) ELSE session
  /\ pc' = "poll"
  /\ UNCHANGED <<reported, handled, batch>>

\* After the last entry: a session that nothing was reported for is closed
\* once its last activity is IDLE_TIMEOUT ago.
IdleTest ==
  /\ pc = "entry" /\ Running /\ reported = <<>>
  /\ session' = IF ~handled /\ session.stale
                THEN CloseData(ClosePasv(CloseCommand(session))) ELSE session
  /\ pc' = "poll"
  /\ UNCHANGED <<reported, handled, batch>>

-----------------------------------------------------------------------------

CommandStep == \/ WriteResponse \/ ReadUrgent \/ ReadCommand \/ UnknownCommand \/ HangUp
               \/ \E c \in Commands : RefuseCommand(c) \/ ExecuteCommand(c)

DataStep == NotData \/ DataInCommand \/ DataConnectEvent \/ DataTransferEvent

TransferStep == ListTransfer \/ GlobTransfer \/ RetrieveTransfer \/ StoreTransfer

\* Nothing more happens to a destroyed session or in a dead process.
Over == (pc = "reaped" \/ ~Running) /\ UNCHANGED vars

\* What the server thread does by itself.
ThreadStep == Poll \/ Reap \/ CommandStep \/ DataStep \/ TransferStep \/ IdleTest

Next == ThreadStep \/ Destroy \/ Over

Spec == Init /\ [][Next]_vars

\* Nothing of the session is polled: whether the call goes on depends on others.
AtUnpolled == pc = "poll" /\ ~Dead(session) /\ Unpolled(session)

\* The thread keeps running; the clock that m_timestamp is compared with and
\* the one that bounds the transfer loop both advance.  No other session needs to exist.
Fairness == /\ WF_vars(ThreadStep /\ ~AtUnpolled)
            /\ SF_vars(Poll /\ ~session.stale /\ session'.stale)
            /\ WF_vars(TransferStep /\ pc' # "transfer")

FairSpec == Spec /\ Fairness

-----------------------------------------------------------------------------
(* Safety                                                                  *)

\* Every socket has one owner, except that MLST and STAT let m_dataSocket
\* share the command socket while the listing is sent; so the assert that a
\* pending socket is unique cannot fail, and closing one slot never closes
\* the socket of another.
SocketOwnership ==
  LET owned == {session.commandSocket, session.pasvSocket, session.dataSocket} \ {None}
  IN  /\ session.pendingCloseSocket \cap owned = {}
      /\ session.pasvSocket # None =>
           session.pasvSocket \notin {session.commandSocket, session.dataSocket}
      /\ session.dataSocket # None /\ session.dataSocket = session.commandSocket =>
           /\ session.state = "DATA_TRANSFER"
           /\ session.transfer = "listTransfer"
           /\ session.xferDirMode \in {"MLST", "STAT"}

\* The asserts made while pollInfo is built (not PASV and PORT at once, one
\* direction per transfer) hold, and a data socket is there to be polled and
\* used, in whatever order commands and events arrive.
PollAssertions == session.fault \notin {"assert", "nullData"}

\* Back in COMMAND every trace of a transfer is gone: the data socket, its
\* direction and the directory, which a later listing of a single file would
\* otherwise go on reading.
CommandIsClean ==
  session.state = "COMMAND" =>
    session.dataSocket = None /\ ~session.recv /\ ~session.send /\ ~session.dir

\* A file transfer is never entered, by any command sequence, without an open
\* file (m_file.read of a null FILE) or /devZero standing in for it.
TransferHasFile ==
  session.state # "COMMAND" /\ session.transfer \in {"retrieveTransfer", "storeTransfer"} =>
    session.file \/ session.devZero

\* No transfer runs, and no name waits for RNTO, for a client that is not
\* logged in: USER and PASS can neither be slipped into a transfer nor between
\* RNFR and RNTO.
LoggedInToAct ==
  session.state # "COMMAND" \/ session.rename => Authorized(session)

\* Whenever the session is not inside a handler the client waits for exactly
\* the reply of the transfer under way: every command is answered once, and
\* an aborted transfer is answered besides ABOR.
OneFinalReply ==
  session.commandSocket # None /\ session.fault = "none" =>
    session.owed = IF session.state = "COMMAND" THEN 0 ELSE 1

\* Files and listings never start with bytes an earlier transfer left behind.
FreshBuffer ==
  session.state # "COMMAND" /\ session.transfer # "globTransfer" => session.xfer # "old"

\* The client sends a command whose listing shares the command socket.
Shares == Commands \cap {"MLST", "STAT"} # {}

\* The strengthening the proofs need (FtpSession_proofs).  Core holds of the
\* record at every point inside a handler, the others whenever it returns.
Core(x) ==
  /\ x.pendingCloseSocket \cap {x.commandSocket, x.pasvSocket, x.dataSocket} = {}
  /\ x.pasvSocket # None => x.pasvSocket \notin {x.commandSocket, x.dataSocket}
  /\ ~(x.pasv /\ x.port)
  /\ x.fault \notin {"assert", "nullData"}
  /\ x.fault = "emptyWrite" => Shares

InCommand(x) ==
  x.state = "COMMAND" => x.dataSocket = None /\ ~x.recv /\ ~x.send /\ ~x.dir

InConnect(x) ==
  x.state = "DATA_CONNECT" =>
    /\ x.recv # x.send
    /\ x.dataSocket = None <=> x.pasv
    /\ x.dataSocket # None => x.dataSocket # x.commandSocket

\* Without its data socket a transfer has lost the command socket it shared.
InTransferring(x) ==
  x.state = "DATA_TRANSFER" =>
    /\ x.recv # x.send
    /\ x.pasvSocket = None
    /\ x.dataSocket = None => x.commandSocket = None
    /\ x.dataSocket # None /\ x.dataSocket = x.commandSocket =>
         x.transfer = "listTransfer" /\ x.xferDirMode \in {"MLST", "STAT"} \cap Commands

Mode(x) == InCommand(x) /\ InConnect(x) /\ InTransferring(x)

\* A socket reported ready for output is not destroyed before the next poll,
\* so no later socket can be taken for it.
OutputEntriesKept ==
  \A i \in 1..Len(reported) :
    "OUT" \in reported[i].revents =>
      reported[i].sock \in {session.commandSocket, session.dataSocket}
                           \cup session.pendingCloseSocket

\* Unless it is shared the command socket is reported once, before the data socket, and ready
\* for output only with something to write.
CommandEntryOnce ==
  \A i \in 1..Len(reported) :
    reported[i].sock = session.commandSocket =>
      \/ Shares
      \/ i = 1 /\ (pc = "entry" /\ "OUT" \in reported[i].revents => session.response)

ControlOK ==
  /\ pc \in {"poll", "reaped"} => reported = <<>>
  /\ pc \in {"read", "commands", "hangup", "data", "transfer"} => reported # <<>>
  /\ pc = "commands" => batch > 0

\* The idle test closes the sockets but leaves m_state: only then may a dead
\* session be in no proper mode, and it is never polled again.
IndInv ==
  /\ TypeOK
  /\ Core(session)
  /\ InCommand(session)
  /\ Mode(session) \/ (Dead(session) /\ pc \in {"poll", "reaped"})
  /\ OutputEntriesKept
  /\ CommandEntryOnce
  /\ ControlOK

\* While "we are waiting for a PASV connection" there is a listening socket.
PasvSocketPresent == session.fault # "nullPasv"

\* The assert of Socket::write: a write is given something to send.
WritesSomething == session.fault # "emptyWrite"

\* A data socket is never just dropped: it is shut down and kept until its
\* peer has closed, so that the last bytes sent are not lost.
ShutDown ==
  session.dataSocket \notin {None, session.commandSocket}
  /\ session'.dataSocket # session.dataSocket /\ pc' # "reaped"
  => session.dataSocket \in session'.pendingCloseSocket

DataSocketsShutDown == [][ShutDown]_vars

\* A transfer keeps its routine, its mode and its source until it is over.
TransferUndisturbed ==
  [][ session.state # "COMMAND" /\ session'.state # "COMMAND" =>
        /\ session'.transfer = session.transfer
        /\ session'.xferDirMode = session.xferDirMode
        /\ session'.file = session.file
        /\ session'.dir = session.dir
        /\ session'.devZero = session.devZero ]_vars

-----------------------------------------------------------------------------
(* Liveness                                                                *)

Gone == pc = "reaped" \/ ~Running

\* Every call of poll returns, whatever was reported and however many commands
\* or bytes were waiting.
PollReturns == pc # "poll" ~> pc = "poll" \/ Gone

\* A session that is polled and hears nothing any more, nor does any other
\* session, is reaped.
SilentSessionReaped == ([](~handled) /\ ~Unpolled(session)) ~> Gone

=============================================================================
