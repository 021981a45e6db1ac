------------------------- MODULE FtpSession_proofs -------------------------
(***************************************************************************)
(* Proofs about FtpSession, for every set of addresses, every set of        *)
(* commands and every bound on the commands of one read.                    *)
(*                                                                          *)
(* One lemma per method says what the method needs and leaves: that the     *)
(* record keeps its type, that Core is kept, and which members it changes.  *)
(* The step lemma cites them, action by action.                             *)
(***************************************************************************)
EXTENDS FtpSession, TLAPS

(* The members that only setState and the transfer set-up change.          *)
SameTransfer(x, y) ==
  /\ y.pasvSocket = x.pasvSocket
  /\ y.dataSocket = x.dataSocket
  /\ y.state = x.state
  /\ y.pasv = x.pasv
  /\ y.port = x.port
  /\ y.recv = x.recv
  /\ y.send = x.send
  /\ y.dir = x.dir
  /\ y.transfer = x.transfer
  /\ y.xferDirMode = x.xferDirMode
  /\ y.fault = x.fault

(* The command and data sockets of x and its pending ones still exist in y, *)
(* where the command socket is never another one.                           *)
Kept(x, y) ==
  /\ y.commandSocket \in {x.commandSocket, None}
  /\ ({x.commandSocket, x.dataSocket} \cup x.pendingCloseSocket) \ {None}
       \subseteq {y.commandSocket, y.dataSocket} \cup y.pendingCloseSocket

(* No socket and no member of SameTransfer changes.                        *)
Untouched(x, y) ==
  /\ SameTransfer(x, y)
  /\ y.commandSocket = x.commandSocket
  /\ y.pendingCloseSocket = x.pendingCloseSocket

(* A record of the right type that satisfies the part of the invariant that *)
(* holds inside handlers.                                                   *)
Good(x) == x \in Session /\ Core(x)

(* What a method or handler that returns to poll leaves behind.            *)
Done(x, y) == Good(y) /\ Mode(y) /\ Kept(x, y)

-----------------------------------------------------------------------------

\* The null pointer may be stored in a slot.
LEMMA NoneSlot == None \in Slot
BY DEF Slot

LEMMA ZeroCount == 0 \in Count
BY DEF Count

\* Kept is a preorder on the records it is used for.
LEMMA KeptTrans ==
  ASSUME NEW x, NEW y, NEW z, Kept(x, y), Kept(y, z)
  PROVE  Kept(x, z)
BY DEF Kept

\* Core does not depend on the members Untouched leaves open.
LEMMA UntouchedGood ==
  ASSUME NEW x, Good(x), NEW y \in Session, Untouched(x, y)
  PROVE  Good(y) /\ Kept(x, y)
BY DEF Good, Core, Untouched, SameTransfer, Kept

\* closeCommand keeps Core and the other members.
LEMMA CloseCommandGood ==
  ASSUME NEW x, Good(x)
  PROVE  /\ Good(CloseCommand(x))
         /\ CloseCommand(x).commandSocket = None
         /\ SameTransfer(x, CloseCommand(x))
         /\ Kept(x, CloseCommand(x))
<1> DEFINE y == CloseCommand(x)
           P == x.pendingCloseSocket \cup ({x.commandSocket} \ {None, x.dataSocket})
<1>1. P \subseteq Addr
  BY DEF Good, Session, Slot
<1>2. y \in Session
  BY <1>1, NoneSlot, ZeroCount DEF Good, CloseCommand, Session
<1>3. y.commandSocket = None /\ SameTransfer(x, y) /\ y.pendingCloseSocket = P
  BY DEF Good, CloseCommand, Session, SameTransfer
<1>4. Kept(x, y)
  BY <1>3 DEF Kept, SameTransfer
<1>5. Core(y)
  <2>1. None \notin P
    BY <1>1, NoneAssumption
  <2>2. P \cap {None, x.pasvSocket, x.dataSocket} = {}
    BY <2>1 DEF Good, Core
  <2> QED
    BY <2>2, <1>3 DEF Good, Core, SameTransfer
<1> QED
  BY <1>2, <1>3, <1>4, <1>5 DEF Good

\* closePasv, likewise.
LEMMA ClosePasvGood ==
  ASSUME NEW x, Good(x)
  PROVE  LET y == ClosePasv(x)
         IN  /\ Good(y)
             /\ y.pasvSocket = None
             /\ y.commandSocket = x.commandSocket
             /\ y.dataSocket = x.dataSocket
             /\ y.pendingCloseSocket = x.pendingCloseSocket
             /\ y.state = x.state /\ y.pasv = x.pasv /\ y.port = x.port
             /\ y.recv = x.recv /\ y.send = x.send /\ y.dir = x.dir
             /\ y.transfer = x.transfer /\ y.xferDirMode = x.xferDirMode
             /\ y.fault = x.fault
<1> DEFINE y == ClosePasv(x)
<1>1. y \in Session
  BY NoneSlot DEF Good, ClosePasv, Session
<1>2. /\ y.pasvSocket = None
      /\ y.commandSocket = x.commandSocket
      /\ y.dataSocket = x.dataSocket
      /\ y.pendingCloseSocket = x.pendingCloseSocket
      /\ y.state = x.state /\ y.pasv = x.pasv /\ y.port = x.port
      /\ y.recv = x.recv /\ y.send = x.send /\ y.dir = x.dir
      /\ y.transfer = x.transfer /\ y.xferDirMode = x.xferDirMode
      /\ y.fault = x.fault
  BY DEF Good, ClosePasv, Session
<1>3. None \notin x.pendingCloseSocket
  BY NoneAssumption DEF Good, Session
<1>4. Core(y)
  BY <1>2, <1>3 DEF Good, Core
<1> QED
  BY <1>1, <1>2, <1>4 DEF Good

\* closeData, likewise; it also forgets the direction.
LEMMA CloseDataGood ==
  ASSUME NEW x, Good(x)
  PROVE  LET y == CloseData(x)
         IN  /\ Good(y)
             /\ y.dataSocket = None /\ ~y.recv /\ ~y.send
             /\ y.commandSocket = x.commandSocket
             /\ y.pasvSocket = x.pasvSocket
             /\ y.state = x.state /\ y.pasv = x.pasv /\ y.port = x.port /\ y.dir = x.dir
             /\ y.transfer = x.transfer /\ y.xferDirMode = x.xferDirMode
             /\ y.fault = x.fault
             /\ Kept(x, y)
<1> DEFINE y == CloseData(x)
           P == x.pendingCloseSocket \cup ({x.dataSocket} \ {None, x.commandSocket})
<1>1. P \subseteq Addr
  BY DEF Good, Session, Slot
<1>2. y \in Session
  BY <1>1, NoneSlot DEF Good, CloseData, Session
<1>3. /\ y.dataSocket = None /\ ~y.recv /\ ~y.send
      /\ y.commandSocket = x.commandSocket
      /\ y.pasvSocket = x.pasvSocket
      /\ y.state = x.state /\ y.pasv = x.pasv /\ y.port = x.port /\ y.dir = x.dir
      /\ y.transfer = x.transfer /\ y.xferDirMode = x.xferDirMode
      /\ y.fault = x.fault
      /\ y.pendingCloseSocket = P
  BY DEF Good, CloseData, Session
<1>4. Kept(x, y)
  BY <1>3 DEF Kept
<1>5. Core(y)
  <2>1. None \notin P
    BY <1>1, NoneAssumption
  <2>2. P \cap {None, x.pasvSocket, x.commandSocket} = {}
    BY <2>1 DEF Good, Core
  <2> QED
    BY <2>2, <1>3 DEF Good, Core
<1> QED
  BY <1>2, <1>3, <1>4, <1>5 DEF Good

\* What setState changes, apart from closing.
LEMMA EnterGood ==
  ASSUME NEW x, Good(x), NEW st \in States
  PROVE  LET y == Enter(x, st)
         IN  /\ Good(y)
             /\ y.state = st
             /\ y.commandSocket = x.commandSocket
             /\ y.pasvSocket = x.pasvSocket
             /\ y.dataSocket = x.dataSocket
             /\ y.pendingCloseSocket = x.pendingCloseSocket
             /\ y.pasv = x.pasv /\ y.port = x.port
             /\ y.recv = x.recv /\ y.send = x.send
             /\ y.transfer = x.transfer /\ y.xferDirMode = x.xferDirMode
             /\ y.fault = x.fault
             /\ st = "COMMAND" => ~y.dir
<1> DEFINE y == Enter(x, st)
           c == IF x.xfer = "own" THEN "old" ELSE x.xfer
           z == [x EXCEPT !.state = st, !.stale = FALSE, !.restart = FALSE,
                          !.devZero = FALSE, !.file = FALSE, !.dir = FALSE, !.xfer = c]
<1>1. c \in XferContents
  BY DEF Good, Session, XferContents
<1>2. y = IF st = "COMMAND" THEN z ELSE [x EXCEPT !.state = st, !.stale = FALSE]
  BY DEF Enter
<1>3. x \in Session
  BY DEF Good
<1> HIDE DEF c
<1>4. z \in Session
  BY <1>1, <1>3 DEF Session
<1>5. [x EXCEPT !.state = st, !.stale = FALSE] \in Session
  BY <1>3 DEF Session
<1>6. /\ y.state = st
      /\ y.commandSocket = x.commandSocket
      /\ y.pasvSocket = x.pasvSocket
      /\ y.dataSocket = x.dataSocket
      /\ y.pendingCloseSocket = x.pendingCloseSocket
      /\ y.pasv = x.pasv /\ y.port = x.port
      /\ y.recv = x.recv /\ y.send = x.send
      /\ y.transfer = x.transfer /\ y.xferDirMode = x.xferDirMode
      /\ y.fault = x.fault
      /\ st = "COMMAND" => ~y.dir
  <2>1. CASE st = "COMMAND"
    BY <2>1, <1>2, <1>3 DEF Session
  <2>2. CASE st # "COMMAND"
    BY <2>2, <1>2, <1>3 DEF Session
  <2> QED
    BY <2>1, <2>2
<1>7. Core(y)
  BY <1>6 DEF Good, Core
<1> QED
  BY <1>2, <1>4, <1>5, <1>6, <1>7 DEF Good

\* What setState (st, p, d) makes of x.
StateSet(x, y, st, p, d) ==
  /\ Good(y)
  /\ y.state = st
  /\ y.commandSocket = x.commandSocket
  /\ p => y.pasvSocket = None
  /\ ~p => y.pasvSocket = x.pasvSocket
  /\ d => y.dataSocket = None /\ y.recv = FALSE /\ y.send = FALSE
  /\ ~d => y.dataSocket = x.dataSocket /\ y.recv = x.recv /\ y.send = x.send
  /\ y.pasv = x.pasv /\ y.port = x.port
  /\ y.transfer = x.transfer /\ y.xferDirMode = x.xferDirMode
  /\ y.fault = x.fault
  /\ st = "COMMAND" => ~y.dir
  /\ Kept(x, y)

\* setState as a whole.
LEMMA SetStateGood ==
  ASSUME NEW x, Good(x), NEW st \in States, NEW p \in BOOLEAN, NEW d \in BOOLEAN
  PROVE  StateSet(x, SetState(x, st, p, d), st, p, d)
<1> DEFINE u == IF p THEN ClosePasv(x) ELSE x
           v == IF d THEN CloseData(u) ELSE u
           y == Enter(v, st)
<1>1. y = SetState(x, st, p, d)
  BY DEF SetState
<1>2. /\ Good(u)
      /\ u.pasvSocket = IF p THEN None ELSE x.pasvSocket
      /\ u.commandSocket = x.commandSocket
      /\ u.dataSocket = x.dataSocket
      /\ u.pendingCloseSocket = x.pendingCloseSocket
      /\ u.pasv = x.pasv /\ u.port = x.port
      /\ u.recv = x.recv /\ u.send = x.send
      /\ u.transfer = x.transfer /\ u.xferDirMode = x.xferDirMode
      /\ u.fault = x.fault
  BY ClosePasvGood
<1>3. x.recv \in BOOLEAN /\ x.send \in BOOLEAN
  BY DEF Good, Session
<1> HIDE DEF u
<1>4. /\ Good(v)
      /\ v.dataSocket = IF d THEN None ELSE u.dataSocket
      /\ v.recv = IF d THEN FALSE ELSE u.recv
      /\ v.send = IF d THEN FALSE ELSE u.send
      /\ v.commandSocket = u.commandSocket
      /\ v.pasvSocket = u.pasvSocket
      /\ v.pasv = u.pasv /\ v.port = u.port
      /\ v.transfer = u.transfer /\ v.xferDirMode = u.xferDirMode
      /\ v.fault = u.fault
      /\ Kept(u, v)
  <2>1. CASE d
    <3>1. v = CloseData(u)
      BY <2>1
    <3>2. /\ Good(v)
          /\ v.dataSocket = None /\ ~v.recv /\ ~v.send
          /\ v.commandSocket = u.commandSocket
          /\ v.pasvSocket = u.pasvSocket
          /\ v.pasv = u.pasv /\ v.port = u.port
          /\ v.transfer = u.transfer /\ v.xferDirMode = u.xferDirMode
          /\ v.fault = u.fault
          /\ Kept(u, v)
      BY <3>1, <1>2, CloseDataGood
    <3>3. v.recv \in BOOLEAN /\ v.send \in BOOLEAN
      BY <3>2 DEF Good, Session
    <3> HIDE DEF v
    <3> QED
      BY <3>2, <3>3, <2>1
  <2>2. CASE ~d
    BY <2>2, <1>2 DEF Kept
  <2> QED
    BY <2>1, <2>2
<1> HIDE DEF v
<1>5. /\ Good(y)
      /\ y.state = st
      /\ y.commandSocket = v.commandSocket
      /\ y.pasvSocket = v.pasvSocket
      /\ y.dataSocket = v.dataSocket
      /\ y.pendingCloseSocket = v.pendingCloseSocket
      /\ y.pasv = v.pasv /\ y.port = v.port
      /\ y.recv = v.recv /\ y.send = v.send
      /\ y.transfer = v.transfer /\ y.xferDirMode = v.xferDirMode
      /\ y.fault = v.fault
      /\ st = "COMMAND" => ~y.dir
  BY <1>4, EnterGood
<1> HIDE DEF y
<1>6. Kept(x, y)
  BY <1>2, <1>4, <1>5 DEF Kept
<1>7. /\ y.commandSocket = x.commandSocket
      /\ y.pasvSocket = IF p THEN None ELSE x.pasvSocket
      /\ y.dataSocket = IF d THEN None ELSE x.dataSocket
      /\ y.recv = IF d THEN FALSE ELSE x.recv
      /\ y.send = IF d THEN FALSE ELSE x.send
      /\ y.pasv = x.pasv /\ y.port = x.port
      /\ y.transfer = x.transfer /\ y.xferDirMode = x.xferDirMode
      /\ y.fault = x.fault
  BY <1>2, <1>4, <1>5
<1> QED
  BY <1>1, <1>5, <1>6, <1>7 DEF StateSet

\* sendResponse may lose the command socket, and changes nothing of the transfer.
LEMMA SendResponseGood ==
  ASSUME NEW x, Good(x), NEW n \in {0, 1}, NEW y \in SendResponse(x, n)
  PROVE  /\ Good(y)
         /\ y.commandSocket \in {x.commandSocket, None}
         /\ SameTransfer(x, y)
         /\ Kept(x, y)
<1>1. CASE x.commandSocket = None
  BY <1>1 DEF SendResponse, SameTransfer, Kept
<1>2. CASE x.commandSocket # None
  <2> DEFINE z == [x EXCEPT !.owed = @ - n]
             a == [z EXCEPT !.response = FALSE, !.stale = FALSE]
             b == [z EXCEPT !.response = TRUE,  !.stale = FALSE]
             c == [z EXCEPT !.response = TRUE]
  <2>1. x \in Session /\ x.owed - n \in Count
    BY DEF Good, Session, Count
  <2>2. /\ z \in Session
        /\ SameTransfer(x, z)
        /\ z.commandSocket = x.commandSocket
        /\ z.pendingCloseSocket = x.pendingCloseSocket
    BY <2>1 DEF Session, SameTransfer
  <2>3. /\ a \in Session /\ b \in Session /\ c \in Session
        /\ \A w \in {a, b, c} :
             /\ SameTransfer(z, w)
             /\ w.commandSocket = z.commandSocket
             /\ w.pendingCloseSocket = z.pendingCloseSocket
    <3> HIDE DEF z
    <3>1. a \in Session /\ b \in Session /\ c \in Session
      BY <2>2 DEF Session
    <3>2. /\ SameTransfer(z, a) /\ a.commandSocket = z.commandSocket
          /\ a.pendingCloseSocket = z.pendingCloseSocket
      BY <2>2 DEF Session, SameTransfer
    <3>3. /\ SameTransfer(z, b) /\ b.commandSocket = z.commandSocket
          /\ b.pendingCloseSocket = z.pendingCloseSocket
      BY <2>2 DEF Session, SameTransfer
    <3>4. /\ SameTransfer(z, c) /\ c.commandSocket = z.commandSocket
          /\ c.pendingCloseSocket = z.pendingCloseSocket
      BY <2>2 DEF Session, SameTransfer
    <3> HIDE DEF a, b, c
    <3> QED
      BY <3>1, <3>2, <3>3, <3>4
  <2>4. y \in {a, b, c, CloseCommand(z)}
    BY <1>2 DEF SendResponse
  <2> HIDE DEF z, a, b, c
  <2>5. Good(z) /\ Kept(x, z) /\ \A w \in {a, b, c} : Good(w) /\ Kept(z, w)
    BY <2>2, <2>3 DEF Good, Core, SameTransfer, Kept
  <2>6. CASE y \in {a, b, c}
    <3>1. SameTransfer(x, y) /\ y.commandSocket = x.commandSocket
      BY <2>2, <2>3, <2>6 DEF SameTransfer
    <3> QED
      BY <3>1, <2>5, <2>6, KeptTrans
  <2>7. CASE y = CloseCommand(z)
    <3>1. Good(z) /\ SameTransfer(x, z) /\ Kept(x, z)
      BY <2>2, <2>5
    <3>2. Good(y) /\ y.commandSocket = None /\ SameTransfer(z, y) /\ Kept(z, y)
      BY <3>1, <2>7, CloseCommandGood
    <3>3. Kept(x, y)
      BY <3>1, <3>2, KeptTrans
    <3>4. SameTransfer(x, y)
      BY <3>1, <3>2 DEF SameTransfer
    <3> QED
      BY <3>2, <3>3, <3>4
  <2> QED
    BY <2>4, <2>6, <2>7
<1> QED
  BY <1>1, <1>2

\* The overload that only appends to the buffer.
LEMMA BufferResponseGood ==
  ASSUME NEW x, Good(x), NEW y \in BufferResponse(x)
  PROVE  /\ Good(y)
         /\ y.commandSocket \in {x.commandSocket, None}
         /\ SameTransfer(x, y)
         /\ Kept(x, y)
<1>1. CASE x.commandSocket = None
  BY <1>1 DEF BufferResponse, SameTransfer, Kept
<1>2. CASE x.commandSocket # None
  <2> DEFINE a == [x EXCEPT !.response = TRUE, !.owed = @ - 1]
  <2>1. x \in Session /\ x.owed - 1 \in Count
    BY DEF Good, Session, Count
  <2>2. a \in Session
    BY <2>1 DEF Session
  <2>3. /\ SameTransfer(x, a)
        /\ a.commandSocket = x.commandSocket
        /\ a.pendingCloseSocket = x.pendingCloseSocket
    BY <2>1 DEF Session, SameTransfer
  <2>4. y \in {a, CloseCommand(x)}
    BY <1>2 DEF BufferResponse
  <2> HIDE DEF a
  <2>5. Good(a) /\ Kept(x, a)
    BY <2>2, <2>3 DEF Good, Core, SameTransfer, Kept
  <2> QED
    BY <2>3, <2>4, <2>5, CloseCommandGood
<1> QED
  BY <1>1, <1>2

-----------------------------------------------------------------------------

\* A transfer given up leaves a session in COMMAND with nothing of it.
LEMMA FailDone ==
  ASSUME NEW x, Good(x), NEW y \in Fail(x)
  PROVE  Done(x, y) /\ y.state = "COMMAND"
<1>1. PICK z \in SendResponse(x, 1) : y = SetState(z, "COMMAND", TRUE, TRUE)
  BY DEF Fail
<1>2. Good(z) /\ Kept(x, z)
  BY SendResponseGood
<1>3. "COMMAND" \in States
  BY DEF States
<1>4. /\ Good(y) /\ Kept(z, y)
      /\ y.state = "COMMAND" /\ y.dataSocket = None /\ ~y.dir
      /\ y.recv = FALSE /\ y.send = FALSE
  <2>1. StateSet(z, y, "COMMAND", TRUE, TRUE)
    BY <1>1, <1>2, <1>3, SetStateGood
  <2> QED
    BY <2>1 DEF StateSet
<1>5. Mode(y)
  BY <1>4 DEF Mode, InCommand, InConnect, InTransferring
<1> QED
  BY <1>2, <1>4, <1>5, KeptTrans DEF Done

\* setState (State::COMMAND, false, false) from COMMAND.
LEMMA SettleState ==
  ASSUME NEW x, Good(x), x.state = "COMMAND", InCommand(x)
  PROVE  LET y == SetState(x, "COMMAND", FALSE, FALSE)
         IN  Done(x, y) /\ y.state = "COMMAND"
<1> DEFINE y == SetState(x, "COMMAND", FALSE, FALSE)
<1>1. "COMMAND" \in States
  BY DEF States
<1>2. /\ Good(y) /\ Kept(x, y)
      /\ y.state = "COMMAND" /\ y.dataSocket = x.dataSocket /\ ~y.dir
      /\ y.recv = x.recv /\ y.send = x.send
  <2>1. StateSet(x, y, "COMMAND", FALSE, FALSE)
    BY <1>1, SetStateGood
  <2> QED
    BY <2>1 DEF StateSet
<1>3. Mode(y)
  BY <1>2 DEF Mode, InCommand, InConnect, InTransferring
<1> QED
  BY <1>2, <1>3 DEF Done

\* A reply from a proper mode keeps it.
LEMMA SendResponseDone ==
  ASSUME NEW x, Good(x), Mode(x), NEW n \in {0, 1}, NEW y \in SendResponse(x, n)
  PROVE  Done(x, y) /\ y.state = x.state
<1>1. /\ Good(y) /\ Kept(x, y) /\ SameTransfer(x, y)
      /\ y.commandSocket \in {x.commandSocket, None}
  BY SendResponseGood
<1>2. Mode(y)
  BY <1>1 DEF Mode, InCommand, InConnect, InTransferring, SameTransfer
<1> QED
  BY <1>1, <1>2 DEF Done, SameTransfer

LEMMA BufferResponseDone ==
  ASSUME NEW x, Good(x), Mode(x), NEW y \in BufferResponse(x)
  PROVE  Done(x, y) /\ y.state = x.state
<1>1. /\ Good(y) /\ Kept(x, y) /\ SameTransfer(x, y)
      /\ y.commandSocket \in {x.commandSocket, None}
  BY BufferResponseGood
<1>2. Mode(y)
  BY <1>1 DEF Mode, InCommand, InConnect, InTransferring, SameTransfer
<1> QED
  BY <1>1, <1>2 DEF Done, SameTransfer

LEMMA CloseCommandDone ==
  ASSUME NEW x, Good(x), Mode(x)
  PROVE  Done(x, CloseCommand(x)) /\ CloseCommand(x).state = x.state
<1> DEFINE y == CloseCommand(x)
<1>1. Good(y) /\ Kept(x, y) /\ SameTransfer(x, y) /\ y.commandSocket = None
  BY CloseCommandGood
<1> HIDE DEF y
<1>2. Mode(y)
  BY <1>1 DEF Mode, InCommand, InConnect, InTransferring, SameTransfer
<1> QED
  BY <1>1, <1>2 DEF Done, SameTransfer, y

\* A record that only differs in members Mode does not read.
LEMMA UntouchedDone ==
  ASSUME NEW x, Good(x), Mode(x), NEW y \in Session, Untouched(x, y)
  PROVE  Done(x, y) /\ y.state = x.state
<1>1. Good(y) /\ Kept(x, y)
  BY UntouchedGood
<1>2. Mode(y)
  BY DEF Mode, InCommand, InConnect, InTransferring, Untouched, SameTransfer
<1> QED
  BY <1>1, <1>2 DEF Done, Untouched, SameTransfer

LEMMA DoneTrans ==
  ASSUME NEW x, NEW y, NEW z, Kept(x, y), Done(y, z)
  PROVE  Done(x, z)
BY KeptTrans DEF Done

\* The reply of a handler that only returns to COMMAND.
LEMMA SettleDone ==
  ASSUME NEW x, Good(x), x.state = "COMMAND", InCommand(x), NEW y \in Settle(x)
  PROVE  Done(x, y) /\ y.state = "COMMAND"
<1> DEFINE z == SetState(x, "COMMAND", FALSE, FALSE)
<1>1. Done(x, z) /\ z.state = "COMMAND"
  BY SettleState
<1>2. y \in SendResponse(z, 1)
  BY DEF Settle
<1> HIDE DEF z
<1>3. Done(z, y) /\ y.state = "COMMAND"
  BY <1>1, <1>2, SendResponseDone DEF Done
<1> QED
  BY <1>1, <1>3, DoneTrans DEF Done

-----------------------------------------------------------------------------

\* A data socket that is nobody else's leads to DATA_TRANSFER.
LEMMA ReadyGood ==
  ASSUME NEW x, Good(x), x.dataSocket # None, x.dataSocket # x.commandSocket,
         NEW y \in Ready(x)
  PROVE  /\ Good(y) /\ Kept(x, y)
         /\ y.state = "DATA_TRANSFER"
         /\ y.pasvSocket = None
         /\ y.dataSocket # None /\ y.dataSocket # y.commandSocket
         /\ y.recv = x.recv /\ y.send = x.send
<1>1. PICK z \in SendResponse(x, 0) : y = SetState(z, "DATA_TRANSFER", TRUE, FALSE)
  BY DEF Ready
<1>2. /\ Good(z) /\ Kept(x, z) /\ SameTransfer(x, z)
      /\ z.commandSocket \in {x.commandSocket, None}
  BY SendResponseGood
<1>3. "DATA_TRANSFER" \in States
  BY DEF States
<1> DEFINE w == SetState(z, "DATA_TRANSFER", TRUE, FALSE)
<1>4. /\ Good(w) /\ Kept(z, w)
      /\ w.state = "DATA_TRANSFER"
      /\ w.commandSocket = z.commandSocket
      /\ w.pasvSocket = None /\ w.dataSocket = z.dataSocket
      /\ w.recv = z.recv /\ w.send = z.send
  <2>1. StateSet(z, w, "DATA_TRANSFER", TRUE, FALSE)
    BY <1>2, <1>3, SetStateGood
  <2> QED
    BY <2>1 DEF StateSet
<1> HIDE DEF w
<1>5. y = w
  BY <1>1 DEF w
<1> QED
  BY <1>2, <1>4, <1>5, KeptTrans DEF SameTransfer

\* A new data socket in an empty slot; at most flags are cleared besides.
LEMMA NewDataGood ==
  ASSUME NEW x, Good(x), x.dataSocket = None, NEW a \in Free(x), NEW y \in Session,
         y.dataSocket = a,
         y.commandSocket = x.commandSocket, y.pasvSocket = x.pasvSocket,
         y.pendingCloseSocket = x.pendingCloseSocket, y.fault = x.fault,
         y.pasv => x.pasv, y.port => x.port
  PROVE  Good(y) /\ Kept(x, y) /\ y.dataSocket # None /\ y.dataSocket # y.commandSocket
<1>1. a # None /\ a \notin InUse(x)
  BY NoneAssumption DEF Free
<1>2. Core(y)
  BY <1>1 DEF Good, Core, InUse
<1>3. Kept(x, y)
  BY DEF Kept
<1> QED
  BY <1>1, <1>2, <1>3 DEF Good, InUse

\* The session while it waits for its data connection.
Waiting(y) ==
  /\ y.state \in {"DATA_CONNECT", "DATA_TRANSFER"}
  /\ y.state = "DATA_CONNECT" => (y.dataSocket = None <=> y.pasv)
  /\ y.state = "DATA_TRANSFER" => y.dataSocket # None
  /\ y.dataSocket # None => y.dataSocket # y.commandSocket
  /\ y.state = "DATA_TRANSFER" => y.pasvSocket = None

\* Both ways a connection may go on.
LEMMA ConnectingGood ==
  ASSUME NEW x, Good(x), x.state = "DATA_CONNECT", x.dataSocket = None, x.port \/ x.pasv,
         NEW y \in Connecting(x)
  PROVE  Good(y) /\ Kept(x, y) /\ Waiting(y) /\ y.recv = x.recv /\ y.send = x.send
<1>1. CASE ~x.port
  BY <1>1 DEF Connecting, Waiting, Kept
<1>2. CASE x.port
  <2>1. PICK a \in Free(x) :
          y \in {[x EXCEPT !.port = FALSE, !.dataSocket = a]}
                \cup Ready([x EXCEPT !.port = FALSE, !.dataSocket = a])
    BY <1>2 DEF Connecting, ConnectStarted
  <2> DEFINE z == [x EXCEPT !.port = FALSE, !.dataSocket = a]
  <2>2. /\ z \in Session
        /\ z.dataSocket = a /\ z.port = FALSE /\ z.pasv = x.pasv
        /\ z.commandSocket = x.commandSocket /\ z.pasvSocket = x.pasvSocket
        /\ z.pendingCloseSocket = x.pendingCloseSocket /\ z.fault = x.fault
        /\ z.state = x.state /\ z.recv = x.recv /\ z.send = x.send
    BY ZenonT(60) DEF Good, Session, Slot, Free
  <2> HIDE DEF z
  <2>3. Good(z) /\ Kept(x, z) /\ z.dataSocket # None /\ z.dataSocket # z.commandSocket
    BY <2>2, NewDataGood
  <2>4. CASE y = z
    <3>1. ~x.pasv
      BY <1>2 DEF Good, Core
    <3> QED
      BY <3>1, <2>2, <2>3, <2>4 DEF Waiting
  <2>5. CASE y \in Ready(z)
    <3>1. /\ Good(y) /\ Kept(z, y)
          /\ y.state = "DATA_TRANSFER"
          /\ y.pasvSocket = None
          /\ y.dataSocket # None /\ y.dataSocket # y.commandSocket
          /\ y.recv = z.recv /\ y.send = z.send
      BY <2>3, <2>5, ReadyGood
    <3> QED
      BY <3>1, <2>2, <2>3, KeptTrans DEF Waiting
  <2> QED
    BY <2>1, <2>4, <2>5 DEF z
<1> QED
  BY <1>1, <1>2

\* dataConnect returned false: 425 and back to COMMAND.
LEMMA NotConnectedDone ==
  ASSUME NEW x, Good(x), x.dataSocket = None, NEW y \in NotConnected(x)
  PROVE  Done(x, y)
<1>1. PICK z \in ConnectFailed(x) : y \in Fail(z)
  BY DEF NotConnected
<1>2. PICK a \in Free(x) \cup {None} : z = [x EXCEPT !.port = FALSE, !.dataSocket = a]
  BY DEF ConnectFailed
<1>3. a \in Slot
  BY NoneSlot DEF Free, Slot
<1>4. /\ z \in Session
      /\ z.dataSocket = a /\ z.port = FALSE /\ z.pasv = x.pasv
      /\ z.commandSocket = x.commandSocket /\ z.pasvSocket = x.pasvSocket
      /\ z.pendingCloseSocket = x.pendingCloseSocket /\ z.fault = x.fault
  BY <1>2, <1>3 DEF Good, Session
<1>5. Good(z) /\ Kept(x, z)
  <2>1. CASE a = None
    BY <2>1, <1>4 DEF Good, Core, Kept
  <2>2. CASE a \in Free(x)
    BY <2>2, <1>4, NewDataGood
  <2> QED
    BY <2>1, <2>2
<1>6. Done(z, y)
  BY <1>1, <1>5, FailDone
<1> QED
  BY <1>5, <1>6, DoneTrans

\* Waiting with a direction is a proper mode.
LEMMA WaitingMode ==
  ASSUME NEW y, Waiting(y), y.recv # y.send
  PROVE  Mode(y)
BY DEF Waiting, Mode, InCommand, InConnect, InTransferring

\* setState (State::DATA_CONNECT, false, true).
LEMMA DataConnectState ==
  ASSUME NEW x, Good(x)
  PROVE  LET v == SetState(x, "DATA_CONNECT", FALSE, TRUE)
         IN  /\ Good(v) /\ Kept(x, v)
             /\ v.state = "DATA_CONNECT" /\ v.dataSocket = None /\ v.recv = FALSE
             /\ v.pasv = x.pasv /\ v.port = x.port
             /\ v.transfer = x.transfer /\ v.xferDirMode = x.xferDirMode
<1> DEFINE v == SetState(x, "DATA_CONNECT", FALSE, TRUE)
<1>1. "DATA_CONNECT" \in States
  BY DEF States
<1>2. StateSet(x, v, "DATA_CONNECT", FALSE, TRUE)
  BY <1>1, SetStateGood
<1> QED
  BY <1>2 DEF StateSet

\* A listing: wait for the data connection, or give up.
LEMMA BeginSendDone ==
  ASSUME NEW x, Good(x), x.port \/ x.pasv,
         NEW y, y = [SetState(x, "DATA_CONNECT", FALSE, TRUE) EXCEPT !.send = TRUE],
         NEW w \in NotConnected(y) \cup Connecting(y)
  PROVE  Done(x, w)
<1> DEFINE v == SetState(x, "DATA_CONNECT", FALSE, TRUE)
<1>2. /\ Good(v) /\ Kept(x, v)
      /\ v.state = "DATA_CONNECT" /\ v.dataSocket = None /\ v.recv = FALSE
      /\ v.pasv = x.pasv /\ v.port = x.port
  BY DataConnectState
<1> HIDE DEF v
<1>3. y = [v EXCEPT !.send = TRUE]
  BY DEF v
<1>4. /\ y \in Session
      /\ y.state = v.state /\ y.dataSocket = v.dataSocket /\ y.recv = v.recv
      /\ y.send = TRUE /\ y.pasv = v.pasv /\ y.port = v.port
      /\ y.commandSocket = v.commandSocket /\ y.pasvSocket = v.pasvSocket
      /\ y.pendingCloseSocket = v.pendingCloseSocket /\ y.fault = v.fault
  BY <1>2, <1>3, ZenonT(60) DEF Good, Session
<1>5. Good(y) /\ Kept(x, y)
  BY <1>2, <1>4 DEF Good, Core, Kept
<1>6. CASE w \in NotConnected(y)
  <2>1. Done(y, w)
    BY <1>2, <1>4, <1>5, <1>6, NotConnectedDone
  <2> QED
    BY <2>1, <1>5, DoneTrans
<1>7. CASE w \in Connecting(y)
  <2>1. Good(w) /\ Kept(y, w) /\ Waiting(w) /\ w.recv = y.recv /\ w.send = y.send
    BY <1>2, <1>4, <1>5, <1>7, ConnectingGood
  <2>2. Mode(w)
    BY <2>1, <1>2, <1>4, WaitingMode
  <2> QED
    BY <2>1, <2>2, <1>5, KeptTrans DEF Done
<1> QED
  BY <1>6, <1>7

\* RETR, STOR and APPE once their source or target is in place.
LEMMA BeginFileDone ==
  ASSUME NEW x, Good(x), NEW retr \in BOOLEAN, NEW w \in BeginFile(x, retr)
  PROVE  Done(x, w)
<1>1. CASE ~x.port /\ ~x.pasv
  BY <1>1, FailDone DEF BeginFile
<1>2. CASE x.port \/ x.pasv
  <2> DEFINE v == SetState(x, "DATA_CONNECT", FALSE, TRUE)
             m == IF retr THEN "retrieveTransfer" ELSE "storeTransfer"
  <2>2. /\ Good(v) /\ Kept(x, v)
        /\ v.state = "DATA_CONNECT" /\ v.dataSocket = None
        /\ v.pasv = x.pasv /\ v.port = x.port
    BY DataConnectState
  <2>3. w \in NotConnected(v) \/ \E z \in Connecting(v) :
          w = [z EXCEPT !.recv = ~retr, !.send = retr, !.transfer = m]
    BY <1>2 DEF BeginFile
  <2>4. m \in Transfers
    BY DEF Transfers
  <2> HIDE DEF v, m
  <2>5. CASE w \in NotConnected(v)
    <3>1. Done(v, w)
      BY <2>2, <2>5, NotConnectedDone
    <3> QED
      BY <3>1, <2>2, DoneTrans
  <2>6. CASE w \notin NotConnected(v)
    <3>1. PICK z \in Connecting(v) :
            w = [z EXCEPT !.recv = ~retr, !.send = retr, !.transfer = m]
      BY <2>3, <2>6
    <3>2. Good(z) /\ Kept(v, z) /\ Waiting(z)
      BY <1>2, <2>2, ConnectingGood
    <3>3. /\ w \in Session
          /\ w.recv = ~retr /\ w.send = retr
          /\ w.state = z.state /\ w.pasv = z.pasv /\ w.port = z.port
          /\ w.commandSocket = z.commandSocket /\ w.pasvSocket = z.pasvSocket
          /\ w.dataSocket = z.dataSocket /\ w.fault = z.fault
          /\ w.pendingCloseSocket = z.pendingCloseSocket
      BY <3>1, <3>2, <2>4, ZenonT(60) DEF Good, Session
    <3>4. Good(w) /\ Kept(z, w)
      BY <3>2, <3>3 DEF Good, Core, Kept
    <3>5. Waiting(w)
      BY <3>2, <3>3 DEF Waiting
    <3>6. w.recv # w.send
      BY <3>3
    <3>7. Mode(w)
      BY <3>5, <3>6, WaitingMode
    <3>8. Kept(x, w)
      BY <2>2, <3>2, <3>4, KeptTrans
    <3> QED
      BY <3>4, <3>7, <3>8 DEF Done
  <2> QED
    BY <2>5, <2>6
<1> QED
  BY <1>1, <1>2

\* A PASV connection is there.
LEMMA DataAcceptDone ==
  ASSUME NEW x, Good(x), Mode(x), x.state = "DATA_CONNECT",
         x.pasvSocket # None \/ x.dataSocket # None, NEW w \in DataAccept(x)
  PROVE  Done(x, w)
<1>1. CASE ~x.pasv
  BY <1>1, FailDone DEF DataAccept
<1>2. CASE x.pasv
  <2> DEFINE y == [x EXCEPT !.pasv = FALSE]
  <2>1. x.dataSocket = None /\ x.pasvSocket # None /\ x.recv # x.send
    BY <1>2 DEF Mode, InConnect
  <2>2. /\ y \in Session
        /\ y.pasv = FALSE /\ y.port = x.port
        /\ y.commandSocket = x.commandSocket /\ y.pasvSocket = x.pasvSocket
        /\ y.dataSocket = x.dataSocket /\ y.fault = x.fault
        /\ y.pendingCloseSocket = x.pendingCloseSocket
        /\ y.recv = x.recv /\ y.send = x.send
    BY DEF Good, Session
  <2>3. w \in Fail([y EXCEPT !.dataSocket = None])
        \/ \E a \in Free(y) : w \in Fail([y EXCEPT !.dataSocket = a])
                                   \cup Ready([y EXCEPT !.dataSocket = a])
    BY <1>2, <2>1 DEF DataAccept
  <2> HIDE DEF y
  <2>4. Good(y) /\ Kept(x, y)
    BY <2>2 DEF Good, Core, Kept
  <2>5. CASE w \in Fail([y EXCEPT !.dataSocket = None])
    <3>1. [y EXCEPT !.dataSocket = None] = y
      BY <2>1, <2>2 DEF Session
    <3>2. Done(y, w)
      BY <2>4, <2>5, <3>1, FailDone
    <3> QED
      BY <3>2, <2>4, DoneTrans
  <2>6. CASE w \notin Fail([y EXCEPT !.dataSocket = None])
    <3>1. PICK a \in Free(y) : w \in Fail([y EXCEPT !.dataSocket = a])
                                    \cup Ready([y EXCEPT !.dataSocket = a])
      BY <2>3, <2>6
    <3> DEFINE z == [y EXCEPT !.dataSocket = a]
    <3>2. /\ z \in Session
          /\ z.dataSocket = a /\ z.port = y.port /\ z.pasv = y.pasv
          /\ z.commandSocket = y.commandSocket /\ z.pasvSocket = y.pasvSocket
          /\ z.pendingCloseSocket = y.pendingCloseSocket /\ z.fault = y.fault
          /\ z.recv = y.recv /\ z.send = y.send
      BY <2>2 DEF Session, Slot, Free
    <3>3. w \in Fail(z) \cup Ready(z)
      BY <3>1
    <3> HIDE DEF z
    <3>4. Good(z) /\ Kept(y, z) /\ z.dataSocket # None /\ z.dataSocket # z.commandSocket
      BY <3>2, <2>1, <2>2, <2>4, NewDataGood
    <3>5. Kept(x, z)
      BY <2>4, <3>4, KeptTrans
    <3>6. CASE w \in Fail(z)
      BY <3>4, <3>5, <3>6, FailDone, DoneTrans
    <3>7. CASE w \in Ready(z)
      <4>1. /\ Good(w) /\ Kept(z, w)
            /\ w.state = "DATA_TRANSFER" /\ w.pasvSocket = None
            /\ w.dataSocket # None /\ w.dataSocket # w.commandSocket
            /\ w.recv = z.recv /\ w.send = z.send
        BY <3>4, <3>7, ReadyGood
      <4>2. Mode(w)
        BY <4>1, <3>2, <2>1, <2>2 DEF Mode, InCommand, InConnect, InTransferring
      <4> QED
        BY <4>1, <4>2, <3>5, KeptTrans DEF Done
    <3> QED
      BY <3>3, <3>6, <3>7
  <2> QED
    BY <2>5, <2>6
<1> QED
  BY <1>1, <1>2

\* RETR, STOR and APPE as a whole.
LEMMA XferFileDone ==
  ASSUME NEW x, Good(x), Mode(x), NEW mode, NEW w \in XferFile(x, mode)
  PROVE  Done(x, w)
<1> DEFINE y    == [x EXCEPT !.xfer = "empty"]
           open == [y EXCEPT !.file = TRUE]
           zero == [y EXCEPT !.devZero = TRUE]
<1>1. y \in Session /\ Untouched(x, y)
  BY DEF Good, Session, XferContents, Untouched, SameTransfer
<1>2. \/ w \in Fail(y) \/ w \in SendResponse(y, 1) \/ w \in SendResponse(open, 1)
      \/ w \in BeginFile(open, mode = "RETR") \/ w \in BeginFile(zero, mode = "RETR")
  BY DEF XferFile
<1>3. (mode = "RETR") \in BOOLEAN
  OBVIOUS
<1> HIDE DEF y
<1>4. open \in Session /\ zero \in Session /\ Untouched(y, open) /\ Untouched(y, zero)
  BY <1>1 DEF Session, Untouched, SameTransfer
<1> HIDE DEF open, zero
<1>5. Done(x, y)
  BY <1>1, UntouchedDone
<1>6. Done(x, open) /\ Done(x, zero)
  BY <1>4, <1>5, UntouchedDone, DoneTrans DEF Done
<1>7. CASE w \in Fail(y)
  BY <1>5, <1>7, FailDone, DoneTrans DEF Done
<1>8. CASE w \in SendResponse(y, 1)
  <2>1. Done(y, w)
    BY <1>5, <1>8, SendResponseDone DEF Done
  <2> QED
    BY <2>1, <1>5, DoneTrans DEF Done
<1>9. CASE w \in SendResponse(open, 1)
  <2>1. Done(open, w)
    BY <1>6, <1>9, SendResponseDone DEF Done
  <2> QED
    BY <2>1, <1>6, DoneTrans DEF Done
<1>10. CASE w \in BeginFile(open, mode = "RETR")
  BY <1>3, <1>6, <1>10, BeginFileDone, DoneTrans DEF Done
<1>11. CASE w \in BeginFile(zero, mode = "RETR")
  BY <1>3, <1>6, <1>11, BeginFileDone, DoneTrans DEF Done
<1> QED
  BY <1>2, <1>7, <1>8, <1>9, <1>10, <1>11

\* A prepared listing: sent on the command connection or on one of its own.
LEMMA BeginListDone ==
  ASSUME NEW x, Good(x), NEW mode \in DirModes, x.xferDirMode = mode,
         mode \in {"MLST", "STAT"} => mode \in Commands,
         x.transfer = "listTransfer", NEW w \in BeginList(x, mode)
  PROVE  Done(x, w)
<1>1. CASE mode \in {"MLST", "STAT"}
  <2>1. PICK y \in SendResponse(x, 0) :
          w = [SetState(y, "DATA_TRANSFER", TRUE, TRUE)
                 EXCEPT !.dataSocket = y.commandSocket, !.send = TRUE]
    BY <1>1 DEF BeginList
  <2>2. Good(y) /\ Kept(x, y) /\ SameTransfer(x, y)
    BY SendResponseGood
  <2> DEFINE v == SetState(y, "DATA_TRANSFER", TRUE, TRUE)
  <2>3. "DATA_TRANSFER" \in States
    BY DEF States
  <2>4. /\ Good(v) /\ Kept(y, v)
        /\ v.state = "DATA_TRANSFER" /\ v.commandSocket = y.commandSocket
        /\ v.pasvSocket = None /\ v.dataSocket = None /\ v.recv = FALSE
        /\ v.transfer = y.transfer /\ v.xferDirMode = y.xferDirMode
    <3>1. StateSet(y, v, "DATA_TRANSFER", TRUE, TRUE)
      BY <2>2, <2>3, SetStateGood
    <3> QED
      BY <3>1 DEF StateSet
  <2> HIDE DEF v
  <2>5. w = [v EXCEPT !.dataSocket = v.commandSocket, !.send = TRUE]
    BY <2>1, <2>4 DEF v
  <2>6. v.commandSocket \in Slot
    BY <2>4 DEF Good, Session
  <2>7. /\ w \in Session
        /\ w.dataSocket = v.commandSocket /\ w.send = TRUE /\ w.recv = v.recv
        /\ w.state = v.state /\ w.pasv = v.pasv /\ w.port = v.port
        /\ w.commandSocket = v.commandSocket /\ w.pasvSocket = v.pasvSocket
        /\ w.pendingCloseSocket = v.pendingCloseSocket /\ w.fault = v.fault
        /\ w.transfer = v.transfer /\ w.xferDirMode = v.xferDirMode
    BY <2>4, <2>5, <2>6 DEF Good, Session
  <2>8. Good(w) /\ Kept(v, w)
    BY <2>4, <2>7 DEF Good, Core, Kept
  <2>9. Mode(w)
    BY <1>1, <2>2, <2>4, <2>7 DEF Mode, InCommand, InConnect, InTransferring, SameTransfer
  <2> QED
    BY <2>2, <2>4, <2>8, <2>9, KeptTrans DEF Done
<1>2. CASE mode \notin {"MLST", "STAT"}
  <2>1. CASE ~x.port /\ ~x.pasv
    BY <1>2, <2>1, FailDone DEF BeginList
  <2>2. CASE x.port \/ x.pasv
    <3> DEFINE y == [SetState(x, "DATA_CONNECT", FALSE, TRUE) EXCEPT !.send = TRUE]
    <3>1. w \in NotConnected(y) \cup Connecting(y)
      BY <1>2, <2>2 DEF BeginList
    <3> QED
      BY <3>1, <2>2, BeginSendDone
  <2> QED
    BY <2>1, <2>2
<1> QED
  BY <1>1, <1>2

\* LIST, MLSD, MLST, NLST and STAT.
LEMMA XferDirDone ==
  ASSUME NEW x, Good(x), Mode(x), x.state = "COMMAND",
         NEW mode \in DirModes, mode \in {"MLST", "STAT"} => mode \in Commands,
         NEW w \in XferDir(x, mode)
  PROVE  Done(x, w)
<1> DEFINE y == [x EXCEPT !.xferDirMode = mode, !.recv = FALSE, !.send = TRUE,
                          !.xfer = "empty", !.transfer = "listTransfer"]
           entry == [y EXCEPT !.xfer = "own"]
           open  == [y EXCEPT !.dir = TRUE]
           cdir  == [open EXCEPT !.xfer = "own"]
<1>1. /\ y \in Session
      /\ y.commandSocket = x.commandSocket /\ y.pasvSocket = x.pasvSocket
      /\ y.dataSocket = x.dataSocket /\ y.fault = x.fault
      /\ y.pendingCloseSocket = x.pendingCloseSocket
      /\ y.pasv = x.pasv /\ y.port = x.port
      /\ y.xferDirMode = mode /\ y.transfer = "listTransfer"
  BY DEF Good, Session, XferContents, Transfers
<1>2. w \in Fail(y) \/ \E z \in {entry, open, cdir} : w \in BeginList(z, mode)
  BY DEF XferDir, Listings
<1> HIDE DEF y
<1>3. Good(y) /\ Kept(x, y)
  BY <1>1 DEF Good, Core, Kept
<1>4. /\ open \in Session
      /\ open.commandSocket = y.commandSocket /\ open.pasvSocket = y.pasvSocket
      /\ open.dataSocket = y.dataSocket /\ open.fault = y.fault
      /\ open.pendingCloseSocket = y.pendingCloseSocket
      /\ open.pasv = y.pasv /\ open.port = y.port
      /\ open.xferDirMode = mode /\ open.transfer = "listTransfer"
  BY <1>1 DEF Session
<1>5. /\ entry \in Session
      /\ entry.commandSocket = y.commandSocket /\ entry.pasvSocket = y.pasvSocket
      /\ entry.dataSocket = y.dataSocket /\ entry.fault = y.fault
      /\ entry.pendingCloseSocket = y.pendingCloseSocket
      /\ entry.pasv = y.pasv /\ entry.port = y.port
      /\ entry.xferDirMode = mode /\ entry.transfer = "listTransfer"
  BY <1>1 DEF Session, XferContents
<1> HIDE DEF open
<1>6. /\ cdir \in Session
      /\ cdir.commandSocket = y.commandSocket /\ cdir.pasvSocket = y.pasvSocket
      /\ cdir.dataSocket = y.dataSocket /\ cdir.fault = y.fault
      /\ cdir.pendingCloseSocket = y.pendingCloseSocket
      /\ cdir.pasv = y.pasv /\ cdir.port = y.port
      /\ cdir.xferDirMode = mode /\ cdir.transfer = "listTransfer"
  BY <1>4 DEF Session, XferContents
<1> HIDE DEF entry, cdir
<1>7. Good(open) /\ Kept(y, open)
  BY <1>3, <1>4 DEF Good, Core, Kept
<1>8. Good(entry) /\ Kept(y, entry)
  BY <1>3, <1>5 DEF Good, Core, Kept
<1>9. Good(cdir) /\ Kept(y, cdir)
  BY <1>3, <1>6 DEF Good, Core, Kept
<1>10. CASE w \in Fail(y)
  BY <1>3, <1>10, FailDone, DoneTrans
<1>11. CASE \E z \in {entry, open, cdir} : w \in BeginList(z, mode)
  <2>1. PICK z \in {entry, open, cdir} : w \in BeginList(z, mode)
    BY <1>11
  <2>2. Good(z) /\ Kept(y, z) /\ z.xferDirMode = mode /\ z.transfer = "listTransfer"
    BY <2>1, <1>4, <1>5, <1>6, <1>7, <1>8, <1>9
  <2>3. Done(z, w)
    BY <2>1, <2>2, BeginListDone
  <2> QED
    BY <2>2, <2>3, <1>3, KeptTrans, DoneTrans
<1> QED
  BY <1>2, <1>10, <1>11

\* NLST with a wildcard.
LEMMA XferGlobDone ==
  ASSUME NEW x, Good(x), Mode(x), x.state = "COMMAND", NEW w \in XferGlob(x)
  PROVE  Done(x, w)
<1> DEFINE left == [x EXCEPT !.transfer = "globTransfer"]
<1>1. /\ left \in Session
      /\ left.commandSocket = x.commandSocket /\ left.pasvSocket = x.pasvSocket
      /\ left.dataSocket = x.dataSocket /\ left.fault = x.fault
      /\ left.pendingCloseSocket = x.pendingCloseSocket
      /\ left.pasv = x.pasv /\ left.port = x.port
  BY DEF Good, Session, Transfers
<1>2. \/ \E y \in SendResponse(x, 1) : w = SetState(y, "COMMAND", FALSE, FALSE)
      \/ ~left.port /\ ~left.pasv /\ w \in Fail(left)
      \/ /\ left.port \/ left.pasv
         /\ LET y == [SetState(left, "DATA_CONNECT", FALSE, TRUE) EXCEPT !.send = TRUE]
            IN  w \in NotConnected(y) \cup Connecting(y)
  BY <1>1 DEF XferGlob
<1> HIDE DEF left
<1>3. Good(left) /\ Kept(x, left)
  BY <1>1 DEF Good, Core, Kept
<1>4. CASE \E y \in SendResponse(x, 1) : w = SetState(y, "COMMAND", FALSE, FALSE)
  <2>1. PICK y \in SendResponse(x, 1) : w = SetState(y, "COMMAND", FALSE, FALSE)
    BY <1>4
  <2>2. Done(x, y) /\ y.state = "COMMAND"
    BY SendResponseDone
  <2>3. Good(y) /\ InCommand(y) /\ Kept(x, y)
    BY <2>2 DEF Done, Mode
  <2>4. Done(y, w)
    BY <2>1, <2>2, <2>3, SettleState
  <2> QED
    BY <2>3, <2>4, DoneTrans
<1>5. CASE w \in Fail(left)
  BY <1>3, <1>5, FailDone, DoneTrans
<1>6. CASE /\ left.port \/ left.pasv
           /\ LET y == [SetState(left, "DATA_CONNECT", FALSE, TRUE) EXCEPT !.send = TRUE]
              IN  w \in NotConnected(y) \cup Connecting(y)
  <2>1. Done(left, w)
    BY <1>3, <1>6, BeginSendDone
  <2> QED
    BY <2>1, <1>3, DoneTrans
<1> QED
  BY <1>2, <1>4, <1>5, <1>6

-----------------------------------------------------------------------------

\* Filling or emptying the buffer is nothing the mode depends on.
LEMMA FilledDone ==
  ASSUME NEW x, Good(x), Mode(x)
  PROVE  Done(x, Filled(x)) /\ Filled(x).state = x.state
<1> DEFINE z == [x EXCEPT !.xfer = "own"]
<1>1. CASE x.xfer = "empty"
  <2>1. Filled(x) = z
    BY <1>1 DEF Filled
  <2>2. z \in Session /\ Untouched(x, z)
    BY DEF Good, Session, XferContents, Untouched, SameTransfer
  <2> QED
    BY <2>1, <2>2, UntouchedDone
<1>2. CASE x.xfer # "empty"
  BY <1>2 DEF Filled, Done, Kept
<1> QED
  BY <1>1, <1>2

LEMMA WrittenDone ==
  ASSUME NEW x, Good(x), Mode(x), NEW w \in Written(x)
  PROVE  Done(x, w)
<1>1. PICK c \in {"empty", x.xfer} : w = [x EXCEPT !.xfer = c, !.stale = FALSE]
  BY DEF Written
<1>2. c \in XferContents
  BY DEF Good, Session, XferContents
<1>3. w \in Session /\ Untouched(x, w)
  BY <1>1, <1>2 DEF Good, Session, Untouched, SameTransfer
<1> QED
  BY <1>3, UntouchedDone

LEMMA StoppedDone ==
  ASSUME NEW x, Good(x), Mode(x), NEW w \in Stopped(x)
  PROVE  Done(x, w)
<1>1. CASE w = x
  BY <1>1 DEF Done, Kept
<1>2. CASE w \in Fail(x)
  BY <1>2, FailDone
<1> QED
  BY <1>1, <1>2 DEF Stopped

\* One call of listTransfer, globTransfer or retrieveTransfer.
LEMMA SendingDone ==
  ASSUME NEW x, Good(x), Mode(x),
         NEW w \in ListGoing(x) \cup ListEnding(x) \cup GlobGoing(x) \cup GlobEnding(x)
                   \cup RetrieveGoing(x) \cup RetrieveEnding(x)
  PROVE  Done(x, w)
<1>1. Good(Filled(x)) /\ Mode(Filled(x)) /\ Kept(x, Filled(x))
  BY FilledDone DEF Done
<1>2. w \in Written(Filled(x)) \cup Stopped(Filled(x)) \cup Stopped(x)
  BY DEF ListGoing, ListEnding, GlobGoing, GlobEnding, RetrieveGoing, RetrieveEnding, Stopped
<1>3. CASE w \in Stopped(x)
  BY <1>3, StoppedDone
<1>4. CASE w \in Written(Filled(x)) \cup Stopped(Filled(x))
  <2>1. Done(Filled(x), w)
    BY <1>1, <1>4, WrittenDone, StoppedDone
  <2> QED
    BY <2>1, <1>1, DoneTrans
<1> QED
  BY <1>2, <1>3, <1>4

\* One call of storeTransfer.
LEMMA StoringDone ==
  ASSUME NEW x, Good(x), Mode(x), NEW w \in StoreGoing(x) \cup StoreEnding(x)
  PROVE  Done(x, w)
<1> DEFINE o == [x EXCEPT !.xfer = "own", !.stale = FALSE]
           y == IF x.xfer = "empty" THEN o ELSE x
           e == [y EXCEPT !.xfer = "empty"]
<1>1. o \in Session /\ Untouched(x, o)
  BY DEF Good, Session, XferContents, Untouched, SameTransfer
<1>2. w \in {y, e} \/ w \in Fail(o) \/ w \in Stopped(x)
  BY DEF StoreGoing, StoreEnding, Stopped
<1> HIDE DEF o
<1>3. Done(x, o)
  BY <1>1, UntouchedDone
<1>4. Done(x, y)
  BY <1>3 DEF Done, Kept
<1> HIDE DEF y
<1>5. e \in Session /\ Untouched(y, e)
  BY <1>4 DEF Done, Good, Session, XferContents, Untouched, SameTransfer
<1> HIDE DEF e
<1>6. Done(x, e)
  BY <1>4, <1>5, UntouchedDone, DoneTrans DEF Done
<1>7. CASE w \in Fail(o)
  BY <1>3, <1>7, FailDone, DoneTrans DEF Done
<1>8. CASE w \in Stopped(x)
  BY <1>8, StoppedDone
<1> QED
  BY <1>2, <1>4, <1>6, <1>7, <1>8

-----------------------------------------------------------------------------

\* The replies of a handler that has set one of its own members first.
LEMMA ReplyAfter ==
  ASSUME NEW x, NEW y, Done(x, y), NEW z \in Session, Untouched(y, z), NEW w \in SendResponse(z, 1)
  PROVE  Done(x, w)
<1>1. Done(x, z)
  BY UntouchedDone, DoneTrans DEF Done
<1>2. Done(z, w)
  BY <1>1, SendResponseDone DEF Done
<1> QED
  BY <1>1, <1>2, DoneTrans DEF Done

\* USER, PASS, REST, RNFR and RNTO: back in COMMAND, one member set, one reply.
LEMMA LoginDone ==
  ASSUME NEW x, Good(x), Mode(x), x.state = "COMMAND",
         NEW w \in USER(x) \cup PASS(x)
  PROVE  Done(x, w)
<1> DEFINE s == SetState(x, "COMMAND", FALSE, FALSE)
           u == [s EXCEPT !.authorizedUser = FALSE]
           p == [s EXCEPT !.authorizedPass = FALSE]
           v == [u EXCEPT !.authorizedUser = TRUE]
           q == [p EXCEPT !.authorizedPass = TRUE]
<1>1. Done(x, s)
  BY SettleState DEF Mode
<1>2. \E z \in {u, v, p, q} : w \in SendResponse(z, 1)
  BY DEF USER, PASS
<1> HIDE DEF s
<1>3. /\ u \in Session /\ Untouched(s, u)
      /\ p \in Session /\ Untouched(s, p)
  BY <1>1 DEF Done, Good, Session, Untouched, SameTransfer
<1> HIDE DEF u, p
<1>4. v \in Session /\ Untouched(u, v)
  BY <1>3 DEF Session, Untouched, SameTransfer
<1>5. q \in Session /\ Untouched(p, q)
  BY <1>3 DEF Session, Untouched, SameTransfer
<1> HIDE DEF v, q
<1>6. Untouched(s, v) /\ Untouched(s, q)
  BY <1>3, <1>4, <1>5 DEF Untouched, SameTransfer
<1> QED
  BY <1>1, <1>2, <1>3, <1>4, <1>5, <1>6, ReplyAfter

LEMMA NameDone ==
  ASSUME NEW x, Good(x), Mode(x), x.state = "COMMAND",
         NEW w \in REST(x) \cup RNFR(x) \cup RNTO(x)
  PROVE  Done(x, w)
<1> DEFINE s == SetState(x, "COMMAND", FALSE, FALSE)
           r == [s EXCEPT !.restart = TRUE]
           n == [s EXCEPT !.rename = TRUE]
           m == [s EXCEPT !.rename = FALSE]
<1>1. Done(x, s)
  BY SettleState DEF Mode
<1>2. w \in Settle(x) \/ \E z \in {s, r, n, m} : w \in SendResponse(z, 1)
  BY DEF REST, RNFR, RNTO, LoggedIn
<1> HIDE DEF s
<1>3. /\ r \in Session /\ Untouched(s, r)
      /\ n \in Session /\ Untouched(s, n)
      /\ m \in Session /\ Untouched(s, m)
      /\ s \in Session /\ Untouched(s, s)
  BY <1>1 DEF Done, Good, Session, Untouched, SameTransfer
<1> HIDE DEF r, n, m
<1>4. CASE w \in Settle(x)
  BY <1>4, SettleDone DEF Mode
<1>5. CASE \E z \in {s, r, n, m} : w \in SendResponse(z, 1)
  BY <1>1, <1>3, <1>5, ReplyAfter
<1> QED
  BY <1>2, <1>4, <1>5

\* setState (State::COMMAND, true, true).
LEMMA CommandState ==
  ASSUME NEW x, Good(x)
  PROVE  LET v == SetState(x, "COMMAND", TRUE, TRUE)
         IN  /\ Good(v) /\ Kept(x, v) /\ v.state = "COMMAND"
             /\ v.pasvSocket = None /\ v.dataSocket = None
             /\ v.recv = FALSE /\ v.send = FALSE /\ ~v.dir
<1> DEFINE v == SetState(x, "COMMAND", TRUE, TRUE)
<1>1. "COMMAND" \in States
  BY DEF States
<1>2. StateSet(x, v, "COMMAND", TRUE, TRUE)
  BY <1>1, SetStateGood
<1> QED
  BY <1>2 DEF StateSet

\* What PASV and PORT start from: the old transfer set-up dropped.
LEMMA DroppedGood ==
  ASSUME NEW x, Good(x)
  PROVE  LET y == Dropped(x)
         IN  /\ Done(x, y)
             /\ y.state = "COMMAND" /\ y.pasvSocket = None /\ y.dataSocket = None
             /\ y.pasv = FALSE /\ y.port = FALSE
<1> DEFINE y == Dropped(x)
           v == SetState(x, "COMMAND", TRUE, TRUE)
<1>2. /\ Good(v) /\ Kept(x, v) /\ v.state = "COMMAND"
      /\ v.pasvSocket = None /\ v.dataSocket = None
      /\ v.recv = FALSE /\ v.send = FALSE /\ ~v.dir
  BY CommandState
<1> HIDE DEF v
<1>3. y = [v EXCEPT !.pasv = FALSE, !.port = FALSE]
  BY DEF v, Dropped
<1> HIDE DEF y
<1>4. /\ y \in Session
      /\ y.commandSocket = v.commandSocket /\ y.pasvSocket = v.pasvSocket
      /\ y.dataSocket = v.dataSocket /\ y.fault = v.fault
      /\ y.pendingCloseSocket = v.pendingCloseSocket
      /\ y.pasv = FALSE /\ y.port = FALSE /\ y.state = v.state
      /\ y.recv = v.recv /\ y.send = v.send /\ y.dir = v.dir
  BY <1>2, <1>3 DEF Good, Session
<1>5. Good(y) /\ Kept(v, y)
  BY <1>2, <1>4 DEF Good, Core, Kept
<1>6. Mode(y)
  BY <1>2, <1>4 DEF Mode, InCommand, InConnect, InTransferring
<1> QED
  BY <1>2, <1>4, <1>5, <1>6, KeptTrans DEF Done, y

LEMMA PORTDone ==
  ASSUME NEW x, Good(x), Mode(x), x.state = "COMMAND", NEW w \in PORT(x)
  PROVE  Done(x, w)
<1> DEFINE y == Dropped(x)
           z == [y EXCEPT !.port = TRUE]
<1>1. /\ Done(x, y)
      /\ y.state = "COMMAND" /\ y.pasvSocket = None /\ y.dataSocket = None
      /\ y.pasv = FALSE /\ y.port = FALSE
  BY DroppedGood
<1>2. w \in Settle(x) \cup SendResponse(y, 1) \cup SendResponse(z, 1)
  BY DEF PORT, LoggedIn
<1> HIDE DEF y
<1>3. /\ z \in Session /\ z.state = "COMMAND" /\ z.pasv = FALSE
      /\ z.commandSocket = y.commandSocket /\ z.pasvSocket = y.pasvSocket
      /\ z.dataSocket = y.dataSocket /\ z.fault = y.fault
      /\ z.pendingCloseSocket = y.pendingCloseSocket
      /\ z.recv = y.recv /\ z.send = y.send /\ z.dir = y.dir
  BY <1>1 DEF Done, Good, Session
<1> HIDE DEF z
<1>4. Good(z) /\ Kept(y, z) /\ Mode(z)
  BY <1>1, <1>3 DEF Done, Good, Core, Kept, Mode, InCommand, InConnect, InTransferring
<1>5. Done(x, z)
  BY <1>1, <1>4, KeptTrans DEF Done
<1>6. CASE w \in Settle(x)
  BY <1>6, SettleDone DEF Mode
<1>7. CASE w \in SendResponse(y, 1)
  <2>1. Done(y, w)
    BY <1>1, <1>7, SendResponseDone DEF Done
  <2> QED
    BY <2>1, <1>1, DoneTrans DEF Done
<1>8. CASE w \in SendResponse(z, 1)
  <2>1. Done(z, w)
    BY <1>5, <1>8, SendResponseDone, SMTT(60) DEF Done
  <2> QED
    BY <2>1, <1>5, DoneTrans DEF Done
<1> QED
  BY <1>2, <1>6, <1>7, <1>8

LEMMA PASVDone ==
  ASSUME NEW x, Good(x), Mode(x), x.state = "COMMAND", NEW w \in PASV(x)
  PROVE  Done(x, w)
<1> DEFINE y == Dropped(x)
           listen(a) == [y EXCEPT !.pasvSocket = a]
<1>1. /\ Done(x, y)
      /\ y.state = "COMMAND" /\ y.pasvSocket = None /\ y.dataSocket = None
      /\ y.pasv = FALSE /\ y.port = FALSE
  BY DroppedGood
<1>2. \/ w \in Settle(x) \cup SendResponse(y, 1)
      \/ \E a \in Free(y) : \/ w = [listen(a) EXCEPT !.fault = "nullCommand"]
                            \/ w \in SendResponse([listen(a) EXCEPT !.pasv = TRUE], 1)
  BY DEF PASV, Listening, LoggedIn
<1> HIDE DEF y
<1>3. CASE w \in Settle(x)
  BY <1>3, SettleDone DEF Mode
<1>4. CASE w \in SendResponse(y, 1)
  <2>1. Done(y, w)
    BY <1>1, <1>4, SendResponseDone DEF Done
  <2> QED
    BY <2>1, <1>1, DoneTrans DEF Done
<1>5. CASE \E a \in Free(y) :
             \/ w = [listen(a) EXCEPT !.fault = "nullCommand"]
             \/ w \in SendResponse([listen(a) EXCEPT !.pasv = TRUE], 1)
  <2>1. PICK a \in Free(y) : \/ w = [listen(a) EXCEPT !.fault = "nullCommand"]
                             \/ w \in SendResponse([listen(a) EXCEPT !.pasv = TRUE], 1)
    BY <1>5
  <2> DEFINE l == listen(a)
             f == [l EXCEPT !.fault = "nullCommand"]
             z == [l EXCEPT !.pasv = TRUE]
  <2>2. a \in Slot /\ a # None /\ a \notin InUse(y)
    BY NoneAssumption DEF Free, Slot
  <2>3. /\ l \in Session /\ l.state = "COMMAND" /\ l.port = FALSE
        /\ l.commandSocket = y.commandSocket /\ l.pasvSocket = a
        /\ l.dataSocket = y.dataSocket /\ l.fault = y.fault
        /\ l.pendingCloseSocket = y.pendingCloseSocket
        /\ l.recv = y.recv /\ l.send = y.send /\ l.dir = y.dir
    BY <1>1, <2>2 DEF Done, Good, Session
  <2> HIDE DEF l
  <2>4. /\ f \in Session /\ f.state = "COMMAND" /\ f.port = FALSE
        /\ f.commandSocket = y.commandSocket /\ f.pasvSocket = a
        /\ f.dataSocket = y.dataSocket /\ f.fault = "nullCommand"
        /\ f.pendingCloseSocket = y.pendingCloseSocket
        /\ f.recv = y.recv /\ f.send = y.send /\ f.dir = y.dir
    BY <2>3 DEF Session, Faults
  <2>5. /\ z \in Session /\ z.state = "COMMAND" /\ z.port = FALSE
        /\ z.commandSocket = y.commandSocket /\ z.pasvSocket = a
        /\ z.dataSocket = y.dataSocket /\ z.fault = y.fault
        /\ z.pendingCloseSocket = y.pendingCloseSocket
        /\ z.recv = y.recv /\ z.send = y.send /\ z.dir = y.dir
    BY <2>3 DEF Session
  <2>6. w = f \/ w \in SendResponse(z, 1)
    BY <2>1 DEF l
  <2> HIDE DEF f, z
  <2>7. Good(f) /\ Kept(y, f) /\ Mode(f)
    BY <1>1, <2>2, <2>4
       DEF InUse, Done, Good, Core, Kept, Mode, InCommand, InConnect, InTransferring
  <2>8. Good(z) /\ Kept(y, z) /\ Mode(z)
    BY <1>1, <2>2, <2>5
       DEF InUse, Done, Good, Core, Kept, Mode, InCommand, InConnect, InTransferring
  <2>9. Kept(x, f) /\ Kept(x, z)
    BY <1>1, <2>7, <2>8, KeptTrans DEF Done
  <2>10. CASE w = f
    BY <2>7, <2>9, <2>10 DEF Done
  <2>11. CASE w \in SendResponse(z, 1)
    <3>1. Done(z, w)
      BY <2>8, <2>11, SendResponseDone
    <3> QED
      BY <3>1, <2>9, DoneTrans
  <2> QED
    BY <2>6, <2>10, <2>11, SMTT(60)
<1> QED
  BY <1>2, <1>3, <1>4, <1>5

\* The handlers that run in every state.
LEMMA AnyStateDone ==
  ASSUME NEW x, Good(x), Mode(x),
         NEW w, \/ w \in ABOR(x) \cup NOOP(x) \cup PWD(x) \cup QUIT(x)
                \/ w \in STAT(x) /\ "STAT" \in Commands
  PROVE  Done(x, w)
<1>1. CASE w \in SendResponse(x, 1) \cup BufferResponse(x)
  BY <1>1, SendResponseDone, BufferResponseDone
<1>2. CASE \E y \in SendResponse(x, 1) : w \in Fail(y)
  <2>1. PICK y \in SendResponse(x, 1) : w \in Fail(y)
    BY <1>2
  <2>2. Done(x, y)
    BY SendResponseDone
  <2>3. Done(y, w)
    BY <2>1, <2>2, FailDone DEF Done
  <2> QED
    BY <2>2, <2>3, DoneTrans DEF Done
<1>3. CASE \E y \in SendResponse(x, 1) : w = CloseCommand(y)
  <2>1. PICK y \in SendResponse(x, 1) : w = CloseCommand(y)
    BY <1>3
  <2>2. Done(x, y)
    BY SendResponseDone
  <2>3. Done(y, w)
    BY <2>1, <2>2, CloseCommandDone DEF Done
  <2> QED
    BY <2>2, <2>3, DoneTrans DEF Done
<1>4. CASE x.state = "COMMAND" /\ w \in Settle(x)
  BY <1>4, SettleDone DEF Mode
<1>5. CASE x.state = "COMMAND" /\ w \in XferDir(x, "STAT") /\ "STAT" \in Commands
  <2>1. "STAT" \in DirModes
    BY DEF DirModes
  <2> QED
    BY <2>1, <1>5, XferDirDone
<1> QED
  BY <1>1, <1>2, <1>3, <1>4, <1>5 DEF ABOR, NOOP, PWD, QUIT, STAT, LoggedIn

\* The transfer commands.
LEMMA TransferCommandDone ==
  ASSUME NEW x, Good(x), Mode(x), x.state = "COMMAND",
         NEW w, \/ w \in APPE(x) \cup RETR(x) \cup STOR(x)
                           \cup LIST(x) \cup MLSD(x) \cup NLST(x)
                \/ w \in MLST(x) /\ "MLST" \in Commands
  PROVE  Done(x, w)
<1>1. CASE w \in Settle(x)
  BY <1>1, SettleDone DEF Mode
<1>2. CASE w \in XferFile(x, "APPE") \cup XferFile(x, "RETR") \cup XferFile(x, "STOR")
  BY <1>2, XferFileDone
<1>3. CASE w \in XferGlob(x)
  BY <1>3, XferGlobDone
<1>4. CASE \E mode \in {"LIST", "MLSD", "MLST", "NLST"} :
             w \in XferDir(x, mode) /\ (mode = "MLST" => mode \in Commands)
  BY <1>4, XferDirDone DEF DirModes
<1> QED
  BY <1>1, <1>2, <1>3, <1>4 DEF APPE, RETR, STOR, LIST, MLSD, MLST, NLST, LoggedIn

\* Every handler leaves the session in a proper mode and keeps the sockets the
\* present events were reported for.
LEMMA HandlerDone ==
  ASSUME NEW x, Good(x), Mode(x), NEW c \in Commands \ {"OTHER"},
         x.state = "COMMAND" \/ c \in DuringTransfer, NEW w \in Handler(c, x)
  PROVE  Done(x, w)
<1>1. CASE c \in DuringTransfer
  <2>1. \/ w \in ABOR(x) \cup NOOP(x) \cup PWD(x) \cup QUIT(x)
        \/ w \in STAT(x) /\ "STAT" \in Commands
    BY <1>1 DEF DuringTransfer, Handler
  <2> QED
    BY <2>1, AnyStateDone
<1>2. CASE c \in {"APPE", "RETR", "STOR", "LIST", "MLSD", "MLST", "NLST"}
  <2>1. \/ w \in APPE(x) \cup RETR(x) \cup STOR(x) \cup LIST(x) \cup MLSD(x) \cup NLST(x)
        \/ w \in MLST(x) /\ "MLST" \in Commands
    BY <1>2 DEF Handler
  <2> QED
    BY <2>1, <1>2, TransferCommandDone DEF DuringTransfer
<1>3. CASE c \in {"USER", "PASS"}
  <2>1. w \in USER(x) \cup PASS(x)
    BY <1>3 DEF Handler
  <2> QED
    BY <2>1, <1>3, LoginDone DEF DuringTransfer
<1>4. CASE c \in {"REST", "RNFR", "RNTO"}
  <2>1. w \in REST(x) \cup RNFR(x) \cup RNTO(x)
    BY <1>4 DEF Handler
  <2> QED
    BY <2>1, <1>4, NameDone DEF DuringTransfer
<1>5. CASE c = "PORT"
  BY <1>5, PORTDone DEF Handler, DuringTransfer
<1>6. CASE c = "PASV"
  BY <1>6, PASVDone DEF Handler, DuringTransfer
<1>7. CASE c \notin DuringTransfer \cup {"APPE", "RETR", "STOR", "LIST", "MLSD", "MLST", "NLST",
                                         "USER", "PASS", "REST", "RNFR", "RNTO", "PORT", "PASV"}
  <2>1. x.state = "COMMAND"
    BY <1>7
  <2>2. w \in ALLO(x) \cup Settle(x)
    <3>1. w \in Settle(x) \cup ALLO(x) \cup LoggedIn(x, Settle(x))
      BY <1>7, CommandsAssumption
         DEF Handler, DuringTransfer, AllCommands, CDUP, CWD, DELE, FEAT, HELP, MDTM, MKD,
             MODE, OPTS, RMD, SITE, SIZE, STOU, STRU, SYST, TYPE
    <3> QED
      BY <3>1 DEF LoggedIn
  <2>3. CASE w \in Settle(x)
    BY <2>1, <2>3, SettleDone DEF Mode
  <2>4. CASE w \in ALLO(x)
    <3>1. PICK y \in SendResponse(x, 1) : w = SetState(y, "COMMAND", FALSE, FALSE)
      BY <2>4 DEF ALLO
    <3>2. Done(x, y) /\ y.state = "COMMAND"
      BY <2>1, SendResponseDone
    <3>3. Good(y) /\ InCommand(y) /\ Kept(x, y)
      BY <3>2 DEF Done, Mode
    <3>4. Done(y, w)
      BY <3>1, <3>2, <3>3, SettleState
    <3> QED
      BY <3>3, <3>4, DoneTrans
  <2> QED
    BY <2>2, <2>3, <2>4
<1> QED
  BY <1>1, <1>2, <1>3, <1>4, <1>5, <1>6, <1>7

-----------------------------------------------------------------------------

\* A fault that the theorems do not exclude.
LEMMA FaultDone ==
  ASSUME NEW x, Good(x), Mode(x), NEW f \in Faults \ {"assert", "nullData"},
         f = "emptyWrite" => Shares
  PROVE  Done(x, [x EXCEPT !.fault = f])
<1> DEFINE y == [x EXCEPT !.fault = f]
<1>1. /\ y \in Session
      /\ y.commandSocket = x.commandSocket /\ y.pasvSocket = x.pasvSocket
      /\ y.dataSocket = x.dataSocket /\ y.fault = f
      /\ y.pendingCloseSocket = x.pendingCloseSocket
      /\ y.pasv = x.pasv /\ y.port = x.port /\ y.state = x.state
      /\ y.recv = x.recv /\ y.send = x.send /\ y.dir = x.dir
      /\ y.transfer = x.transfer /\ y.xferDirMode = x.xferDirMode
  BY DEF Good, Session
<1> HIDE DEF y
<1>2. Good(y) /\ Kept(x, y)
  BY <1>1 DEF Good, Core, Kept
<1>3. Mode(y)
  BY <1>1 DEF Mode, InCommand, InConnect, InTransferring
<1> QED
  BY <1>2, <1>3 DEF Done, y

\* Sockets of events reported ready for output survive a step that keeps them.
LEMMA EntriesKept ==
  ASSUME TypeOK, OutputEntriesKept, Kept(session, session'),
         reported' = reported \/ (reported # <<>> /\ reported' = Tail(reported))
  PROVE  OutputEntriesKept'
<1> SUFFICES ASSUME NEW i \in 1..Len(reported'), "OUT" \in reported'[i].revents
             PROVE  reported'[i].sock \in {session'.commandSocket, session'.dataSocket}
                                          \cup session'.pendingCloseSocket
  BY DEF OutputEntriesKept
<1>1. \E j \in 1..Len(reported) : reported'[i] = reported[j]
  <2>1. CASE reported' = reported
    BY <2>1
  <2>2. CASE reported # <<>> /\ reported' = Tail(reported)
    <3>1. reported \in Seq(Entry)
      BY DEF TypeOK
    <3> DEFINE t == Tail(reported)
    <3>2. /\ Len(t) = Len(reported) - 1
          /\ \A k \in 1..Len(t) : t[k] = reported[k + 1]
      BY <2>2, <3>1
    <3>3. i \in 1..Len(t) /\ reported'[i] = t[i]
      BY <2>2
    <3>4. Len(reported) \in Nat
      BY <3>1
    <3> HIDE DEF t
    <3>5. i + 1 \in 1..Len(reported) /\ reported'[i] = reported[i + 1]
      BY <3>2, <3>3, <3>4
    <3> QED
      BY <3>5
  <2> QED
    BY <2>1, <2>2
<1>2. PICK j \in 1..Len(reported) : reported'[i] = reported[j]
  BY <1>1
<1>3. reported[j] \in Entry
  BY DEF TypeOK
<1>4. reported[j].sock \in Addr
  BY <1>3 DEF Entry
<1>5. reported[j].sock \in {session.commandSocket, session.dataSocket}
                             \cup session.pendingCloseSocket
  BY <1>2 DEF OutputEntriesKept
<1> QED
  BY <1>2, <1>4, <1>5, NoneAssumption DEF Kept

\* An entry that is not yet looked at still names the command socket only if it did; and if the
\* first is done with, it does not.
LEMMA CommandEntryKept ==
  ASSUME TypeOK, CommandEntryOnce, Kept(session, session'),
         \/ reported' = reported /\ pc' # "entry"
         \/ reported # <<>> /\ reported' = Tail(reported)
  PROVE  CommandEntryOnce'
<1> SUFFICES ASSUME NEW i \in 1..Len(reported'), reported'[i].sock = session'.commandSocket, ~Shares
             PROVE  i = 1 /\ pc' # "entry"
  BY DEF CommandEntryOnce, Shares
<1>1. reported \in Seq(Entry) /\ Len(reported) \in Nat
  BY DEF TypeOK
<1>2. ASSUME NEW j \in 1..Len(reported), reported'[i] = reported[j] PROVE j = 1
  <2>1. reported[j] \in Entry
    BY <1>1
  <2>2. reported[j].sock \in Addr
    BY <2>1 DEF Entry
  <2>3. reported[j].sock = session.commandSocket
    BY <1>2, <2>2, NoneAssumption DEF Kept
  <2> QED BY <2>3 DEF CommandEntryOnce
<1>3. CASE reported' = reported /\ pc' # "entry"
  BY <1>2, <1>3
<1>4. CASE reported # <<>> /\ reported' = Tail(reported)
  <2> DEFINE t == Tail(reported)
  <2>1. Len(t) = Len(reported) - 1 /\ \A k \in 1..Len(t) : t[k] = reported[k + 1]
    BY <1>1, <1>4
  <2>2. i \in 1..Len(t) /\ reported'[i] = t[i]
    BY <1>4
  <2> HIDE DEF t
  <2>3. i + 1 \in 1..Len(reported) /\ i + 1 # 1 /\ reported'[i] = reported[i + 1]
    BY <1>1, <2>1, <2>2
  <2> QED BY <1>2, <2>3
<1> QED BY <1>3, <1>4

\* A data socket that is kept but no longer in its slot waits for its peer.
LEMMA KeptShutDown ==
  ASSUME Kept(session, session')
  PROVE  ShutDown
BY DEF Kept, ShutDown

\* Every step inside poll but the idle test.
LEMMA InsideStep ==
  ASSUME IndInv, pc \notin {"poll", "reaped"}, Done(session, session'),
         reported # <<>>, reported' = IF pc' = "entry" THEN Tail(reported) ELSE reported,
         pc' \in Places \ {"poll", "reaped"},
         handled' = handled, batch' \in 0..MaxBatch,
         pc' = "commands" => batch' > 0
  PROVE  IndInv' /\ ShutDown
<1>1. OutputEntriesKept'
  BY EntriesKept DEF IndInv, Done
<1>2. Good(session') /\ Mode(session')
  BY DEF Done
<1>3. session' \in Session /\ Core(session') /\ InCommand(session')
  BY <1>2 DEF Good, Mode
<1>4. reported' \in Seq(Entry)
  BY DEF IndInv, TypeOK
<1>5. TypeOK'
  BY <1>3, <1>4 DEF IndInv, TypeOK
<1>6. ControlOK'
  BY DEF ControlOK
<1>7. ShutDown
  BY KeptShutDown DEF Done
<1>8. CommandEntryOnce'
  BY CommandEntryKept DEF IndInv, Done
<1> QED
  BY <1>1, <1>2, <1>3, <1>5, <1>6, <1>7, <1>8 DEF IndInv

\* What IndInv says at an entry.
LEMMA Inside ==
  ASSUME IndInv, pc \notin {"poll", "reaped"}
  PROVE  /\ Good(session) /\ Mode(session)
         /\ reported \in Seq(Entry)
         /\ handled \in BOOLEAN /\ batch \in 0..MaxBatch
BY DEF IndInv, Good, TypeOK

\* The command socket's part of an entry.
LEMMA WriteResponseStep ==
  ASSUME IndInv, WriteResponse
  PROVE  IndInv' /\ ShutDown
<1>1. /\ pc = "entry" /\ reported # <<>>
      /\ UNCHANGED <<reported, handled, batch>>
      /\ pc' \in {"read", "hangup", "data"}
  BY DEF WriteResponse, AtCommandSocket, AfterWrite
<1>2. Good(session) /\ Mode(session) /\ batch \in 0..MaxBatch
  BY <1>1, Inside
<1>3. Done(session, session')
  <2>1. CASE session' = [session EXCEPT !.response = FALSE, !.stale = FALSE]
    <3>1. session' \in Session /\ Untouched(session, session')
      BY <1>2, <2>1 DEF Good, Session, Untouched, SameTransfer
    <3> QED
      BY <1>2, <3>1, UntouchedDone
  <2>2. CASE session' = [session EXCEPT !.stale = FALSE]
    <3>1. session' \in Session /\ Untouched(session, session')
      BY <1>2, <2>2 DEF Good, Session, Untouched, SameTransfer
    <3> QED
      BY <1>2, <3>1, UntouchedDone
  <2>3. CASE session' = CloseCommand(session)
    BY <1>2, <2>3, CloseCommandDone
  <2>4. CASE ~session.response /\ "OUT" \in revents /\ session' = [session EXCEPT !.fault = "emptyWrite"]
    <3>1. reported \in Seq(Entry) /\ 1 \in 1..Len(reported) /\ Head(reported) = reported[1]
      BY <1>1, Inside
    <3>2. reported[1].sock = session.commandSocket /\ "OUT" \in reported[1].revents
      BY <2>4, <3>1 DEF WriteResponse, AtCommandSocket, revents
    <3>3. Shares
      BY <1>1, <2>4, <3>1, <3>2, Zenon DEF IndInv, CommandEntryOnce
    <3> QED
      BY <1>2, <2>4, <3>3, FaultDone DEF Faults
  <2>5. CASE session' = session
    BY <1>2, <2>5 DEF Done, Kept
  <2> QED
    BY <2>1, <2>2, <2>3, <2>4, <2>5 DEF WriteResponse
<1> QED
  BY <1>1, <1>2, <1>3, InsideStep DEF Places

\* Reading from the command socket changes nothing of the transfer.
LEMMA ReadDone ==
  ASSUME NEW x, Good(x), Mode(x), NEW y,
         \/ y = CloseCommand(x)
         \/ y = CloseCommand([x EXCEPT !.urgent = TRUE])
         \/ y = [x EXCEPT !.fault = "nullCommand"]
         \/ y = [x EXCEPT !.fault = "nullCommand", !.urgent = TRUE]
         \/ y = [x EXCEPT !.stale = FALSE]
         \/ y = [x EXCEPT !.stale = FALSE, !.urgent = FALSE]
         \/ y = [[x EXCEPT !.urgent = TRUE] EXCEPT !.stale = FALSE]
  PROVE  Done(x, y)
<1> DEFINE u == [x EXCEPT !.urgent = TRUE]
           f == [x EXCEPT !.fault = "nullCommand"]
           g == [x EXCEPT !.fault = "nullCommand", !.urgent = TRUE]
           s == [u EXCEPT !.stale = FALSE]
<1>1. u \in Session /\ Untouched(x, u)
  BY DEF Good, Session, Untouched, SameTransfer
<1>2. f \in Session /\ Done(x, f)
  BY FaultDone DEF Faults, Done, Good
<1>3. g \in Session /\ Untouched(f, g)
  BY DEF Good, Session, Faults, Untouched, SameTransfer
<1> HIDE DEF u, f, g
<1>4. s \in Session /\ Untouched(u, s)
  BY <1>1 DEF Session, Untouched, SameTransfer
<1> HIDE DEF s
<1>5. Done(x, u)
  BY <1>1, UntouchedDone
<1>6. CASE y = CloseCommand(x)
  BY <1>6, CloseCommandDone
<1>7. CASE y = CloseCommand(u)
  BY <1>5, <1>7, CloseCommandDone, DoneTrans DEF Done
<1>8. CASE y = f
  BY <1>2, <1>8
<1>9. CASE y = g
  BY <1>2, <1>3, <1>9, UntouchedDone, DoneTrans DEF Done
<1>10. CASE y = [x EXCEPT !.stale = FALSE]
  <2>1. y \in Session /\ Untouched(x, y)
    BY <1>10 DEF Good, Session, Untouched, SameTransfer
  <2> QED
    BY <2>1, UntouchedDone
<1>11. CASE y = [x EXCEPT !.stale = FALSE, !.urgent = FALSE]
  <2>1. y \in Session /\ Untouched(x, y)
    BY <1>11 DEF Good, Session, Untouched, SameTransfer
  <2> QED
    BY <2>1, UntouchedDone
<1>12. CASE y = s
  BY <1>4, <1>5, <1>12, UntouchedDone, DoneTrans DEF Done
<1> QED
  BY <1>6, <1>7, <1>8, <1>9, <1>10, <1>11, <1>12 DEF u, f, g, s

LEMMA ReadUrgentStep ==
  ASSUME IndInv, ReadUrgent
  PROVE  IndInv' /\ ShutDown
<1>1. /\ pc = "read"
      /\ UNCHANGED <<reported, handled, batch>>
      /\ pc' \in {"hangup", "data"}
  BY DEF ReadUrgent, AfterRead
<1>2. Good(session) /\ Mode(session) /\ batch \in 0..MaxBatch
  BY <1>1, Inside
<1>3. reported # <<>>
  BY <1>1, SMTT(60) DEF IndInv, ControlOK
<1>4. Done(session, session')
  BY <1>2, ReadDone DEF ReadUrgent
<1> QED
  BY <1>1, <1>2, <1>3, <1>4, InsideStep DEF Places

LEMMA ReadCommandStep ==
  ASSUME IndInv, ReadCommand
  PROVE  IndInv' /\ ShutDown
<1>1. /\ pc = "read"
      /\ UNCHANGED <<reported, handled>>
      /\ pc' \in {"hangup", "data"} \/ (pc' = "commands" /\ batch' # 0)
      /\ batch' = batch \/ batch' \in 0..MaxBatch
  BY DEF ReadCommand, AfterRead
<1>2. Good(session) /\ Mode(session) /\ batch \in 0..MaxBatch
  BY <1>1, Inside
<1>3. reported # <<>>
  BY <1>1, SMTT(60) DEF IndInv, ControlOK
<1>4. Done(session, session')
  BY <1>2, ReadDone DEF ReadCommand
<1>5. batch' \in 0..MaxBatch /\ (pc' = "commands" => batch' > 0)
  BY <1>1, <1>2
<1> QED
  BY <1>1, <1>2, <1>3, <1>4, <1>5, InsideStep DEF Places

\* One command of the batch.
LEMMA CommandStepKeeps ==
  ASSUME IndInv, pc = "commands", NextCommand, Done(session, session')
  PROVE  IndInv' /\ ShutDown
<1>1. reported # <<>> /\ batch > 0
  BY DEF IndInv, ControlOK
<1>2. batch \in 0..MaxBatch
  BY Inside
<1>3. /\ batch' = batch - 1
      /\ pc' \in {"hangup", "data", "commands"}
      /\ pc' = "commands" => batch # 1
      /\ UNCHANGED <<reported, handled>>
  BY DEF NextCommand, AfterRead
<1>4. batch' \in 0..MaxBatch /\ (pc' = "commands" => batch' > 0)
  BY <1>1, <1>2, <1>3, MaxBatchAssumption
<1> QED
  BY <1>1, <1>3, <1>4, InsideStep DEF Places

LEMMA TakenDone ==
  ASSUME Good(session), Mode(session)
  PROVE  Done(session, Taken) /\ Taken.state = session.state
<1> DEFINE n == IF session.commandSocket = None THEN 0 ELSE session.owed + 1
<1>1. n \in Count
  BY DEF Good, Session, Count
<1>2. Taken = [session EXCEPT !.stale = FALSE, !.owed = n]
  BY DEF Taken
<1> HIDE DEF n
<1>3. Taken \in Session /\ Untouched(session, Taken)
  BY <1>1, <1>2 DEF Good, Session, Untouched, SameTransfer
<1> QED
  BY <1>3, UntouchedDone

LEMMA UnknownCommandStep ==
  ASSUME IndInv, UnknownCommand
  PROVE  IndInv' /\ ShutDown
<1>1. pc = "commands" /\ NextCommand /\ session' \in BufferResponse(Taken)
  BY DEF UnknownCommand
<1>2. Good(session) /\ Mode(session)
  BY <1>1, Inside
<1>3. Done(session, Taken)
  BY <1>2, TakenDone
<1>4. Done(Taken, session')
  BY <1>1, <1>3, BufferResponseDone DEF Done
<1>5. Done(session, session')
  BY <1>3, <1>4, DoneTrans DEF Done
<1> QED
  BY <1>1, <1>5, CommandStepKeeps

LEMMA CommandsStep ==
  ASSUME IndInv, NEW c \in Commands, RefuseCommand(c) \/ ExecuteCommand(c)
  PROVE  IndInv' /\ ShutDown
<1>1. pc = "commands" /\ NextCommand
  BY DEF RefuseCommand, ExecuteCommand
<1>2. Good(session) /\ Mode(session)
  BY <1>1, Inside
<1>3. Done(session, Taken) /\ Taken.state = session.state
  BY <1>2, TakenDone
<1>4. Done(session, session')
  <2>2. CASE RefuseCommand(c)
    <3>1. PICK x \in Fail(Taken) : session' = CloseCommand(x)
      BY <2>2 DEF RefuseCommand
    <3>2. Done(Taken, x)
      BY <1>3, <3>1, FailDone DEF Done
    <3>3. Done(x, session')
      BY <3>1, <3>2, CloseCommandDone DEF Done
    <3>4. Done(Taken, session')
      BY <3>2, <3>3, DoneTrans DEF Done
    <3> QED
      BY <3>4, <1>3, DoneTrans DEF Done
  <2>3. CASE ExecuteCommand(c)
    <3> DEFINE r == [Taken EXCEPT !.rename = FALSE]
    <3>1. r \in Session /\ Untouched(Taken, r)
      BY <1>3 DEF Done, Good, Session, Untouched, SameTransfer
    <3>2. Done(Taken, r) /\ r.state = Taken.state
      BY <1>3, <3>1, UntouchedDone DEF Done
    <3> HIDE DEF r
    <3>3. Done(session, r)
      BY <1>3, <3>2, DoneTrans DEF Done
    <3>4. c \in Commands \ {"OTHER"}
      BY <2>3 DEF ExecuteCommand
    <3>5. PICK x \in {Taken, r} : /\ session' \in Handler(c, x)
                                  /\ session.state = "COMMAND" \/ c \in DuringTransfer
      BY <2>3 DEF ExecuteCommand, r
    <3>6. Done(session, x) /\ x.state = session.state
      BY <3>2, <3>3, <3>5, <1>3
    <3>7. Done(x, session')
      BY <3>4, <3>5, <3>6, HandlerDone DEF Done
    <3> QED
      BY <3>6, <3>7, DoneTrans DEF Done
  <2> QED
    BY <2>2, <2>3
<1> QED
  BY <1>1, <1>4, CommandStepKeeps

LEMMA HangUpStep ==
  ASSUME IndInv, HangUp
  PROVE  IndInv' /\ ShutDown
<1>1. pc = "hangup" /\ pc' = "data" /\ UNCHANGED <<reported, handled, batch>>
  BY DEF HangUp
<1>2. Good(session) /\ Mode(session) /\ batch \in 0..MaxBatch
  BY <1>1, Inside
<1>3. reported # <<>>
  BY <1>1 DEF IndInv, ControlOK
<1>4. Done(session, session')
  BY <1>2, CloseCommandDone DEF HangUp
<1> QED
  BY <1>1, <1>2, <1>3, <1>4, InsideStep DEF Places

-----------------------------------------------------------------------------

\* A step of the data socket's part of an entry that finishes the entry.
LEMMA NextEntryKeeps ==
  ASSUME IndInv, pc \in {"data", "entry", "transfer"}, reported # <<>>, NextEntry,
         Done(session, session')
  PROVE  IndInv' /\ ShutDown
<1>1. batch \in 0..MaxBatch
  BY Inside
<1>2. reported' = Tail(reported) /\ pc' = "entry" /\ UNCHANGED <<handled, batch>>
  BY DEF NextEntry
<1> QED
  BY <1>1, <1>2, InsideStep DEF Places

\* An event of the awaited data connection: a PASV connection is taken from the
\* listening socket that is still there, and a PORT connection that is reported
\* ready for output is still the data socket.
LEMMA DataConnectEventStep ==
  ASSUME IndInv, DataConnectEvent
  PROVE  IndInv' /\ ShutDown
<1>1. /\ pc \in {"data", "entry", "transfer"} /\ reported # <<>> /\ NextEntry
      /\ IsData /\ session.state = "DATA_CONNECT"
      /\ session' \in Connected(session, revents)
  BY DEF DataConnectEvent, AtData
<1>2. Good(session) /\ Mode(session) /\ reported \in Seq(Entry)
  BY <1>1, Inside
<1>3. Head(reported) = reported[1] /\ 1 \in 1..Len(reported) /\ reported[1] \in Entry
  BY <1>1, <1>2
<1>4. Head(reported).sock \in Addr /\ Head(reported).sock # None
  BY <1>3, NoneAssumption DEF Entry
<1>5. session.pasvSocket # None \/ session.dataSocket # None
  BY <1>1, <1>4 DEF IsData
<1>6. ASSUME "OUT" \in revents
      PROVE  session.dataSocket # None /\ session.dataSocket # session.commandSocket
  <2>1. Head(reported).sock \in {session.commandSocket, session.dataSocket}
                                 \cup session.pendingCloseSocket
    BY <1>3, <1>6 DEF IndInv, OutputEntriesKept, revents
  <2>2. Head(reported).sock # session.pasvSocket
    BY <2>1, <1>2, <1>4 DEF Good, Core
  <2>3. session.dataSocket # None
    BY <2>2, <1>1, <1>4 DEF IsData
  <2> QED
    BY <2>3, <1>1, <1>2 DEF Mode, InConnect
<1>7. Done(session, session')
  <2>1. CASE session' \in Fail(session)
    BY <2>1, <1>2, FailDone
  <2>2. CASE session' \in DataAccept(session)
    BY <2>2, <1>1, <1>2, <1>5, DataAcceptDone
  <2>3. CASE session' = session
    BY <2>3, <1>2 DEF Done, Kept
  <2>4. CASE "OUT" \in revents /\ session' \in Ready(session)
    <3>1. /\ Good(session') /\ Kept(session, session')
          /\ session'.state = "DATA_TRANSFER" /\ session'.pasvSocket = None
          /\ session'.dataSocket # None /\ session'.dataSocket # session'.commandSocket
          /\ session'.recv = session.recv /\ session'.send = session.send
      BY <2>4, <1>2, <1>6, ReadyGood
    <3>2. Mode(session')
      BY <3>1, <1>1, <1>2 DEF Mode, InCommand, InConnect, InTransferring
    <3> QED
      BY <3>1, <3>2 DEF Done
  <2> QED
    BY <1>1, <1>6, <2>1, <2>2, <2>3, <2>4 DEF Connected
<1> QED
  BY <1>1, <1>7, NextEntryKeeps

LEMMA DataEventStep ==
  ASSUME IndInv, NotData \/ DataInCommand \/ DataTransferEvent
  PROVE  IndInv' /\ ShutDown
<1>1. pc \in {"data", "entry", "transfer"} /\ reported # <<>>
  BY DEF NotData, DataInCommand, DataTransferEvent, AtData
<1>2. Good(session) /\ Mode(session) /\ batch \in 0..MaxBatch
  BY <1>1, Inside
<1>3. CASE NotData
  <2>1. Done(session, session')
    BY <1>2, <1>3 DEF NotData, Done, Kept
  <2> QED
    BY <1>1, <1>3, <2>1, NextEntryKeeps DEF NotData
<1>4. CASE DataInCommand
  <2>1. Done(session, session')
    BY <1>2, <1>4, FaultDone DEF DataInCommand, Faults
  <2> QED
    BY <1>1, <1>4, <2>1, NextEntryKeeps DEF DataInCommand
<1>5. CASE DataTransferEvent
  <2>1. CASE NextEntry
    <3>1. Done(session, session')
      <4>1. session' = session \/ session' \in Fail(session)
        BY <1>5 DEF DataTransferEvent
      <4>2. Done(session, session)
        BY <1>2 DEF Done, Kept
      <4> QED
        BY <1>2, <4>1, <4>2, FailDone
    <3> QED
      BY <1>1, <2>1, <3>1, NextEntryKeeps
  <2>2. CASE ~NextEntry
    <3>1. pc' = "transfer" /\ UNCHANGED <<session, reported, handled, batch>>
      BY <1>5, <2>2 DEF DataTransferEvent
    <3>2. Done(session, session')
      BY <1>2, <3>1 DEF Done, Kept
    <3> QED
      BY <1>1, <1>2, <3>1, <3>2, InsideStep DEF Places
  <2> QED
    BY <2>1, <2>2
<1> QED
  BY <1>3, <1>4, <1>5

LEMMA TransferStepKeeps ==
  ASSUME IndInv, TransferStep
  PROVE  IndInv' /\ ShutDown
<1>1. pc = "transfer" /\ (GoOn \/ NextEntry)
  BY DEF TransferStep, ListTransfer, GlobTransfer, RetrieveTransfer, StoreTransfer, InTransfer
<1>2. Good(session) /\ Mode(session) /\ batch \in 0..MaxBatch
  BY <1>1, Inside
<1>3. reported # <<>>
  BY <1>1 DEF IndInv, ControlOK
<1>4. Done(session, session')
  BY <1>2, SendingDone, StoringDone
     DEF TransferStep, ListTransfer, GlobTransfer, RetrieveTransfer, StoreTransfer
<1>5. CASE NextEntry
  BY <1>1, <1>3, <1>4, <1>5, NextEntryKeeps
<1>6. CASE pc' = "transfer" /\ UNCHANGED <<reported, handled, batch>>
  BY <1>1, <1>2, <1>3, <1>4, <1>6, InsideStep DEF Places
<1> QED
  BY <1>1, <1>5, <1>6 DEF GoOn

-----------------------------------------------------------------------------

\* Closing all three sockets.
LEMMA AllClosed ==
  ASSUME NEW x, Good(x), InCommand(x)
  PROVE  LET y == CloseData(ClosePasv(CloseCommand(x)))
         IN  Good(y) /\ InCommand(y) /\ Dead(y) /\ Kept(x, y)
<1> DEFINE c == CloseCommand(x)
           p == ClosePasv(c)
           y == CloseData(p)
<1>1. /\ Good(c) /\ c.commandSocket = None /\ c.state = x.state /\ c.dir = x.dir
      /\ Kept(x, c)
  BY CloseCommandGood DEF SameTransfer
<1> HIDE DEF c
<1>2. /\ Good(p) /\ p.commandSocket = None /\ p.pasvSocket = None
      /\ p.state = c.state /\ p.dir = c.dir
      /\ p.dataSocket = c.dataSocket /\ p.pendingCloseSocket = c.pendingCloseSocket
  BY <1>1, ClosePasvGood
<1> HIDE DEF p
<1>3. /\ Good(y) /\ y.commandSocket = None /\ y.pasvSocket = None
      /\ y.dataSocket = None /\ ~y.recv /\ ~y.send
      /\ y.state = p.state /\ y.dir = p.dir
      /\ Kept(p, y)
  BY <1>2, CloseDataGood
<1> HIDE DEF y
<1>4. InCommand(y) /\ Dead(y)
  BY <1>1, <1>2, <1>3 DEF InCommand, Dead
<1>5. Kept(c, p)
  BY <1>1, <1>2 DEF Kept
<1>6. Kept(x, y)
  BY <1>1, <1>3, <1>5, KeptTrans
<1> QED
  BY <1>3, <1>4, <1>6 DEF y, p, c

\* A step that leaves poll, or the destruction: no entries are left.
LEMMA OutsideStep ==
  ASSUME IndInv, Good(session'), InCommand(session'), Mode(session') \/ Dead(session'),
         pc' \in {"poll", "reaped"}, reported' = <<>>, handled' \in BOOLEAN, batch' = batch,
         ShutDown
  PROVE  IndInv' /\ ShutDown
<1>1. session' \in Session /\ Core(session')
  BY DEF Good
<1>2. TypeOK'
  BY <1>1 DEF IndInv, TypeOK, Places
<1>3. OutputEntriesKept' /\ CommandEntryOnce'
  BY DEF OutputEntriesKept, CommandEntryOnce
<1>4. ControlOK'
  BY DEF ControlOK
<1> QED
  BY <1>1, <1>2, <1>3, <1>4 DEF IndInv

LEMMA IdleTestStep ==
  ASSUME IndInv, IdleTest
  PROVE  IndInv' /\ ShutDown
<1>1. /\ pc = "entry" /\ pc' = "poll" /\ reported = <<>>
      /\ UNCHANGED <<reported, handled, batch>>
      /\ session' \in {session, CloseData(ClosePasv(CloseCommand(session)))}
  BY DEF IdleTest
<1>2. Good(session) /\ Mode(session) /\ handled \in BOOLEAN
  BY <1>1, Inside
<1>3. InCommand(session)
  BY <1>2 DEF Mode
<1>4. Good(session') /\ InCommand(session') /\ (Mode(session') \/ Dead(session'))
  BY <1>1, <1>2, <1>3, AllClosed
<1>5. Kept(session, session')
  BY <1>1, <1>2, <1>3, AllClosed DEF Kept
<1> QED
  BY <1>1, <1>2, <1>4, <1>5, KeptShutDown, OutsideStep

\* Dropping pending sockets.
LEMMA PendingDropped ==
  ASSUME NEW x, Good(x), NEW P, P \subseteq x.pendingCloseSocket
  PROVE  LET y == [x EXCEPT !.pendingCloseSocket = P]
         IN  /\ Good(y)
             /\ y.pendingCloseSocket = P
             /\ y.commandSocket = x.commandSocket
             /\ SameTransfer(x, y)
             /\ y.stale = x.stale /\ y.response = x.response
<1> DEFINE y == [x EXCEPT !.pendingCloseSocket = P]
<1>1. P \subseteq Addr
  BY DEF Good, Session
<1>2. y \in Session
  BY <1>1 DEF Good, Session
<1>3. /\ y.pendingCloseSocket = P /\ y.commandSocket = x.commandSocket
      /\ SameTransfer(x, y) /\ y.stale = x.stale /\ y.response = x.response
  BY DEF Good, Session, SameTransfer
<1> HIDE DEF y
<1>4. Core(y)
  BY <1>3 DEF Good, Core, SameTransfer
<1> QED
  BY <1>2, <1>3, <1>4 DEF Good, y

LEMMA ReapStep ==
  ASSUME IndInv, Reap \/ Destroy
  PROVE  IndInv' /\ ShutDown
<1>1. /\ pc = "poll" /\ pc' = "reaped" /\ UNCHANGED <<reported, handled, batch>>
      /\ \/ Dead(session) /\ session' = [session EXCEPT !.pendingCloseSocket = {}]
         \/ session' = [CloseData(ClosePasv(CloseCommand(session)))
                           EXCEPT !.pendingCloseSocket = {}]
  BY DEF Reap, Destroy
<1>2. Good(session) /\ InCommand(session) /\ handled \in BOOLEAN /\ reported = <<>>
  BY <1>1 DEF IndInv, Good, TypeOK, ControlOK
<1>3. PICK x : /\ Good(x) /\ InCommand(x) /\ Dead(x)
               /\ session' = [x EXCEPT !.pendingCloseSocket = {}]
  BY <1>1, <1>2, AllClosed
<1>4. /\ Good(session') /\ SameTransfer(x, session')
      /\ session'.commandSocket = x.commandSocket
  BY <1>3, PendingDropped
<1>5. InCommand(session') /\ Dead(session')
  BY <1>3, <1>4 DEF InCommand, Dead, SameTransfer
<1>6. ShutDown
  BY <1>1 DEF ShutDown
<1> QED
  BY <1>1, <1>2, <1>4, <1>5, <1>6, OutsideStep

\* The asserts and dereferences made while pollInfo is built.
LEMMA NoAssertFault ==
  ASSUME NEW x, Good(x), Mode(x), x.commandSocket # None \/ x.dataSocket # None
                                    \/ x.state # "DATA_TRANSFER"
  PROVE  PollFault(x) \in {"none", "nullPasv"}
<1>1. CASE x.state = "DATA_CONNECT"
  BY <1>1 DEF PollFault, Good, Core, Mode, InConnect, Session
<1>2. CASE x.state = "DATA_TRANSFER"
  BY <1>2 DEF PollFault, Mode, InTransferring
<1>3. CASE x.state = "COMMAND"
  BY <1>3 DEF PollFault
<1> QED
  BY <1>1, <1>2, <1>3 DEF Good, Session, States

\* What ::poll reports of one socket: entries for it, ready for output only if asked.
LEMMA ReportsType ==
  ASSUME NEW a \in Addr, NEW E \in SUBSET {"IN", "PRI", "OUT"}, NEW r \in Reports(a, E)
  PROVE  /\ r \in Seq(Entry) /\ Len(r) \in {0, 1}
         /\ \A i \in 1..Len(r) : r[i].sock = a /\ ("OUT" \in r[i].revents => "OUT" \in E)
<1>1. CASE r = <<>>
  BY <1>1
<1>2. CASE r # <<>>
  <2>1. PICK e \in SUBSET (E \cup {"ERR"}) : r = <<[sock |-> a, revents |-> e]>>
    BY <1>2 DEF Reports
  <2>2. e \subseteq Events
    BY <2>1 DEF Events
  <2> DEFINE n == [sock |-> a, revents |-> e]
  <2>3. n \in Entry /\ n.sock = a /\ n.revents = e
    BY <2>2 DEF Entry
  <2> HIDE DEF n
  <2>4. r = <<n>>
    BY <2>1 DEF n
  <2> QED
    BY <2>1, <2>3, <2>4
<1> QED
  BY <1>1, <1>2

\* What ::poll reports of the whole session.
LEMMA PolledType ==
  ASSUME NEW x, Good(x), Mode(x), PollFault(x) = "none", NEW c \in CommandReports(x), NEW d \in DataReports(x)
  PROVE  /\ c \o d \in Seq(Entry)
         /\ \A i \in 1..Len(c \o d) :
              "OUT" \in (c \o d)[i].revents =>
                (c \o d)[i].sock \in {x.commandSocket, x.dataSocket}
         /\ \A i \in 1..Len(c \o d) :
              (c \o d)[i].sock = x.commandSocket =>
                Shares \/ (i = 1 /\ ("OUT" \in (c \o d)[i].revents => x.response))
<1>1. /\ c \in Seq(Entry) /\ Len(c) \in {0, 1}
      /\ \A i \in 1..Len(c) :
           c[i].sock = x.commandSocket /\ ("OUT" \in c[i].revents => x.response)
  <2>1. CASE x.commandSocket = None
    BY <2>1 DEF CommandReports
  <2>2. CASE x.commandSocket # None
    <3> DEFINE E == {"IN", "PRI"} \cup (IF x.response THEN {"OUT"} ELSE {})
    <3>1. x.commandSocket \in Addr /\ E \in SUBSET {"IN", "PRI", "OUT"}
      BY <2>2 DEF Good, Session, Slot
    <3>2. c \in Reports(x.commandSocket, E)
      BY <2>2 DEF CommandReports
    <3>3. "OUT" \in E => x.response
      BY DEF Good, Session
    <3> HIDE DEF E
    <3> QED
      BY <3>1, <3>2, <3>3, ReportsType
  <2> QED
    BY <2>1, <2>2
<1>2. /\ d \in Seq(Entry)
      /\ \A i \in 1..Len(d) : "OUT" \in d[i].revents => d[i].sock = x.dataSocket
      /\ \A i \in 1..Len(d) : d[i].sock = x.commandSocket => Shares
  <2>1. CASE DataPolled(x) = {}
    BY <2>1 DEF DataReports
  <2>2. CASE DataPolled(x) # {}
    <3>1. PICK p \in DataPolled(x) : d \in Reports(p[1], {p[2]})
      BY <2>2 DEF DataReports
    <3>2. x.state \in {"DATA_CONNECT", "DATA_TRANSFER"}
      BY <2>2 DEF DataPolled
    <3>3. /\ p[1] \in Slot \ {None} /\ p[2] \in {"IN", "OUT"}
          /\ p[2] = "OUT" => p[1] = x.dataSocket
      <4>1. CASE x.state = "DATA_CONNECT" /\ x.pasv
        BY <4>1, <3>1 DEF DataPolled, PollFault, Good, Session
      <4>2. CASE x.state = "DATA_CONNECT" /\ ~x.pasv
        BY <4>2, <3>1 DEF DataPolled, PollFault, Good, Session
      <4>3. CASE x.state = "DATA_TRANSFER"
        BY <4>3, <3>1 DEF DataPolled, PollFault, Good, Session
      <4> QED
        BY <3>2, <4>1, <4>2, <4>3
    <3>4. p[1] \in Addr /\ {p[2]} \in SUBSET {"IN", "PRI", "OUT"}
      BY <3>3 DEF Slot
    <3>5. /\ d \in Seq(Entry)
          /\ \A i \in 1..Len(d) : d[i].sock = p[1] /\ ("OUT" \in d[i].revents => "OUT" \in {p[2]})
      BY <3>1, <3>4, ReportsType
    <3>6. p[1] = x.commandSocket => Shares
      <4>1. CASE x.state = "DATA_CONNECT"
        BY <3>1, <3>3, <4>1 DEF DataPolled, Good, Core, Mode, InConnect
      <4>2. CASE x.state = "DATA_TRANSFER"
        BY <3>1, <3>3, <4>2 DEF DataPolled, Mode, InTransferring, Shares
      <4> QED
        BY <3>2, <4>1, <4>2
    <3> QED
      BY <3>3, <3>5, <3>6
  <2> QED
    BY <2>1, <2>2
<1>3. c \o d \in Seq(Entry)
  BY <1>1, <1>2
<1>4. ASSUME NEW i \in 1..Len(c \o d), "OUT" \in (c \o d)[i].revents
      PROVE  (c \o d)[i].sock \in {x.commandSocket, x.dataSocket}
  <2>1. /\ Len(c) \in Nat /\ Len(d) \in Nat /\ Len(c \o d) = Len(c) + Len(d)
    BY <1>1, <1>2
  <2>2. CASE i <= Len(c)
    <3>1. i \in 1..Len(c) /\ (c \o d)[i] = c[i]
      BY <1>1, <1>2, <2>1, <2>2
    <3> QED
      BY <3>1, <1>1
  <2>3. CASE ~(i <= Len(c))
    <3>1. i - Len(c) \in 1..Len(d) /\ (c \o d)[i] = d[i - Len(c)]
      BY <1>1, <1>2, <2>1, <2>3
    <3> QED
      BY <3>1, <1>2, <1>4
  <2> QED
    BY <2>2, <2>3
<1>5. ASSUME NEW i \in 1..Len(c \o d), (c \o d)[i].sock = x.commandSocket, ~Shares
      PROVE  i = 1 /\ ("OUT" \in (c \o d)[i].revents => x.response)
  <2>1. /\ Len(c) \in Nat /\ Len(d) \in Nat /\ Len(c \o d) = Len(c) + Len(d)
    BY <1>1, <1>2
  <2>2. CASE i <= Len(c)
    <3>1. i \in 1..Len(c) /\ (c \o d)[i] = c[i] /\ i = 1
      BY <1>1, <1>2, <2>1, <2>2
    <3> QED
      BY <3>1, <1>1
  <2>3. CASE ~(i <= Len(c))
    <3>1. i - Len(c) \in 1..Len(d) /\ (c \o d)[i] = d[i - Len(c)]
      BY <1>1, <1>2, <2>1, <2>3
    <3> QED
      BY <3>1, <1>2, <1>5
  <2> QED
    BY <2>2, <2>3
<1> QED
  BY <1>3, <1>4, <1>5

LEMMA PollStep ==
  ASSUME IndInv, Poll
  PROVE  IndInv' /\ ShutDown
<1>1. /\ pc = "poll" /\ ~Dead(session) /\ batch' = batch
  BY DEF Poll
<1>2. /\ Good(session) /\ Mode(session) /\ InCommand(session)
      /\ handled \in BOOLEAN /\ reported = <<>> /\ batch \in 0..MaxBatch
  BY <1>1, SMTT(60) DEF IndInv, Good, TypeOK, ControlOK
<1>3. PICK closed \in SUBSET session.pendingCloseSocket :
        LET x == [session EXCEPT !.pendingCloseSocket = @ \ closed]
        IN  IF PollFault(x) # "none"
            THEN /\ session' = [x EXCEPT !.fault = PollFault(x)]
                 /\ UNCHANGED <<pc, reported, handled>>
            ELSE \E late \in {x.stale, TRUE}, others \in {"none", "silent", "active"} :
                 /\ session' = [x EXCEPT !.stale = late]
                 /\ IF Unpolled(x) /\ others = "none"
                    THEN /\ handled' = FALSE
                         /\ UNCHANGED <<pc, reported>>
                    ELSE \E c \in CommandReports(x), d \in DataReports(x) :
                         /\ reported' = c \o d
                         /\ handled' = (others = "active" \/ c \o d # <<>>)
                         /\ pc' = "entry"
  BY DEF Poll
<1> DEFINE P == session.pendingCloseSocket \ closed
           x == [session EXCEPT !.pendingCloseSocket = P]
<1>4. /\ Good(x) /\ x.commandSocket = session.commandSocket /\ SameTransfer(session, x)
  BY <1>2, PendingDropped
<1>5. x = [session EXCEPT !.pendingCloseSocket = @ \ closed]
  OBVIOUS
<1> HIDE DEF x
<1>6. Mode(x)
  BY <1>2, <1>4 DEF Mode, InCommand, InConnect, InTransferring, SameTransfer
<1>7. CASE PollFault(x) # "none"
  <2>1. PollFault(x) = "nullPasv"
    <3>1. x.commandSocket # None \/ x.dataSocket # None \/ x.state # "DATA_TRANSFER"
      BY <1>1, <1>2, <1>4 DEF Dead, Mode, InTransferring, SameTransfer
    <3> QED
      BY <3>1, <1>4, <1>6, <1>7, NoAssertFault
  <2>2. session' = [x EXCEPT !.fault = "nullPasv"] /\ UNCHANGED <<pc, reported, handled>>
    BY <1>3, <1>5, <1>7, <2>1
  <2>3. Done(x, session')
    BY <1>4, <1>6, <2>2, FaultDone DEF Faults
  <2>4. session'.dataSocket = session.dataSocket
    BY <1>4, <2>2 DEF Good, Session, SameTransfer
  <2> QED
    BY <1>1, <1>2, <2>2, <2>3, <2>4, OutsideStep DEF Done, Mode, ShutDown
<1>8. CASE PollFault(x) = "none"
  <2>1. PICK late \in {x.stale, TRUE}, others \in {"none", "silent", "active"} :
          /\ session' = [x EXCEPT !.stale = late]
          /\ IF Unpolled(x) /\ others = "none"
             THEN /\ handled' = FALSE
                  /\ UNCHANGED <<pc, reported>>
             ELSE \E c \in CommandReports(x), d \in DataReports(x) :
                  /\ reported' = c \o d
                  /\ handled' = (others = "active" \/ c \o d # <<>>)
                  /\ pc' = "entry"
    BY <1>3, <1>5, <1>8
  <2>2. late \in BOOLEAN
    BY <1>4 DEF Good, Session
  <2>3. session' \in Session /\ Untouched(x, session')
    BY <1>4, <2>1, <2>2 DEF Good, Session, Untouched, SameTransfer
  <2>4. Good(session') /\ Mode(session') /\ InCommand(session')
    BY <1>4, <1>6, <2>3, UntouchedDone DEF Done, Mode
  <2>7. ShutDown
    BY <1>4, <2>3 DEF ShutDown, Untouched, SameTransfer
  <2>5. CASE Unpolled(x) /\ others = "none"
    BY <1>1, <1>2, <2>1, <2>4, <2>5, <2>7, OutsideStep
  <2>6. CASE ~(Unpolled(x) /\ others = "none")
    <3>1. PICK c \in CommandReports(x), d \in DataReports(x) :
            /\ reported' = c \o d
            /\ handled' = (others = "active" \/ c \o d # <<>>)
            /\ pc' = "entry"
      BY <2>1, <2>6
    <3>2. /\ reported' \in Seq(Entry)
          /\ \A i \in 1..Len(reported') :
               "OUT" \in reported'[i].revents =>
                 reported'[i].sock \in {x.commandSocket, x.dataSocket}
          /\ \A i \in 1..Len(reported') :
               reported'[i].sock = x.commandSocket =>
                 Shares \/ (i = 1 /\ ("OUT" \in reported'[i].revents => x.response))
      BY <3>1, <1>4, <1>6, <1>8, PolledType
    <3>3. OutputEntriesKept'
      BY <3>2, <2>3 DEF OutputEntriesKept, Untouched, SameTransfer
    <3>4. TypeOK'
      BY <1>1, <1>2, <2>3, <3>1, <3>2 DEF TypeOK, Places
    <3>5. ControlOK'
      BY <3>1 DEF ControlOK
    <3>6. Core(session')
      BY <2>4 DEF Good
    <3>7. session'.response = x.response /\ session'.commandSocket = x.commandSocket
      BY <1>4, <2>1 DEF Good, Session
    <3>8. CommandEntryOnce'
      BY <3>2, <3>7 DEF CommandEntryOnce
    <3> QED
      BY <2>4, <2>7, <3>3, <3>4, <3>5, <3>6, <3>8 DEF IndInv
  <2> QED
    BY <2>5, <2>6
<1> QED
  BY <1>7, <1>8

-----------------------------------------------------------------------------

\* A new session satisfies the invariant.
LEMMA IndInvInit == Init => IndInv
<1> SUFFICES ASSUME Init PROVE IndInv
  OBVIOUS
<1>1. PICK a \in Addr, u \in BOOLEAN, p \in BOOLEAN, s \in BOOLEAN :
        session \in SendResponse([NewSession(a) EXCEPT !.authorizedUser = u,
                                                       !.authorizedPass = p,
                                                       !.stale = s], 0)
  BY DEF Init
<1> DEFINE n == NewSession(a)
           x == [n EXCEPT !.authorizedUser = u, !.authorizedPass = p, !.stale = s]
<1>2. /\ n \in Session /\ n.state = "COMMAND"
      /\ n.commandSocket = a /\ n.pasvSocket = None /\ n.dataSocket = None
      /\ n.pendingCloseSocket = {} /\ n.fault = "none"
      /\ n.pasv = FALSE /\ n.port = FALSE /\ n.recv = FALSE /\ n.send = FALSE /\ n.dir = FALSE
  BY NoneSlot, ZeroCount
     DEF NewSession, Session, Slot, States, Transfers, DirModes, XferContents, Faults
<1> HIDE DEF n
<1>3. x \in Session /\ Untouched(n, x)
  <2>1. n \in Session /\ u \in BOOLEAN /\ p \in BOOLEAN /\ s \in BOOLEAN
    BY <1>2
  <2>2. x \in Session
    BY <2>1 DEF Session
  <2>3. Untouched(n, x)
    BY <2>1 DEF Session, Untouched, SameTransfer
  <2> QED
    BY <2>2, <2>3
<1> HIDE DEF x
<1>4. Good(n) /\ Mode(n)
  BY <1>2 DEF Good, Core, Mode, InCommand, InConnect, InTransferring
<1>5. Good(x) /\ Mode(x)
  BY <1>3, <1>4, UntouchedDone DEF Done
<1>6. session \in SendResponse(x, 0)
  BY <1>1 DEF x, n
<1>7. Good(session) /\ Mode(session)
  BY <1>5, <1>6, SendResponseDone DEF Done
<1>8. pc = "poll" /\ reported = <<>> /\ handled = FALSE /\ batch = 0
  BY DEF Init
<1>9. TypeOK
  <2>1. <<>> \in Seq(Entry) /\ 0 \in 0..MaxBatch
    BY MaxBatchAssumption
  <2> QED
    BY <2>1, <1>7, <1>8 DEF TypeOK, Good, Places
<1>10. OutputEntriesKept /\ CommandEntryOnce /\ ControlOK
  BY <1>8 DEF OutputEntriesKept, CommandEntryOnce, ControlOK
<1> QED
  BY <1>7, <1>9, <1>10 DEF IndInv, Good, Mode

\* Every step of the session keeps the invariant and drops no data socket.
LEMMA IndInvNext == IndInv /\ [Next]_vars => IndInv' /\ ShutDown
<1> SUFFICES ASSUME IndInv, [Next]_vars PROVE IndInv' /\ ShutDown
  OBVIOUS
<1>1. CASE Poll
  BY <1>1, PollStep
<1>2. CASE Reap \/ Destroy
  BY <1>2, ReapStep
<1>3. CASE WriteResponse
  BY <1>3, WriteResponseStep
<1>4. CASE ReadUrgent
  BY <1>4, ReadUrgentStep
<1>5. CASE ReadCommand
  BY <1>5, ReadCommandStep
<1>6. CASE UnknownCommand
  BY <1>6, UnknownCommandStep
<1>7. CASE \E c \in Commands : RefuseCommand(c) \/ ExecuteCommand(c)
  BY <1>7, CommandsStep
<1>8. CASE HangUp
  BY <1>8, HangUpStep
<1>9. CASE NotData \/ DataInCommand \/ DataTransferEvent
  BY <1>9, DataEventStep
<1>10. CASE DataConnectEvent
  BY <1>10, DataConnectEventStep
<1>11. CASE TransferStep
  BY <1>11, TransferStepKeeps
<1>12. CASE IdleTest
  BY <1>12, IdleTestStep
<1>13. CASE UNCHANGED vars
  BY <1>13 DEF vars, IndInv, TypeOK, OutputEntriesKept, CommandEntryOnce, ControlOK, ShutDown
<1> QED
  BY <1>1, <1>2, <1>3, <1>4, <1>5, <1>6, <1>7, <1>8, <1>9, <1>10, <1>11, <1>12, <1>13
     DEF Next, ThreadStep, CommandStep, DataStep, Over

-----------------------------------------------------------------------------

\* IndInv is an invariant of the session.
THEOREM Invariance == Spec => []IndInv
<1>1. IndInv /\ [Next]_vars => IndInv'
  BY IndInvNext
<1> QED
  BY <1>1, IndInvInit, PTL DEF Spec

\* Whatever the client sends and the sockets report, every member of the
\* session and every reported entry keeps its type: the asserts on usable
\* sockets and buffers in poll are stated about values of these types.
THEOREM TypeCorrect == Spec => []TypeOK
<1>1. IndInv => TypeOK
  BY DEF IndInv
<1> QED
  BY <1>1, Invariance, PTL

\* No socket of a session ever has two owners but the one of a listing on the
\* command connection: poll's assert that a pending socket is unique holds, and
\* closeSocket never shuts down a socket that is still used.
THEOREM Ownership == Spec => []SocketOwnership
<1>1. IndInv => SocketOwnership
  BY DEF IndInv, TypeOK, Session, States, Core, Mode, InCommand, InConnect, InTransferring,
         Dead, SocketOwnership
<1> QED
  BY <1>1, Invariance, PTL

\* However commands and socket events interleave, poll's asserts on m_pasv,
\* m_port, m_recv and m_send hold and a data socket it uses is there.
THEOREM AssertionsHold == Spec => []PollAssertions
<1>1. IndInv => PollAssertions
  BY DEF IndInv, Core, PollAssertions
<1> QED
  BY <1>1, Invariance, PTL

\* Back in COMMAND nothing is left of a transfer, whatever way it ended.
THEOREM CleanCommand == Spec => []CommandIsClean
<1>1. IndInv => CommandIsClean
  BY DEF IndInv, InCommand, CommandIsClean
<1> QED
  BY <1>1, Invariance, PTL

\* poll never hands Socket::write an empty buffer, but for MLST and STAT with a path: nothing
\* else shares the command socket, and what shares it is polled twice.
THEOREM WritesUnshared == Spec => [](WritesSomething \/ Shares)
<1>1. IndInv => WritesSomething \/ Shares
  BY DEF IndInv, Core, WritesSomething
<1> QED
  BY <1>1, Invariance, PTL

\* closeSocket and setState shut every data socket down and keep it until the
\* peer has answered; no step of the session just drops one.
THEOREM DataKept == Spec => DataSocketsShutDown
<1>1. IndInv /\ [Next]_vars => [ShutDown]_vars
  BY IndInvNext
<1> QED
  BY <1>1, Invariance, PTL DEF Spec, DataSocketsShutDown

-----------------------------------------------------------------------------
(***************************************************************************)
(* What a transfer works with, who it works for and what the client waits   *)
(* for.  Its invariant needs nothing of the one above: no address is read   *)
(* but whether there is a command socket, and no type is needed either.     *)
(* Again one lemma per method, then one per group of steps.                 *)
(***************************************************************************)

(* The members these proofs read.  An EXCEPT of a record that has them has  *)
(* them too, so no types are needed here.                                   *)
Fields == {"commandSocket", "state", "transfer", "xferDirMode", "file", "dir", "devZero", "xfer",
           "rename", "authorizedUser", "authorizedPass", "owed"}

Has(x) == Fields \subseteq DOMAIN x

(* The client, if there still is one, waits for n final replies.            *)
Owes(x, n) == x.commandSocket # None => x.owed = n

(* The login and the name RNFR gave.                                        *)
SameClient(x, y) ==
  /\ y.rename = x.rename
  /\ y.authorizedUser = x.authorizedUser
  /\ y.authorizedPass = x.authorizedPass

(* What a transfer works with.                                              *)
SameSource(x, y) ==
  /\ y.transfer = x.transfer
  /\ y.xferDirMode = x.xferDirMode
  /\ y.file = x.file
  /\ y.dir = x.dir
  /\ y.devZero = x.devZero

Legit(x) == x.rename => Authorized(x)

(* Outside a handler: no transfer, every command answered.                  *)
Idle(x) == Has(x) /\ x.state = "COMMAND" /\ Legit(x) /\ Owes(x, 0)

(* A command was taken in COMMAND and is not answered yet.                  *)
Called(x) == Has(x) /\ x.state = "COMMAND" /\ Legit(x) /\ Owes(x, 1)

(* Ready to be a transfer but for the state.                                *)
Prepared(x) ==
  /\ Has(x)
  /\ Authorized(x)
  /\ x.transfer \in {"retrieveTransfer", "storeTransfer"} => x.file \/ x.devZero
  /\ x.transfer # "globTransfer" => x.xfer # "old"

(* A transfer under way, with n replies still to come.                      *)
Busy(x, n) == Prepared(x) /\ x.state # "COMMAND" /\ Owes(x, n)

Fine(x) == Idle(x) \/ Busy(x, 1)

(* y is x after a call that leaves the transfer alone, state apart.         *)
Alike(x, y) ==
  /\ Has(y)
  /\ SameClient(x, y)
  /\ SameSource(x, y)
  /\ y.xfer = x.xfer

(* What poll or a handler leaves of a session it was called with.           *)
Goes(x, y) == Fine(y) /\ (x.state # "COMMAND" /\ y.state # "COMMAND" => SameSource(x, y))

-----------------------------------------------------------------------------

\* closeSocket and the other methods that only change sockets, directions and flags.
LEMMA CloseAlike ==
  ASSUME NEW x, Has(x)
  PROVE  /\ Alike(x, CloseCommand(x)) /\ CloseCommand(x).state = x.state
         /\ CloseCommand(x).commandSocket = None
         /\ Alike(x, ClosePasv(x)) /\ ClosePasv(x).state = x.state
         /\ ClosePasv(x).commandSocket = x.commandSocket /\ ClosePasv(x).owed = x.owed
         /\ Alike(x, CloseData(x)) /\ CloseData(x).state = x.state
         /\ CloseData(x).commandSocket = x.commandSocket /\ CloseData(x).owed = x.owed
<1>1. /\ Alike(x, CloseCommand(x)) /\ CloseCommand(x).state = x.state
      /\ CloseCommand(x).commandSocket = None
  BY DEF CloseCommand, Alike, Has, Fields, SameClient, SameSource
<1>2. /\ Alike(x, ClosePasv(x)) /\ ClosePasv(x).state = x.state
      /\ ClosePasv(x).commandSocket = x.commandSocket /\ ClosePasv(x).owed = x.owed
  BY DEF ClosePasv, Alike, Has, Fields, SameClient, SameSource
<1>3. /\ Alike(x, CloseData(x)) /\ CloseData(x).state = x.state
      /\ CloseData(x).commandSocket = x.commandSocket /\ CloseData(x).owed = x.owed
  BY DEF CloseData, Alike, Has, Fields, SameClient, SameSource
<1> QED BY <1>1, <1>2, <1>3

\* setState (st, p, d): in COMMAND the sources are gone, else nothing changes.
LEMMA SetStateLeaves ==
  ASSUME NEW x, Has(x), NEW st, NEW p \in BOOLEAN, NEW d \in BOOLEAN
  PROVE  LET y == SetState(x, st, p, d)
         IN  /\ Has(y) /\ SameClient(x, y) /\ y.state = st
             /\ y.commandSocket = x.commandSocket /\ y.owed = x.owed
             /\ st # "COMMAND" => Alike(x, y)
<1> DEFINE u == IF p THEN ClosePasv(x) ELSE x
           v == IF d THEN CloseData(u) ELSE u
           y == Enter(v, st)
<1>1. SetState(x, st, p, d) = y
  BY DEF SetState
<1>2. Alike(x, u) /\ u.commandSocket = x.commandSocket /\ u.owed = x.owed
  <2>1. Alike(x, x)
    BY DEF Alike, SameClient, SameSource
  <2> QED BY <2>1, CloseAlike
<1> HIDE DEF u
<1>3. Alike(u, v) /\ v.commandSocket = u.commandSocket /\ v.owed = u.owed
  <2>1. Has(u) /\ Alike(u, u)
    BY <1>2 DEF Alike, SameClient, SameSource
  <2> QED BY <2>1, CloseAlike
<1> HIDE DEF v
<1>4. Alike(x, v)
  BY <1>2, <1>3 DEF Alike, SameClient, SameSource
<1>5. CASE st = "COMMAND"
  <2>1. y = [v EXCEPT !.state = st, !.stale = FALSE, !.restart = FALSE,
                      !.devZero = FALSE, !.file = FALSE, !.dir = FALSE,
                      !.xfer = IF @ = "own" THEN "old" ELSE @]
    BY <1>5 DEF Enter
  <2>2. Has(y) /\ SameClient(v, y) /\ y.state = st /\ y.commandSocket = v.commandSocket /\ y.owed = v.owed
    BY <1>4, <2>1 DEF Alike, Has, Fields, SameClient
  <2> HIDE DEF y
  <2> QED BY <1>1, <1>2, <1>3, <1>4, <1>5, <2>2 DEF SameClient, Alike
<1>6. CASE st # "COMMAND"
  <2>1. y = [v EXCEPT !.state = st, !.stale = FALSE]
    BY <1>6 DEF Enter
  <2>2. Alike(v, y) /\ y.state = st /\ y.commandSocket = v.commandSocket /\ y.owed = v.owed
    BY <1>4, <2>1 DEF Alike, Has, Fields, SameClient, SameSource
  <2> HIDE DEF y
  <2> QED BY <1>1, <1>2, <1>3, <1>4, <1>6, <2>2 DEF SameClient, SameSource, Alike
<1> QED BY <1>5, <1>6

\* setState into a transfer touches nothing but the sockets and the state.
LEMMA EnterTransfer ==
  ASSUME NEW x, Has(x), NEW p \in BOOLEAN, NEW d \in BOOLEAN,
         NEW st \in {"DATA_CONNECT", "DATA_TRANSFER"}
  PROVE  LET y == SetState(x, st, p, d)
         IN  /\ Alike(x, y) /\ y.state = st
             /\ y.commandSocket = x.commandSocket /\ y.owed = x.owed
<1>1. st # "COMMAND"
  OBVIOUS
<1> QED BY <1>1, SetStateLeaves

\* A reply pays n of what is owed and touches nothing else.
LEMMA ReplyAlike ==
  ASSUME NEW x, Has(x), NEW n, NEW y \in SendResponse(x, n), NEW k, Owes(x, k)
  PROVE  Alike(x, y) /\ y.state = x.state /\ Owes(y, k - n)
<1>1. CASE x.commandSocket = None
  BY <1>1 DEF SendResponse, Alike, SameClient, SameSource, Owes
<1>2. CASE x.commandSocket # None
  <2> DEFINE z == [x EXCEPT !.owed = @ - n]
             a == [z EXCEPT !.response = FALSE, !.stale = FALSE]
             b == [z EXCEPT !.response = TRUE,  !.stale = FALSE]
             c == [z EXCEPT !.response = TRUE]
  <2>1. Alike(x, z) /\ z.state = x.state /\ z.owed = k - n
    BY <1>2 DEF Alike, Has, Fields, SameClient, SameSource, Owes
  <2>2. y \in {a, b, c, CloseCommand(z)}
    BY <1>2 DEF SendResponse
  <2> HIDE DEF z
  <2>3. CASE y = a
    BY <2>1, <2>3 DEF Alike, Has, Fields, SameClient, SameSource, Owes
  <2>4. CASE y = b
    BY <2>1, <2>4 DEF Alike, Has, Fields, SameClient, SameSource, Owes
  <2>5. CASE y = c
    BY <2>1, <2>5 DEF Alike, Has, Fields, SameClient, SameSource, Owes
  <2>6. CASE y = CloseCommand(z)
    <3>1. Alike(z, y) /\ y.state = z.state /\ y.commandSocket = None
      BY <2>1, <2>6, CloseAlike DEF Alike
    <3> QED BY <2>1, <3>1 DEF Alike, SameClient, SameSource, Owes
  <2> QED BY <2>2, <2>3, <2>4, <2>5, <2>6
<1> QED BY <1>1, <1>2

\* What is alike is as ready for a transfer and as rightful.
LEMMA AlikePrepared ==
  ASSUME NEW x, NEW y, Alike(x, y)
  PROVE  /\ Prepared(x) => Prepared(y)
         /\ Legit(x) => Legit(y)
         /\ Authorized(x) => Authorized(y)
BY DEF Alike, SameClient, SameSource, Prepared, Legit, Authorized

\* Ready: 150 is no final reply.
LEMMA ReadyAlike ==
  ASSUME NEW x, Has(x), Owes(x, 1), NEW y \in Ready(x)
  PROVE  Alike(x, y) /\ y.state = "DATA_TRANSFER" /\ Owes(y, 1)
<1>1. PICK z \in SendResponse(x, 0) : y = SetState(z, "DATA_TRANSFER", TRUE, FALSE)
  BY DEF Ready
<1>2. Alike(x, z) /\ Owes(z, 1)
  <2>1. Owes(z, 1 - 0)
    BY <1>1, ReplyAlike
  <2>2. Alike(x, z)
    BY <1>1, ReplyAlike
  <2> QED BY <2>1, <2>2
<1>3. /\ Alike(z, y) /\ y.state = "DATA_TRANSFER"
      /\ y.commandSocket = z.commandSocket /\ y.owed = z.owed
  <2>1. Has(z)
    BY <1>2 DEF Alike
  <2> QED BY <1>1, <2>1, EnterTransfer
<1> QED BY <1>2, <1>3 DEF Alike, SameClient, SameSource, Owes

\* setState (State::COMMAND) once the command is answered, or before.
LEMMA EnterCommand ==
  ASSUME NEW x, Has(x), Legit(x), NEW p \in BOOLEAN, NEW d \in BOOLEAN, NEW n, Owes(x, n)
  PROVE  LET y == SetState(x, "COMMAND", p, d)
         IN  Has(y) /\ y.state = "COMMAND" /\ Legit(y) /\ Owes(y, n) /\ SameClient(x, y)
BY SetStateLeaves DEF Legit, Authorized, Owes, SameClient

\* A reply in COMMAND.
LEMMA ReplyIdle ==
  ASSUME NEW x, Called(x), NEW y \in SendResponse(x, 1)
  PROVE  Idle(y)
<1>1. Alike(x, y) /\ y.state = x.state /\ Owes(y, 1 - 1)
  BY ReplyAlike DEF Called
<1>2. Legit(y)
  BY <1>1, AlikePrepared DEF Called
<1> QED BY <1>1, <1>2 DEF Idle, Called, Alike

\* A reply, and then back to COMMAND.
LEMMA ReplyThenCommand ==
  ASSUME NEW x, Has(x), Legit(x), NEW k, Owes(x, k), NEW z \in SendResponse(x, 1),
         NEW p \in BOOLEAN, NEW d \in BOOLEAN
  PROVE  LET y == SetState(z, "COMMAND", p, d)
         IN  /\ Has(y) /\ y.state = "COMMAND" /\ Legit(y) /\ Owes(y, k - 1)
             /\ k = 1 => Idle(y)
<1>1. Alike(x, z) /\ Owes(z, k - 1)
  BY ReplyAlike
<1>2. Has(z) /\ Legit(z)
  BY <1>1, AlikePrepared DEF Alike
<1> DEFINE y == SetState(z, "COMMAND", p, d)
<1>3. Has(y) /\ y.state = "COMMAND" /\ Legit(y) /\ Owes(y, k - 1)
  BY <1>1, <1>2, EnterCommand
<1> HIDE DEF y
<1>4. k = 1 => k - 1 = 0
  OBVIOUS
<1>5. k = 1 => Idle(y)
  BY <1>3, <1>4 DEF Idle
<1> QED BY <1>3, <1>5 DEF y

\* A transfer that cannot go on is answered and gone.
LEMMA FailIdle ==
  ASSUME NEW x, Has(x), Legit(x), Owes(x, 1), NEW y \in Fail(x)
  PROVE  Idle(y)
<1>1. PICK z \in SendResponse(x, 1) : y = SetState(z, "COMMAND", TRUE, TRUE)
  BY DEF Fail
<1> QED BY <1>1, ReplyThenCommand

\* Back to COMMAND, then a reply.
LEMMA SettleIdle ==
  ASSUME NEW x, Has(x), Legit(x), Owes(x, 1), NEW y \in Settle(x)
  PROVE  Idle(y)
<1> DEFINE z == SetState(x, "COMMAND", FALSE, FALSE)
<1>1. Called(z)
  BY EnterCommand DEF Called
<1>2. y \in SendResponse(z, 1)
  BY DEF Settle
<1> HIDE DEF z
<1> QED BY <1>1, <1>2, ReplyIdle

-----------------------------------------------------------------------------

\* A busy session may always give up: it is rightful and owes one reply.
LEMMA BusyMayFail ==
  ASSUME NEW x, Busy(x, 1), NEW y \in Fail(x)
  PROVE  Idle(y) /\ Goes(x, y)
<1>1. Has(x) /\ Legit(x) /\ Owes(x, 1)
  BY DEF Busy, Prepared, Legit
<1>2. Idle(y)
  BY <1>1, FailIdle
<1> QED BY <1>2 DEF Goes, Fine, Idle

\* A step within a transfer.
LEMMA BusyGoesOn ==
  ASSUME NEW x, Busy(x, 1), NEW y, Alike(x, y), y.state # "COMMAND", Owes(y, 1)
  PROVE  Busy(y, 1) /\ Goes(x, y)
<1>1. Prepared(y)
  BY AlikePrepared DEF Busy
<1> QED BY <1>1 DEF Busy, Goes, Fine, Alike

\* The data connection of PASV is taken, or the transfer is given up.
LEMMA DataAcceptGoes ==
  ASSUME NEW x, Busy(x, 1), NEW y \in DataAccept(x)
  PROVE  Goes(x, y)
<1> DEFINE v == [x EXCEPT !.pasv = FALSE]
<1>1. Alike(x, v) /\ v.state = x.state /\ v.owed = x.owed /\ v.commandSocket = x.commandSocket
  BY DEF Busy, Prepared, Alike, Has, Fields, SameClient, SameSource
<1> HIDE DEF v
<1>2. Busy(v, 1)
  BY <1>1, BusyGoesOn DEF Busy, Owes
<1>3. ASSUME NEW a, NEW w, w = [v EXCEPT !.dataSocket = a]
      PROVE  Alike(x, w) /\ w.state # "COMMAND" /\ Owes(w, 1) /\ Busy(w, 1)
  <2>1. Alike(v, w) /\ w.state = v.state /\ w.owed = v.owed /\ w.commandSocket = v.commandSocket
    BY <1>1, <1>3 DEF Alike, Has, Fields, SameClient, SameSource
  <2>2. Alike(x, w) /\ w.state # "COMMAND" /\ Owes(w, 1)
    BY <1>1, <1>2, <2>1 DEF Alike, SameClient, SameSource, Owes, Busy
  <2> QED BY <2>2, BusyGoesOn
<1>4. CASE ~x.pasv
  BY <1>4, BusyMayFail DEF DataAccept
<1>5. CASE x.pasv /\ x.pasvSocket = None
  <2>2. y = [v EXCEPT !.fault = "nullPasv"]
    BY <1>5 DEF DataAccept, v
  <2>3. Alike(v, y) /\ y.state = v.state /\ y.owed = v.owed /\ y.commandSocket = v.commandSocket
    BY <1>1, <2>2 DEF Alike, Has, Fields, SameClient, SameSource
  <2>4. Alike(x, y) /\ y.state # "COMMAND" /\ Owes(y, 1)
    BY <1>1, <1>2, <2>3 DEF Alike, SameClient, SameSource, Owes, Busy
  <2> QED BY <2>4, BusyGoesOn
<1>6. CASE x.pasv /\ x.pasvSocket # None
  <2>1. PICK a : LET w == [v EXCEPT !.dataSocket = a] IN y \in Fail(w) \cup Ready(w)
    BY <1>6 DEF DataAccept, v
  <2> DEFINE w == [v EXCEPT !.dataSocket = a]
  <2>2. Alike(x, w) /\ w.state # "COMMAND" /\ Owes(w, 1) /\ Busy(w, 1)
    BY <1>3
  <2>3. y \in Fail(w) \cup Ready(w)
    BY <2>1
  <2> HIDE DEF w
  <2>4. CASE y \in Fail(w)
    <3>1. Idle(y)
      BY <2>2, <2>4, BusyMayFail
    <3> QED BY <3>1 DEF Goes, Fine, Idle
  <2>5. CASE y \in Ready(w)
    <3>1. Alike(w, y) /\ y.state = "DATA_TRANSFER" /\ Owes(y, 1)
      BY <2>2, <2>5, ReadyAlike DEF Alike
    <3>2. Alike(x, y)
      BY <2>2, <3>1 DEF Alike, SameClient, SameSource
    <3> QED BY <3>1, <3>2, BusyGoesOn
  <2> QED BY <2>3, <2>4, <2>5
<1> QED BY <1>4, <1>5, <1>6

\* `if (m_port && !dataConnect ())' when the transfer goes on.
LEMMA ConnectingAlike ==
  ASSUME NEW x, Has(x), x.state = "DATA_CONNECT", Owes(x, 1), NEW y \in Connecting(x)
  PROVE  Alike(x, y) /\ y.state # "COMMAND" /\ Owes(y, 1)
<1>1. CASE ~x.port
  BY <1>1 DEF Connecting, Alike, SameClient, SameSource
<1>2. CASE x.port
  <2>1. PICK a \in Free(x) :
          LET z == [x EXCEPT !.port = FALSE, !.dataSocket = a] IN y \in {z} \cup Ready(z)
    BY <1>2 DEF Connecting, ConnectStarted
  <2> DEFINE z == [x EXCEPT !.port = FALSE, !.dataSocket = a]
  <2>2. y \in {z} \cup Ready(z)
    BY <2>1
  <2>3. Alike(x, z) /\ z.state = "DATA_CONNECT" /\ Owes(z, 1)
    BY DEF Alike, Has, Fields, SameClient, SameSource, Owes
  <2> HIDE DEF z
  <2>4. CASE y \in Ready(z)
    <3>1. Alike(z, y) /\ y.state = "DATA_TRANSFER" /\ Owes(y, 1)
      BY <2>3, <2>4, ReadyAlike DEF Alike
    <3> QED BY <2>3, <3>1 DEF Alike, SameClient, SameSource
  <2> QED BY <2>2, <2>3, <2>4
<1> QED BY <1>1, <1>2

\* The same test when it fails.
LEMMA NotConnectedIdle ==
  ASSUME NEW x, Has(x), Legit(x), Owes(x, 1), NEW y \in NotConnected(x)
  PROVE  Idle(y)
<1>1. PICK z \in ConnectFailed(x) : y \in Fail(z)
  BY DEF NotConnected
<1>2. PICK a : z = [x EXCEPT !.port = FALSE, !.dataSocket = a]
  BY <1>1 DEF ConnectFailed
<1>3. Alike(x, z) /\ Owes(z, 1)
  BY <1>2 DEF Alike, Has, Fields, SameClient, SameSource, Owes
<1>4. Has(z) /\ Legit(z)
  BY <1>3, AlikePrepared DEF Alike
<1> QED BY <1>1, <1>3, <1>4, FailIdle

-----------------------------------------------------------------------------

\* xferFile with its source in place.
LEMMA BeginFileFine ==
  ASSUME NEW x, Has(x), Authorized(x), Owes(x, 1), x.file \/ x.devZero, x.xfer # "old",
         NEW retr \in BOOLEAN, NEW w \in BeginFile(x, retr)
  PROVE  Fine(w)
<1>1. Legit(x)
  BY DEF Legit
<1>2. CASE ~x.port /\ ~x.pasv
  <2>1. w \in Fail(x)
    BY <1>2 DEF BeginFile
  <2> QED BY <1>1, <2>1, FailIdle DEF Fine
<1>3. CASE ~(~x.port /\ ~x.pasv)
  <2> DEFINE y == SetState(x, "DATA_CONNECT", FALSE, TRUE)
  <2>1. Alike(x, y) /\ y.state = "DATA_CONNECT" /\ y.commandSocket = x.commandSocket /\ y.owed = x.owed
    BY EnterTransfer
  <2>2. w \in NotConnected(y) \/ \E z \in Connecting(y) :
          w = [z EXCEPT !.recv = ~retr, !.send = retr,
                        !.transfer = IF retr THEN "retrieveTransfer" ELSE "storeTransfer"]
    BY <1>3 DEF BeginFile
  <2> HIDE DEF y
  <2>3. Has(y) /\ Owes(y, 1) /\ Legit(y)
    BY <1>1, <2>1, AlikePrepared DEF Owes, Alike
  <2>4. CASE w \in NotConnected(y)
    BY <2>1, <2>3, <2>4, NotConnectedIdle DEF Fine
  <2>5. ASSUME NEW z \in Connecting(y),
               w = [z EXCEPT !.recv = ~retr, !.send = retr,
                             !.transfer = IF retr THEN "retrieveTransfer" ELSE "storeTransfer"]
        PROVE  Fine(w)
    <3>1. Alike(y, z) /\ z.state # "COMMAND" /\ Owes(z, 1)
      BY <2>1, <2>3, ConnectingAlike
    <3>2. /\ Has(w) /\ SameClient(z, w) /\ w.file = z.file /\ w.devZero = z.devZero
          /\ w.xfer = z.xfer /\ w.state = z.state /\ w.commandSocket = z.commandSocket
          /\ w.owed = z.owed
      BY <2>5, <3>1 DEF Alike, Has, Fields, SameClient
    <3>3. (w.file \/ w.devZero) /\ w.xfer # "old" /\ Authorized(w)
      BY <2>1, <3>1, <3>2 DEF Alike, SameSource, SameClient, Authorized
    <3> QED BY <3>1, <3>2, <3>3 DEF Fine, Busy, Prepared, Owes
  <2> QED BY <2>2, <2>4, <2>5
<1> QED BY <1>2, <1>3

\* RETR, STOR and APPE of a client that is logged in.
LEMMA XferFileFine ==
  ASSUME NEW x, Called(x), Authorized(x), NEW mode \in {"RETR", "STOR", "APPE"},
         NEW w \in XferFile(x, mode)
  PROVE  Fine(w)
<1> DEFINE y    == [x EXCEPT !.xfer = "empty"]
           open == [y EXCEPT !.file = TRUE]
           zero == [y EXCEPT !.devZero = TRUE]
<1>1. /\ Called(y) /\ Authorized(y) /\ y.xfer = "empty"
  BY DEF Called, Has, Fields, Legit, Authorized, Owes
<1>2. (mode = "RETR") \in BOOLEAN
  OBVIOUS
<1>3. \/ w \in Fail(y) \cup SendResponse(y, 1)
      \/ w \in SendResponse(open, 1)
      \/ w \in BeginFile(zero, mode = "RETR")
      \/ w \in BeginFile(open, mode = "RETR")
  BY DEF XferFile
<1> HIDE DEF y
<1>4. Called(open) /\ Authorized(open) /\ open.xfer # "old" /\ open.file
  BY <1>1 DEF Called, Has, Fields, Legit, Authorized, Owes
<1>5. Called(zero) /\ Authorized(zero) /\ zero.xfer # "old" /\ zero.devZero
  BY <1>1 DEF Called, Has, Fields, Legit, Authorized, Owes
<1> HIDE DEF open, zero
<1>6. CASE w \in Fail(y)
  BY <1>1, <1>6, FailIdle DEF Called, Fine
<1>7. CASE w \in SendResponse(y, 1) \/ w \in SendResponse(open, 1)
  BY <1>1, <1>4, <1>7, ReplyIdle DEF Fine
<1>8. CASE w \in BeginFile(zero, mode = "RETR")
  BY <1>2, <1>5, <1>8, BeginFileFine DEF Called
<1>9. CASE w \in BeginFile(open, mode = "RETR")
  BY <1>2, <1>4, <1>9, BeginFileFine DEF Called
<1> QED BY <1>3, <1>6, <1>7, <1>8, <1>9

\* What waits for its data connection after a listing is prepared.
LEMMA ListConnects ==
  ASSUME NEW x, Has(x), Authorized(x), Owes(x, 1),
         x.transfer \in {"listTransfer", "globTransfer"},
         x.transfer = "listTransfer" => x.xfer # "old",
         NEW w, LET y == [SetState(x, "DATA_CONNECT", FALSE, TRUE) EXCEPT !.send = TRUE]
                IN  w \in NotConnected(y) \cup Connecting(y)
  PROVE  Fine(w)
<1> DEFINE u == SetState(x, "DATA_CONNECT", FALSE, TRUE)
           y == [u EXCEPT !.send = TRUE]
<1>1. Alike(x, u) /\ u.state = "DATA_CONNECT" /\ u.commandSocket = x.commandSocket /\ u.owed = x.owed
  BY EnterTransfer
<1>2. w \in NotConnected(y) \cup Connecting(y)
  OBVIOUS
<1> HIDE DEF u
<1>3. Alike(u, y) /\ y.state = u.state /\ y.commandSocket = u.commandSocket /\ y.owed = u.owed
  BY <1>1 DEF Alike, Has, Fields, SameClient, SameSource
<1> HIDE DEF y
<1>4. Alike(x, y) /\ Owes(y, 1) /\ y.state = "DATA_CONNECT"
  BY <1>1, <1>3 DEF Alike, SameClient, SameSource, Owes
<1>5. Has(y) /\ Authorized(y) /\ Legit(y) /\ Prepared(y)
  BY <1>4, AlikePrepared DEF Alike, Prepared, Legit
<1>6. CASE w \in NotConnected(y)
  BY <1>4, <1>5, <1>6, NotConnectedIdle DEF Fine
<1>7. CASE w \in Connecting(y)
  <2>1. Alike(y, w) /\ w.state # "COMMAND" /\ Owes(w, 1)
    BY <1>4, <1>5, <1>7, ConnectingAlike
  <2>2. Prepared(w)
    BY <1>5, <2>1, AlikePrepared
  <2> QED BY <2>1, <2>2 DEF Fine, Busy
<1> QED BY <1>2, <1>6, <1>7

\* xferDir once the listing is prepared.
LEMMA BeginListFine ==
  ASSUME NEW x, Has(x), Authorized(x), Owes(x, 1), x.transfer = "listTransfer", x.xfer # "old",
         NEW mode, NEW w \in BeginList(x, mode)
  PROVE  Fine(w)
<1>1. CASE mode \in {"MLST", "STAT"}
  <2>1. PICK y \in SendResponse(x, 0) :
          w = [SetState(y, "DATA_TRANSFER", TRUE, TRUE)
                 EXCEPT !.dataSocket = y.commandSocket, !.send = TRUE]
    BY <1>1 DEF BeginList
  <2>2. Alike(x, y) /\ Owes(y, 1 - 0)
    BY <2>1, ReplyAlike
  <2> DEFINE z == SetState(y, "DATA_TRANSFER", TRUE, TRUE)
  <2>3. Alike(y, z) /\ z.state = "DATA_TRANSFER" /\ z.commandSocket = y.commandSocket /\ z.owed = y.owed
    BY <2>2, EnterTransfer DEF Alike
  <2>4. w = [z EXCEPT !.dataSocket = y.commandSocket, !.send = TRUE]
    BY <2>1
  <2> HIDE DEF z
  <2>5. Alike(z, w) /\ w.state = z.state /\ w.commandSocket = z.commandSocket /\ w.owed = z.owed
    BY <2>3, <2>4 DEF Alike, Has, Fields, SameClient, SameSource
  <2>6. Alike(x, w) /\ w.state = "DATA_TRANSFER" /\ Owes(w, 1)
    BY <2>2, <2>3, <2>5 DEF Alike, SameClient, SameSource, Owes
  <2>7. Prepared(w)
    BY <2>6, AlikePrepared DEF Prepared
  <2> QED BY <2>6, <2>7 DEF Fine, Busy
<1>2. CASE mode \notin {"MLST", "STAT"} /\ ~x.port /\ ~x.pasv
  <2>1. w \in Fail(x)
    BY <1>2 DEF BeginList
  <2> QED BY <2>1, FailIdle DEF Fine, Legit
<1>3. CASE mode \notin {"MLST", "STAT"} /\ ~(~x.port /\ ~x.pasv)
  BY <1>3, ListConnects DEF BeginList
<1> QED BY <1>1, <1>2, <1>3

\* LIST, MLSD, MLST, NLST and STAT with a path.
LEMMA XferDirFine ==
  ASSUME NEW x, Called(x), Authorized(x), NEW mode, NEW w \in XferDir(x, mode)
  PROVE  Fine(w)
<1> DEFINE y == [x EXCEPT !.xferDirMode = mode, !.recv = FALSE, !.send = TRUE,
                          !.xfer = "empty", !.transfer = "listTransfer"]
<1>1. /\ Has(y) /\ Authorized(y) /\ Legit(y) /\ Owes(y, 1)
      /\ y.transfer = "listTransfer" /\ y.xfer = "empty"
  BY DEF Called, Has, Fields, Legit, Authorized, Owes
<1>2. w \in Fail(y) \/ \E z \in Listings(y, mode) : w \in BeginList(z, mode)
  BY DEF XferDir
<1> HIDE DEF y
<1>3. CASE w \in Fail(y)
  BY <1>1, <1>3, FailIdle DEF Fine
<1>4. ASSUME NEW z \in Listings(y, mode), w \in BeginList(z, mode)
      PROVE  Fine(w)
  <2> DEFINE open == [y EXCEPT !.dir = TRUE]
  <2>1. \/ z = [y EXCEPT !.xfer = "own"]
        \/ z = open
        \/ z = [open EXCEPT !.xfer = "own"]
    BY <1>4 DEF Listings
  <2>2. Has(z) /\ Authorized(z) /\ Owes(z, 1) /\ z.transfer = "listTransfer" /\ z.xfer # "old"
    BY <1>1, <2>1 DEF Has, Fields, Authorized, Owes
  <2> QED BY <1>4, <2>2, BeginListFine
<1> QED BY <1>2, <1>3, <1>4

\* NLST with a wildcard.
LEMMA XferGlobFine ==
  ASSUME NEW x, Called(x), Authorized(x), NEW w \in XferGlob(x)
  PROVE  Fine(w)
<1> DEFINE left == [x EXCEPT !.transfer = "globTransfer"]
<1>1. Has(left) /\ Authorized(left) /\ Legit(left) /\ Owes(left, 1) /\ left.transfer = "globTransfer"
  BY DEF Called, Has, Fields, Legit, Authorized, Owes
<1>2. \/ \E y \in SendResponse(x, 1) : w = SetState(y, "COMMAND", FALSE, FALSE)
      \/ w \in Fail(left)
      \/ LET y == [SetState(left, "DATA_CONNECT", FALSE, TRUE) EXCEPT !.send = TRUE]
         IN  w \in NotConnected(y) \cup Connecting(y)
  BY DEF XferGlob
<1> HIDE DEF left
<1>3. ASSUME NEW y \in SendResponse(x, 1), w = SetState(y, "COMMAND", FALSE, FALSE)
      PROVE  Fine(w)
  BY <1>3, ReplyThenCommand DEF Called, Fine
<1>4. CASE w \in Fail(left)
  BY <1>1, <1>4, FailIdle DEF Fine
<1>5. CASE LET y == [SetState(left, "DATA_CONNECT", FALSE, TRUE) EXCEPT !.send = TRUE]
           IN  w \in NotConnected(y) \cup Connecting(y)
  BY <1>1, <1>5, ListConnects
<1> QED BY <1>2, <1>3, <1>4, <1>5

-----------------------------------------------------------------------------

(* One call of m_transfer: it sends or stores something, waits, or ends the  *)
(* transfer with its reply.                                                  *)

\* What is read into an empty buffer is the transfer's own.
LEMMA FilledBusy ==
  ASSUME NEW x, Busy(x, 1)
  PROVE  Busy(Filled(x), 1) /\ SameSource(x, Filled(x))
<1>1. CASE x.xfer = "empty"
  <2> DEFINE y == [x EXCEPT !.xfer = "own"]
  <2>1. Filled(x) = y
    BY <1>1 DEF Filled
  <2>2. Busy(y, 1) /\ SameSource(x, y)
    BY DEF Busy, Prepared, Has, Fields, Authorized, Owes, SameSource
  <2> QED BY <2>1, <2>2
<1>2. CASE x.xfer # "empty"
  BY <1>2 DEF Filled, SameSource
<1> QED BY <1>1, <1>2

\* What was written leaves the buffer, or stays to be written again.
LEMMA WrittenBusy ==
  ASSUME NEW x, Busy(x, 1), NEW y \in Written(x)
  PROVE  Busy(y, 1) /\ SameSource(x, y)
<1>1. PICK c \in {"empty", x.xfer} : y = [x EXCEPT !.xfer = c, !.stale = FALSE]
  BY DEF Written
<1> QED BY <1>1 DEF Busy, Prepared, Has, Fields, Authorized, Owes, SameSource

\* The transfer waits for its socket or is given up.
LEMMA StoppedGoes ==
  ASSUME NEW x, Busy(x, 1), NEW y \in Stopped(x)
  PROVE  Goes(x, y)
<1>1. CASE y = x
  BY <1>1 DEF Goes, Fine, SameSource
<1>2. CASE y \in Fail(x)
  BY <1>2, BusyMayFail
<1> QED BY <1>1, <1>2 DEF Stopped

\* The buffer is filled, then written or kept.
LEMMA FilledGoes ==
  ASSUME NEW x, Busy(x, 1), NEW y \in Written(Filled(x)) \cup Stopped(Filled(x))
  PROVE  Goes(x, y)
<1> DEFINE z == Filled(x)
<1>1. Busy(z, 1) /\ SameSource(x, z)
  BY FilledBusy
<1>2. y \in Written(z) \/ y \in Stopped(z)
  OBVIOUS
<1> HIDE DEF z
<1>3. CASE y \in Written(z)
  <2>1. Busy(y, 1) /\ SameSource(z, y)
    BY <1>1, <1>3, WrittenBusy
  <2> QED BY <1>1, <2>1 DEF Goes, Fine, SameSource
<1>4. CASE y \in Stopped(z)
  <2>1. Goes(z, y)
    BY <1>1, <1>4, StoppedGoes
  <2> QED BY <1>1, <2>1 DEF Goes, SameSource, Busy
<1> QED BY <1>2, <1>3, <1>4

\* listTransfer, globTransfer and retrieveTransfer.
LEMMA SendingGoes ==
  ASSUME NEW x, Busy(x, 1),
         NEW y \in ListGoing(x) \cup ListEnding(x) \cup GlobGoing(x) \cup GlobEnding(x)
                   \cup RetrieveGoing(x) \cup RetrieveEnding(x)
  PROVE  Goes(x, y)
<1>1. \/ y \in Written(Filled(x)) \cup Stopped(Filled(x))
      \/ y \in Stopped(x)
      \/ y \in Fail(x)
  BY DEF ListGoing, ListEnding, GlobGoing, GlobEnding, RetrieveGoing, RetrieveEnding
<1> QED BY <1>1, FilledGoes, StoppedGoes, BusyMayFail

\* storeTransfer, as long as it returns true.
LEMMA StoreGoingBusy ==
  ASSUME NEW x, Busy(x, 1), NEW y \in StoreGoing(x)
  PROVE  Busy(y, 1) /\ SameSource(x, y)
<1> DEFINE z == IF x.xfer = "empty" THEN [x EXCEPT !.xfer = "own", !.stale = FALSE] ELSE x
           e == [z EXCEPT !.xfer = "empty"]
<1>1. Busy(z, 1) /\ SameSource(x, z)
  BY DEF Busy, Prepared, Has, Fields, Authorized, Owes, SameSource
<1>2. y \in {e, z}
  BY DEF StoreGoing
<1> HIDE DEF z
<1>3. Busy(e, 1) /\ SameSource(x, e)
  BY <1>1 DEF Busy, Prepared, Has, Fields, Authorized, Owes, SameSource
<1> HIDE DEF e
<1> QED BY <1>1, <1>2, <1>3

\* storeTransfer.
LEMMA StoringGoes ==
  ASSUME NEW x, Busy(x, 1), NEW y \in StoreGoing(x) \cup StoreEnding(x)
  PROVE  Goes(x, y)
<1> DEFINE r == [x EXCEPT !.xfer = "own", !.stale = FALSE]
<1>1. Busy(r, 1) /\ SameSource(x, r)
  BY DEF Busy, Prepared, Has, Fields, Authorized, Owes, SameSource
<1>2. y \in StoreGoing(x) \/ y \in Stopped(x) \/ y \in Fail(x) \/ y \in Fail(r)
  BY DEF StoreEnding
<1> HIDE DEF r
<1>3. CASE y \in StoreGoing(x)
  BY <1>3, StoreGoingBusy DEF Goes, Fine
<1>4. CASE y \in Stopped(x) \/ y \in Fail(x)
  BY <1>4, StoppedGoes, BusyMayFail
<1>5. CASE y \in Fail(r)
  BY <1>1, <1>5, BusyMayFail DEF Goes, Fine, Idle
<1> QED BY <1>2, <1>3, <1>4, <1>5

\* A call that returns true leaves the transfer under way.
LEMMA GoingBusy ==
  ASSUME NEW x, Busy(x, 1),
         NEW y \in ListGoing(x) \cup GlobGoing(x) \cup RetrieveGoing(x) \cup StoreGoing(x)
  PROVE  Busy(y, 1)
<1>1. CASE y \in Written(Filled(x))
  BY <1>1, FilledBusy, WrittenBusy
<1>2. CASE y \in StoreGoing(x)
  BY <1>2, StoreGoingBusy
<1> QED BY <1>1, <1>2 DEF ListGoing, GlobGoing, RetrieveGoing

-----------------------------------------------------------------------------
(* Commands                                                                 *)

\* In COMMAND: a client that renames has said RNFR just before and is logged in,
\* and it sends RNTO now; every other handler finds no name.
LEMMA LoggedInFine ==
  ASSUME NEW x, Called(x), NEW outcomes, NEW w \in LoggedIn(x, outcomes),
         Authorized(x) /\ w \in outcomes => Fine(w)
  PROVE  Fine(w)
<1>1. CASE ~Authorized(x)
  BY <1>1, SettleIdle DEF LoggedIn, Called, Fine
<1> QED BY <1>1 DEF LoggedIn

\* A transfer command.
LEMMA TransferCommandFine ==
  ASSUME NEW x, Called(x),
         NEW w \in APPE(x) \cup RETR(x) \cup STOR(x)
                   \cup LIST(x) \cup MLSD(x) \cup MLST(x) \cup NLST(x)
  PROVE  Fine(w)
<1>1. CASE \E mode \in {"APPE", "RETR", "STOR"} : w \in LoggedIn(x, XferFile(x, mode))
  BY <1>1, LoggedInFine, XferFileFine
<1>2. CASE \E mode \in {"LIST", "MLSD", "MLST"} : w \in LoggedIn(x, XferDir(x, mode))
  BY <1>2, LoggedInFine, XferDirFine
<1>3. CASE w \in LoggedIn(x, XferGlob(x) \cup XferDir(x, "NLST"))
  BY <1>3, LoggedInFine, XferGlobFine, XferDirFine
<1> QED BY <1>1, <1>2, <1>3 DEF APPE, RETR, STOR, LIST, MLSD, MLST, NLST

\* USER and PASS may take the login away, but never under a name for RNTO.
LEMMA LoginFine ==
  ASSUME NEW x, Called(x), ~x.rename, NEW w \in USER(x) \cup PASS(x)
  PROVE  Fine(w)
<1> DEFINE s == SetState(x, "COMMAND", FALSE, FALSE)
           u == [s EXCEPT !.authorizedUser = FALSE]
           p == [s EXCEPT !.authorizedPass = FALSE]
<1>1. Has(s) /\ s.state = "COMMAND" /\ Owes(s, 1) /\ SameClient(x, s)
  BY EnterCommand DEF Called
<1>2. w \in SendResponse(u, 1) \cup SendResponse([u EXCEPT !.authorizedUser = TRUE], 1)
            \cup SendResponse(p, 1) \cup SendResponse([p EXCEPT !.authorizedPass = TRUE], 1)
  BY DEF USER, PASS
<1> HIDE DEF s
<1>3. ASSUME NEW r \in {u, [u EXCEPT !.authorizedUser = TRUE], p, [p EXCEPT !.authorizedPass = TRUE]}
      PROVE  Called(r)
  BY <1>1, <1>3 DEF Called, Has, Fields, Legit, Owes, SameClient
<1> HIDE DEF u, p
<1> QED BY <1>2, <1>3, ReplyIdle DEF Fine

\* REST, RNFR and RNTO: RNFR keeps the name only of a client that is logged in.
LEMMA NameFine ==
  ASSUME NEW x, Called(x), NEW w \in REST(x) \cup RNFR(x) \cup RNTO(x)
  PROVE  Fine(w)
<1> DEFINE s == SetState(x, "COMMAND", FALSE, FALSE)
<1>1. /\ Has(s) /\ s.state = "COMMAND" /\ Owes(s, 1) /\ SameClient(x, s) /\ Called(s)
  BY EnterCommand DEF Called
<1>2. ASSUME Authorized(x), NEW r \in {s, [s EXCEPT !.restart = TRUE], [s EXCEPT !.rename = TRUE],
                                       [s EXCEPT !.rename = FALSE]}
      PROVE  Called(r)
  <2> HIDE DEF s
  <2> QED BY <1>1, <1>2 DEF Called, Has, Fields, Legit, Authorized, Owes, SameClient
<1>3. \/ w \in Settle(x)
      \/ w \in LoggedIn(x, SendResponse([s EXCEPT !.restart = TRUE], 1))
      \/ w \in LoggedIn(x, SendResponse(s, 1) \cup SendResponse([s EXCEPT !.rename = TRUE], 1))
      \/ w \in LoggedIn(x, SendResponse([s EXCEPT !.rename = FALSE], 1))
  BY DEF REST, RNFR, RNTO
<1> HIDE DEF s
<1>4. CASE w \in Settle(x)
  BY <1>4, SettleIdle DEF Called, Fine
<1>5. CASE w \in LoggedIn(x, SendResponse([s EXCEPT !.restart = TRUE], 1))
  BY <1>2, <1>5, LoggedInFine, ReplyIdle DEF Fine
<1>6. CASE w \in LoggedIn(x, SendResponse(s, 1) \cup SendResponse([s EXCEPT !.rename = TRUE], 1))
  BY <1>2, <1>6, LoggedInFine, ReplyIdle DEF Fine
<1>7. CASE w \in LoggedIn(x, SendResponse([s EXCEPT !.rename = FALSE], 1))
  BY <1>2, <1>7, LoggedInFine, ReplyIdle DEF Fine
<1> QED BY <1>3, <1>4, <1>5, <1>6, <1>7

\* PASV and PORT.
LEMMA DataSetUpFine ==
  ASSUME NEW x, Called(x), NEW w \in PASV(x) \cup PORT(x)
  PROVE  Fine(w)
<1> DEFINE s == SetState(x, "COMMAND", TRUE, TRUE)
           d == Dropped(x)
<1>1. Called(s) /\ s.state = "COMMAND"
  BY EnterCommand DEF Called
<1>2. d = [s EXCEPT !.pasv = FALSE, !.port = FALSE]
  BY DEF Dropped
<1> HIDE DEF s, d
<1>3. Called(d)
  BY <1>1, <1>2 DEF Called, Has, Fields, Legit, Authorized, Owes
<1>4. ASSUME NEW r, \/ r = [d EXCEPT !.port = TRUE]
                    \/ \E a : r = [[d EXCEPT !.pasvSocket = a] EXCEPT !.pasv = TRUE]
      PROVE  Called(r)
  BY <1>3, <1>4 DEF Called, Has, Fields, Legit, Authorized, Owes
<1>5. ASSUME w \in Listening(d)
      PROVE  Fine(w)
  <2>1. CASE d.commandSocket = None
    <3>1. PICK a \in Free(d) : w = [[d EXCEPT !.pasvSocket = a] EXCEPT !.fault = "nullCommand"]
      BY <1>5, <2>1 DEF Listening
    <3>2. Has(w) /\ w.state = "COMMAND" /\ Legit(w) /\ w.commandSocket = None
      BY <1>3, <2>1, <3>1 DEF Called, Has, Fields, Legit, Authorized
    <3> QED BY <3>2 DEF Fine, Idle, Owes
  <2>2. CASE d.commandSocket # None
    <3>1. PICK a \in Free(d) :
            w \in SendResponse([[d EXCEPT !.pasvSocket = a] EXCEPT !.pasv = TRUE], 1)
      BY <1>5, <2>2 DEF Listening
    <3> QED BY <1>4, <3>1, ReplyIdle DEF Fine
  <2> QED BY <2>1, <2>2
<1>6. \/ w \in LoggedIn(x, SendResponse(d, 1) \cup Listening(d))
      \/ w \in LoggedIn(x, SendResponse(d, 1) \cup SendResponse([d EXCEPT !.port = TRUE], 1))
  BY DEF PASV, PORT, d
<1>7. ASSUME w \in SendResponse(d, 1) \cup Listening(d) \cup SendResponse([d EXCEPT !.port = TRUE], 1)
      PROVE  Fine(w)
  BY <1>3, <1>4, <1>5, <1>7, ReplyIdle DEF Fine
<1> QED BY <1>6, <1>7, LoggedInFine

\* The commands that may also come during a transfer, in COMMAND.
LEMMA AnyStateFine ==
  ASSUME NEW x, Called(x),
         NEW w \in ABOR(x) \cup NOOP(x) \cup PWD(x) \cup QUIT(x) \cup STAT(x)
  PROVE  Fine(w)
<1>1. CASE w \in SendResponse(x, 1)
  BY <1>1, ReplyIdle DEF Fine
<1>2. CASE w \in BufferResponse(x)
  <2>1. CASE x.commandSocket = None
    BY <1>2, <2>1 DEF BufferResponse, Fine, Idle, Called, Owes
  <2>2. CASE w = [x EXCEPT !.response = TRUE, !.owed = @ - 1]
    BY <2>2 DEF Fine, Idle, Called, Has, Fields, Legit, Authorized, Owes
  <2>3. CASE w = CloseCommand(x)
    BY <2>3, CloseAlike, AlikePrepared DEF Fine, Idle, Called, Alike, Owes
  <2> QED BY <1>2, <2>1, <2>2, <2>3 DEF BufferResponse
<1>3. CASE w \in QUIT(x)
  <2>1. PICK y \in SendResponse(x, 1) : w = CloseCommand(y)
    BY <1>3 DEF QUIT
  <2>2. Idle(y)
    BY <2>1, ReplyIdle
  <2> QED BY <2>1, <2>2, CloseAlike, AlikePrepared DEF Fine, Idle, Alike, Owes
<1>4. CASE w \in LoggedIn(x, XferDir(x, "STAT"))
  BY <1>4, LoggedInFine, XferDirFine
<1>5. \/ w \in SendResponse(x, 1)
      \/ w \in BufferResponse(x)
      \/ w \in QUIT(x)
      \/ w \in LoggedIn(x, XferDir(x, "STAT"))
  BY DEF ABOR, NOOP, PWD, STAT, Called
<1> QED BY <1>1, <1>2, <1>3, <1>4, <1>5

\* Every handler called in COMMAND.
LEMMA HandlerFine ==
  ASSUME NEW x, Called(x), NEW c \in AllCommands \ {"OTHER"}, x.rename => c = "RNTO",
         NEW w \in Handler(c, x)
  PROVE  Fine(w)
<1>1. CASE c \in DuringTransfer
  <2>1. w \in ABOR(x) \cup NOOP(x) \cup PWD(x) \cup QUIT(x) \cup STAT(x)
    BY <1>1 DEF DuringTransfer, Handler
  <2> QED BY <2>1, AnyStateFine
<1>2. CASE c \in {"APPE", "RETR", "STOR", "LIST", "MLSD", "MLST", "NLST"}
  <2>1. w \in APPE(x) \cup RETR(x) \cup STOR(x)
              \cup LIST(x) \cup MLSD(x) \cup MLST(x) \cup NLST(x)
    BY <1>2 DEF Handler
  <2> QED BY <2>1, TransferCommandFine
<1>3. CASE c \in {"USER", "PASS"}
  <2>1. w \in USER(x) \cup PASS(x)
    BY <1>3 DEF Handler
  <2> QED BY <1>3, <2>1, LoginFine
<1>4. CASE c \in {"REST", "RNFR", "RNTO"}
  <2>1. w \in REST(x) \cup RNFR(x) \cup RNTO(x)
    BY <1>4 DEF Handler
  <2> QED BY <2>1, NameFine
<1>5. CASE c \in {"PASV", "PORT"}
  <2>1. w \in PASV(x) \cup PORT(x)
    BY <1>5 DEF Handler
  <2> QED BY <2>1, DataSetUpFine
<1>6. CASE c \notin DuringTransfer \cup {"APPE", "RETR", "STOR", "LIST", "MLSD", "MLST", "NLST",
                                         "USER", "PASS", "REST", "RNFR", "RNTO", "PORT", "PASV"}
  <2>1. w \in Settle(x) \cup ALLO(x) \cup LoggedIn(x, Settle(x))
    BY <1>6 DEF Handler, DuringTransfer, AllCommands, CDUP, CWD, DELE, FEAT, HELP, MDTM, MKD,
                MODE, OPTS, RMD, SITE, SIZE, STOU, STRU, SYST, TYPE
  <2>2. CASE w \in Settle(x) \cup LoggedIn(x, Settle(x))
    BY <2>2, SettleIdle DEF LoggedIn, Called, Fine
  <2>3. CASE w \in ALLO(x)
    BY <2>3, ReplyThenCommand DEF ALLO, Called, Fine
  <2> QED BY <2>1, <2>2, <2>3
<1> QED BY <1>1, <1>2, <1>3, <1>4, <1>5, <1>6

\* ABOR, NOOP, PWD, QUIT and STAT under a transfer, whose own reply is still to
\* come: they answer once and leave it alone, or (ABOR) answer for both and end it.
LEMMA HandlerDuringTransfer ==
  ASSUME NEW x, Busy(x, 2), NEW c \in DuringTransfer, NEW w \in Handler(c, x)
  PROVE  Goes(x, w)
<1>1. ASSUME NEW y \in SendResponse(x, 1)
      PROVE  Alike(x, y) /\ y.state # "COMMAND" /\ Busy(y, 1)
  <2>1. Alike(x, y) /\ y.state = x.state /\ Owes(y, 2 - 1)
    BY <1>1, ReplyAlike DEF Busy, Prepared
  <2>2. Prepared(y)
    BY <2>1, AlikePrepared DEF Busy
  <2> QED BY <2>1, <2>2 DEF Busy
<1>2. CASE w \in SendResponse(x, 1)
  BY <1>1, <1>2 DEF Goes, Fine, Alike
<1>3. CASE \E y \in SendResponse(x, 1) : w \in Fail(y)
  BY <1>1, <1>3, BusyMayFail DEF Goes, Fine, Idle
<1>4. ASSUME NEW y, Alike(x, y), y.state # "COMMAND", w = CloseCommand(y)
      PROVE  Goes(x, w)
  <2>1. Alike(y, w) /\ w.state = y.state /\ w.commandSocket = None
    BY <1>4, CloseAlike DEF Alike
  <2>2. Alike(x, w)
    BY <1>4, <2>1 DEF Alike, SameClient, SameSource
  <2>3. Prepared(w)
    BY <2>2, AlikePrepared DEF Busy
  <2> QED BY <1>4, <2>1, <2>2, <2>3 DEF Goes, Fine, Busy, Owes, Alike
<1>5. CASE w \in QUIT(x)
  BY <1>1, <1>4, <1>5 DEF QUIT
<1>6. CASE w \in BufferResponse(x)
  <2>1. CASE w = x /\ x.commandSocket = None
    BY <2>1 DEF Goes, Fine, Busy, Owes, SameSource
  <2>2. CASE w = [x EXCEPT !.response = TRUE, !.owed = @ - 1]
    BY <2>2 DEF Goes, Fine, Busy, Prepared, Has, Fields, Authorized, Owes, SameSource
  <2>3. CASE w = CloseCommand(x)
    <3>1. Alike(x, x)
      BY DEF Alike, SameClient, SameSource, Busy, Prepared
    <3> QED BY <1>4, <2>3, <3>1 DEF Busy
  <2> QED BY <1>6, <2>1, <2>2, <2>3 DEF BufferResponse
<1>7. w \in ABOR(x) \cup NOOP(x) \cup PWD(x) \cup QUIT(x) \cup STAT(x)
  BY DEF DuringTransfer, Handler
<1> QED BY <1>2, <1>3, <1>5, <1>6, <1>7 DEF ABOR, NOOP, PWD, STAT, Busy

-----------------------------------------------------------------------------
(* The steps of the session.                                                *)

\* A step that leaves the login and the transfer alone, and with them what is owed.
LEMMA AlikeStep ==
  ASSUME Fine(session), NEW y, Alike(session, y), y.state = session.state,
         y.commandSocket = session.commandSocket, y.owed = session.owed
  PROVE  Goes(session, y)
<1>1. CASE Idle(session)
  BY <1>1, AlikePrepared DEF Goes, Fine, Idle, Alike, Owes
<1>2. CASE Busy(session, 1)
  <2>1. Owes(y, 1)
    BY <1>2 DEF Busy, Owes
  <2> QED BY <1>2, <2>1, BusyGoesOn DEF Busy
<1> QED BY <1>1, <1>2 DEF Fine

\* A step that also closes the command socket: nobody waits for a reply then.
LEMMA ClosedAlike ==
  ASSUME Fine(session), NEW y, Alike(session, y), y.state = session.state,
         y.commandSocket = None
  PROVE  Goes(session, y)
<1>1. CASE Idle(session)
  BY <1>1, AlikePrepared DEF Goes, Fine, Idle, Alike, Owes
<1>2. CASE Busy(session, 1)
  <2>1. Owes(y, 1)
    BY DEF Owes
  <2> QED BY <1>2, <2>1, BusyGoesOn DEF Busy
<1> QED BY <1>1, <1>2 DEF Fine

\* What the steps start from.
LEMMA FineHas == Fine(session) => Has(session) /\ Alike(session, session)
BY DEF Fine, Idle, Busy, Prepared, Alike, SameClient, SameSource

\* What changes sockets and flags only.
LEMMA ClosedStep ==
  ASSUME Fine(session)
  PROVE  /\ Goes(session, CloseCommand(session))
         /\ Goes(session, CloseData(ClosePasv(CloseCommand(session))))
<1>1. Goes(session, CloseCommand(session))
  BY FineHas, CloseAlike, ClosedAlike
<1>2. Goes(session, CloseData(ClosePasv(CloseCommand(session))))
  <2> DEFINE a == CloseCommand(session)
             b == ClosePasv(a)
             c == CloseData(b)
  <2>1. Alike(session, a) /\ a.state = session.state /\ a.commandSocket = None
    BY FineHas, CloseAlike
  <2> HIDE DEF a
  <2>2. Alike(a, b) /\ b.state = a.state /\ b.commandSocket = a.commandSocket
    BY <2>1, CloseAlike DEF Alike
  <2> HIDE DEF b
  <2>3. Alike(b, c) /\ c.state = b.state /\ c.commandSocket = b.commandSocket
    BY <2>2, CloseAlike DEF Alike
  <2> HIDE DEF c
  <2>4. Alike(session, c) /\ c.state = session.state /\ c.commandSocket = None
    BY <2>1, <2>2, <2>3 DEF Alike, SameClient, SameSource
  <2>5. Goes(session, c)
    BY <2>4, ClosedAlike
  <2> QED BY <2>5 DEF c, b, a
<1> QED BY <1>1, <1>2

\* poll, the destructor and the idle test.
LEMMA PollFine ==
  ASSUME Fine(session), Poll \/ Reap \/ Destroy \/ IdleTest
  PROVE  Goes(session, session')
<1>1. CASE Poll
  <2>1. PICK p, f, l : \/ session' = [[session EXCEPT !.pendingCloseSocket = p] EXCEPT !.fault = f]
                       \/ session' = [[session EXCEPT !.pendingCloseSocket = p] EXCEPT !.stale = l]
    BY <1>1 DEF Poll
  <2>2. CASE session' = [[session EXCEPT !.pendingCloseSocket = p] EXCEPT !.fault = f]
    <3> DEFINE x == [session EXCEPT !.pendingCloseSocket = p]
    <3>1. /\ Alike(session, x) /\ x.state = session.state
          /\ x.commandSocket = session.commandSocket /\ x.owed = session.owed
      BY FineHas DEF Alike, Has, Fields, SameClient, SameSource
    <3>2. session' = [x EXCEPT !.fault = f]
      BY <2>2
    <3> HIDE DEF x
    <3>3. /\ Alike(session, session') /\ session'.state = session.state
          /\ session'.commandSocket = session.commandSocket /\ session'.owed = session.owed
      BY <3>1, <3>2 DEF Alike, Has, Fields, SameClient, SameSource
    <3> QED BY <3>3, AlikeStep
  <2>3. CASE session' = [[session EXCEPT !.pendingCloseSocket = p] EXCEPT !.stale = l]
    <3> DEFINE x == [session EXCEPT !.pendingCloseSocket = p]
    <3>1. /\ Alike(session, x) /\ x.state = session.state
          /\ x.commandSocket = session.commandSocket /\ x.owed = session.owed
      BY FineHas DEF Alike, Has, Fields, SameClient, SameSource
    <3>2. session' = [x EXCEPT !.stale = l]
      BY <2>3
    <3> HIDE DEF x
    <3>3. /\ Alike(session, session') /\ session'.state = session.state
          /\ session'.commandSocket = session.commandSocket /\ session'.owed = session.owed
      BY <3>1, <3>2 DEF Alike, Has, Fields, SameClient, SameSource
    <3> QED BY <3>3, AlikeStep
  <2> QED BY <2>1, <2>2, <2>3, SMTT(60)
<1>2. CASE Reap
  <2>1. session' = [session EXCEPT !.pendingCloseSocket = {}]
    BY <1>2 DEF Reap
  <2>2. /\ Alike(session, session') /\ session'.state = session.state
        /\ session'.commandSocket = session.commandSocket /\ session'.owed = session.owed
    BY <2>1, FineHas DEF Alike, Has, Fields, SameClient, SameSource
  <2> QED BY <2>2, AlikeStep
<1>3. CASE Destroy
  <2> DEFINE c == CloseData(ClosePasv(CloseCommand(session)))
  <2>1. session' = [c EXCEPT !.pendingCloseSocket = {}]
    BY <1>3 DEF Destroy
  <2>2. Goes(session, c)
    BY ClosedStep
  <2> HIDE DEF c
  <2>3. Has(c)
    BY <2>2 DEF Goes, Fine, Idle, Busy, Prepared
  <2>4. Fine(session') /\ SameSource(c, session') /\ session'.state = c.state
    BY <2>1, <2>2, <2>3 DEF Goes, Fine, Idle, Busy, Prepared, Has, Fields, Legit, Authorized, Owes, SameSource
  <2> QED BY <2>2, <2>4 DEF Goes, SameSource
<1>4. CASE IdleTest
  <2>1. session' = session \/ session' = CloseData(ClosePasv(CloseCommand(session)))
    BY <1>4 DEF IdleTest
  <2> QED BY <2>1, ClosedStep DEF Goes, SameSource
<1> QED BY <1>1, <1>2, <1>3, <1>4

\* The command socket, up to the commands.
LEMMA ControlFine ==
  ASSUME Fine(session), WriteResponse \/ ReadUrgent \/ ReadCommand \/ HangUp
  PROVE  Goes(session, session')
<1>1. CASE WriteResponse
  <2>1. \/ session' = [session EXCEPT !.response = FALSE, !.stale = FALSE]
        \/ session' = [session EXCEPT !.stale = FALSE]
        \/ session' = CloseCommand(session)
        \/ session' = [session EXCEPT !.fault = "emptyWrite"]
        \/ session' = session
    BY <1>1 DEF WriteResponse
  <2>2. CASE session' = CloseCommand(session)
    BY <2>2, ClosedStep
  <2>3. CASE session' # CloseCommand(session)
    <3>1. /\ Alike(session, session') /\ session'.state = session.state
          /\ session'.commandSocket = session.commandSocket /\ session'.owed = session.owed
      BY <2>1, <2>3, FineHas DEF Alike, Has, Fields, SameClient, SameSource
    <3> QED BY <3>1, AlikeStep
  <2> QED BY <2>2, <2>3
<1>2. CASE ReadUrgent
  <2> DEFINE x == [session EXCEPT !.urgent = TRUE]
  <2>1. \/ session' = [session EXCEPT !.fault = "nullCommand", !.urgent = TRUE]
        \/ session' = CloseCommand(x)
        \/ session' = [x EXCEPT !.stale = FALSE]
    BY <1>2 DEF ReadUrgent
  <2>2. CASE session' = CloseCommand(x)
    <3>1. Alike(session, x) /\ x.state = session.state
      BY FineHas DEF Alike, Has, Fields, SameClient, SameSource
    <3> HIDE DEF x
    <3>2. Alike(x, session') /\ session'.state = x.state /\ session'.commandSocket = None
      BY <2>2, <3>1, CloseAlike DEF Alike
    <3>3. Alike(session, session')
      BY <3>1, <3>2 DEF Alike, SameClient, SameSource
    <3> QED BY <3>1, <3>2, <3>3, ClosedAlike
  <2>3. CASE session' # CloseCommand(x)
    <3>1. /\ Alike(session, session') /\ session'.state = session.state
          /\ session'.commandSocket = session.commandSocket /\ session'.owed = session.owed
      BY <2>1, <2>3, FineHas DEF Alike, Has, Fields, SameClient, SameSource
    <3> QED BY <3>1, AlikeStep
  <2> QED BY <2>2, <2>3
<1>3. CASE ReadCommand
  <2>1. \/ session' = [session EXCEPT !.fault = "nullCommand"]
        \/ session' = CloseCommand(session)
        \/ session' = [session EXCEPT !.stale = FALSE]
        \/ session' = [session EXCEPT !.stale = FALSE, !.urgent = FALSE]
    BY <1>3 DEF ReadCommand
  <2>2. CASE session' = CloseCommand(session)
    BY <2>2, ClosedStep
  <2>3. CASE session' # CloseCommand(session)
    <3>1. /\ Alike(session, session') /\ session'.state = session.state
          /\ session'.commandSocket = session.commandSocket /\ session'.owed = session.owed
      BY <2>1, <2>3, FineHas DEF Alike, Has, Fields, SameClient, SameSource
    <3> QED BY <3>1, AlikeStep
  <2> QED BY <2>2, <2>3
<1>4. CASE HangUp
  BY <1>4, ClosedStep DEF HangUp
<1> QED BY <1>1, <1>2, <1>3, <1>4

\* The command that was taken: one more reply is owed.
LEMMA TakenOwes ==
  ASSUME Fine(session)
  PROVE  /\ Idle(session) => Called(Taken)
         /\ Busy(session, 1) => Busy(Taken, 2)
         /\ Has(Taken) /\ Legit(Taken) /\ Taken.state = session.state
         /\ Taken.rename = session.rename /\ SameSource(session, Taken)
<1> DEFINE n == IF session.commandSocket = None THEN 0 ELSE session.owed + 1
<1>1. Taken = [session EXCEPT !.stale = FALSE, !.owed = n]
  BY DEF Taken
<1>2. Owes(session, 0) => (session.commandSocket # None => n = 1)
  BY DEF Owes
<1>3. Owes(session, 1) => (session.commandSocket # None => n = 2)
  BY DEF Owes
<1> HIDE DEF n
<1>4. /\ Alike(session, Taken) /\ Taken.state = session.state
      /\ Taken.commandSocket = session.commandSocket /\ Taken.owed = n
  BY <1>1, FineHas DEF Alike, Has, Fields, SameClient, SameSource
<1>5. Legit(session)
  BY DEF Fine, Idle, Busy, Prepared, Legit
<1>6. Idle(session) => Called(Taken)
  BY <1>2, <1>4, <1>5, AlikePrepared DEF Idle, Called, Alike, Owes
<1>7. Busy(session, 1) => Busy(Taken, 2)
  BY <1>3, <1>4, AlikePrepared DEF Busy, Owes
<1> QED BY <1>4, <1>5, <1>6, <1>7, AlikePrepared DEF Alike, SameClient

\* A word that is no command, in any state.
LEMMA UnknownFine ==
  ASSUME Fine(session), UnknownCommand
  PROVE  Goes(session, session')
<1> DEFINE x == Taken
<1>1. session' \in BufferResponse(x)
  BY DEF UnknownCommand
<1>2. /\ Idle(session) => Called(x)
      /\ Busy(session, 1) => Busy(x, 2)
      /\ x.state = session.state /\ SameSource(session, x)
  BY TakenOwes
<1> HIDE DEF x
<1>3. CASE Idle(session)
  <2>1. Fine(session')
    <3>1. CASE x.commandSocket = None
      BY <1>1, <1>2, <1>3, <3>1 DEF BufferResponse, Fine, Idle, Called, Owes
    <3>2. CASE session' = [x EXCEPT !.response = TRUE, !.owed = @ - 1]
      BY <1>2, <1>3, <3>2 DEF Fine, Idle, Called, Has, Fields, Legit, Authorized, Owes
    <3>3. CASE session' = CloseCommand(x)
      BY <1>2, <1>3, <3>3, CloseAlike, AlikePrepared DEF Fine, Idle, Called, Alike, Owes
    <3> QED BY <1>1, <3>1, <3>2, <3>3 DEF BufferResponse
  <2> QED BY <1>3, <2>1 DEF Goes, Idle
<1>4. CASE Busy(session, 1)
  <2>1. Goes(x, session')
    <3>1. CASE session' = x /\ x.commandSocket = None
      BY <1>2, <1>4, <3>1 DEF Goes, Fine, Busy, Owes, SameSource
    <3>2. CASE session' = [x EXCEPT !.response = TRUE, !.owed = @ - 1]
      BY <1>2, <1>4, <3>2 DEF Goes, Fine, Busy, Prepared, Has, Fields, Authorized, Owes, SameSource
    <3>3. CASE session' = CloseCommand(x)
      <4>1. Alike(x, session') /\ session'.state = x.state /\ session'.commandSocket = None
        BY <1>2, <1>4, <3>3, CloseAlike DEF Busy, Prepared
      <4>2. Prepared(session')
        BY <1>2, <1>4, <4>1, AlikePrepared DEF Busy
      <4> QED BY <1>2, <1>4, <4>1, <4>2 DEF Goes, Fine, Busy, Owes, Alike
    <3> QED BY <1>1, <3>1, <3>2, <3>3 DEF BufferResponse
  <2> QED BY <1>2, <2>1 DEF Goes, SameSource
<1> QED BY <1>3, <1>4 DEF Fine

\* A command that may not come now ends the session; the others are run, with the
\* name of RNFR for RNTO only.
LEMMA CommandFine ==
  ASSUME Fine(session), NEW c \in Commands, RefuseCommand(c) \/ ExecuteCommand(c)
  PROVE  Goes(session, session')
<1> DEFINE t == Taken
<1>1. /\ Idle(session) => Called(t)
      /\ Busy(session, 1) => Busy(t, 2)
      /\ Has(t) /\ Legit(t) /\ t.state = session.state
      /\ t.rename = session.rename /\ SameSource(session, t)
  BY TakenOwes
<1>2. CASE RefuseCommand(c)
  <2>1. PICK x \in Fail(t) : session' = CloseCommand(x)
    BY <1>2 DEF RefuseCommand
  <2>2. PICK z \in SendResponse(t, 1) : x = SetState(z, "COMMAND", TRUE, TRUE)
    BY <2>1 DEF Fail
  <2> HIDE DEF t
  <2>3. Owes(t, 2)
    BY <1>1, <1>2 DEF Fine, Idle, Busy, RefuseCommand
  <2>4. Has(x) /\ x.state = "COMMAND" /\ Legit(x)
    BY <1>1, <2>2, <2>3, ReplyThenCommand
  <2>5. Alike(x, session') /\ session'.state = "COMMAND" /\ session'.commandSocket = None
    BY <2>1, <2>4, CloseAlike
  <2> QED BY <2>4, <2>5, AlikePrepared DEF Goes, Fine, Idle, Owes, Alike
<1>3. CASE ExecuteCommand(c) /\ session.state = "COMMAND"
  <2> DEFINE x == IF c = "RNTO" THEN t ELSE [t EXCEPT !.rename = FALSE]
  <2>1. c \in AllCommands \ {"OTHER"} /\ session' \in Handler(c, x)
    BY <1>3, CommandsAssumption DEF ExecuteCommand
  <2>2. Called(t)
    BY <1>1, <1>3 DEF Fine, Busy
  <2> HIDE DEF t
  <2>3. Called(x) /\ (x.rename => c = "RNTO")
    BY <2>2 DEF Called, Has, Fields, Legit, Authorized, Owes
  <2> HIDE DEF x
  <2>4. Fine(session')
    BY <2>1, <2>3, HandlerFine
  <2> QED BY <1>3, <2>4 DEF Goes
<1>4. CASE ExecuteCommand(c) /\ session.state # "COMMAND"
  <2>1. Busy(t, 2)
    BY <1>1, <1>4 DEF Fine, Idle
  <2>2. session' \in Handler(c, t) /\ c \in DuringTransfer
    BY <1>4 DEF ExecuteCommand
  <2> HIDE DEF t
  <2>3. Goes(t, session')
    BY <2>1, <2>2, HandlerDuringTransfer
  <2> QED BY <1>1, <2>3 DEF Goes, SameSource
<1> QED BY <1>2, <1>3, <1>4

\* The data socket's entries and the transfer loop, which only runs in a transfer.
LEMMA DataFine ==
  ASSUME Fine(session), DataStep \/ TransferStep,
         pc = "transfer" => session.state # "COMMAND"
  PROVE  Goes(session, session')
<1>1. CASE NotData
  BY <1>1 DEF NotData, Goes, SameSource
<1>2. CASE DataInCommand
  <2>1. session' = [session EXCEPT !.fault = "abort"]
    BY <1>2 DEF DataInCommand
  <2>2. /\ Alike(session, session') /\ session'.state = session.state
        /\ session'.commandSocket = session.commandSocket /\ session'.owed = session.owed
    BY <2>1, FineHas DEF Alike, Has, Fields, SameClient, SameSource
  <2> QED BY <2>2, AlikeStep
<1>3. CASE DataConnectEvent
  <2>1. session' \in Connected(session, revents) /\ Busy(session, 1)
    BY <1>3 DEF DataConnectEvent, Fine, Idle
  <2>2. \/ session' \in Fail(session)
        \/ session' \in DataAccept(session)
        \/ session' = session
        \/ session' = [session EXCEPT !.fault = "nullData"]
        \/ session' \in Ready(session)
    BY <2>1 DEF Connected
  <2>3. CASE session' \in Fail(session)
    BY <2>1, <2>3, BusyMayFail
  <2>4. CASE session' \in DataAccept(session)
    BY <2>1, <2>4, DataAcceptGoes
  <2>5. CASE session' \in Ready(session)
    <3>1. Alike(session, session') /\ session'.state = "DATA_TRANSFER" /\ Owes(session', 1)
      BY <2>1, <2>5, ReadyAlike DEF Busy, Prepared
    <3> QED BY <2>1, <3>1, BusyGoesOn
  <2>6. CASE session' = session \/ session' = [session EXCEPT !.fault = "nullData"]
    <3>1. /\ Alike(session, session') /\ session'.state = session.state
          /\ session'.commandSocket = session.commandSocket /\ session'.owed = session.owed
      BY <2>6, FineHas DEF Alike, Has, Fields, SameClient, SameSource
    <3> QED BY <3>1, AlikeStep
  <2> QED BY <2>2, <2>3, <2>4, <2>5, <2>6
<1>4. CASE DataTransferEvent
  <2>1. session' \in Fail(session) \/ session' = session
    BY <1>4 DEF DataTransferEvent
  <2>2. Busy(session, 1)
    BY <1>4 DEF DataTransferEvent, Fine, Idle
  <2> QED BY <2>1, <2>2, BusyMayFail DEF Goes, SameSource
<1>5. CASE TransferStep
  <2>1. \/ session' \in ListGoing(session) \cup ListEnding(session) \cup GlobGoing(session)
                     \cup GlobEnding(session) \cup RetrieveGoing(session) \cup RetrieveEnding(session)
        \/ session' \in StoreGoing(session) \cup StoreEnding(session)
    BY <1>5 DEF TransferStep, ListTransfer, GlobTransfer, RetrieveTransfer, StoreTransfer
  <2>2. pc = "transfer"
    BY <1>5 DEF TransferStep, ListTransfer, GlobTransfer, RetrieveTransfer, StoreTransfer, InTransfer
  <2>3. Busy(session, 1)
    BY <2>2 DEF Fine, Idle
  <2>4. CASE session' \in StoreGoing(session) \cup StoreEnding(session)
    BY <2>3, <2>4, StoringGoes
  <2>5. CASE session' \in ListGoing(session) \cup ListEnding(session) \cup GlobGoing(session)
                          \cup GlobEnding(session) \cup RetrieveGoing(session)
                          \cup RetrieveEnding(session)
    BY <2>3, <2>5, SendingGoes
  <2> QED BY <2>1, <2>4, <2>5
<1> QED BY <1>1, <1>2, <1>3, <1>4, <1>5 DEF DataStep

\* The loop goes round again only within a transfer.
LEMMA LoopInTransfer ==
  ASSUME Fine(session), pc = "transfer" => session.state # "COMMAND", Next,
         pc' = "transfer"
  PROVE  session'.state # "COMMAND"
<1>1. CASE TransferStep
  <2>1. session' \in ListGoing(session) \cup GlobGoing(session) \cup RetrieveGoing(session)
                     \cup StoreGoing(session)
    BY <1>1 DEF TransferStep, ListTransfer, GlobTransfer, RetrieveTransfer, StoreTransfer, NextEntry
  <2>2. pc = "transfer"
    BY <1>1 DEF TransferStep, ListTransfer, GlobTransfer, RetrieveTransfer, StoreTransfer, InTransfer
  <2>3. Busy(session, 1)
    BY <2>2 DEF Fine, Idle
  <2> QED BY <2>1, <2>3, GoingBusy DEF Busy
<1>2. CASE DataStep
  BY <1>2 DEF DataStep, NotData, DataInCommand, DataConnectEvent, DataTransferEvent, NextEntry
<1>3. CASE CommandStep
  BY <1>3 DEF CommandStep, WriteResponse, ReadUrgent, ReadCommand, UnknownCommand, HangUp,
              RefuseCommand, ExecuteCommand, NextCommand, AfterWrite, AfterRead
<1>4. CASE Poll \/ Reap \/ Destroy \/ IdleTest
  BY <1>4 DEF Poll, Reap, Destroy, IdleTest
<1>5. CASE Over
  BY <1>5 DEF Over, vars
<1> QED BY <1>1, <1>2, <1>3, <1>4, <1>5 DEF Next, ThreadStep

\* Outside handlers the session is fine, and the transfer loop runs in a transfer.
FineInv == Fine(session) /\ (pc = "transfer" => session.state # "COMMAND")

\* The constructor leaves an idle session whose greeting was no final reply.
LEMMA FineInit == Init => FineInv
<1> SUFFICES ASSUME Init PROVE FineInv
  OBVIOUS
<1>1. PICK a, noUser, noPass, indeterminate :
        session \in SendResponse([NewSession(a) EXCEPT !.authorizedUser = noUser,
                                                       !.authorizedPass = noPass,
                                                       !.stale = indeterminate], 0)
  BY DEF Init
<1> DEFINE n == NewSession(a)
           x == [n EXCEPT !.authorizedUser = noUser, !.authorizedPass = noPass,
                          !.stale = indeterminate]
<1>2. Has(n) /\ n.state = "COMMAND" /\ ~n.rename /\ n.owed = 0
  BY DEF NewSession, Has, Fields
<1>3. session \in SendResponse(x, 0)
  BY <1>1
<1> HIDE DEF n
<1>4. Has(x) /\ x.state = "COMMAND" /\ ~x.rename /\ Owes(x, 0)
  BY <1>2 DEF Has, Fields, Owes
<1> HIDE DEF x
<1>5. Alike(x, session) /\ session.state = x.state /\ Owes(session, 0 - 0)
  BY <1>3, <1>4, ReplyAlike
<1>6. Idle(session)
  BY <1>4, <1>5 DEF Idle, Alike, SameClient, Legit
<1> QED BY <1>6 DEF FineInv, Fine, Init

\* Every step keeps the invariant, and a transfer its source.
LEMMA FineNext == FineInv /\ [Next]_vars => FineInv' /\ Goes(session, session')
<1> SUFFICES ASSUME FineInv, [Next]_vars PROVE FineInv' /\ Goes(session, session')
  OBVIOUS
<1>1. Fine(session) /\ (pc = "transfer" => session.state # "COMMAND")
  BY DEF FineInv
<1>2. CASE UNCHANGED vars
  BY <1>1, <1>2 DEF vars, FineInv, Goes, SameSource
<1>3. CASE Next
  <2>1. Goes(session, session')
    <3>1. CASE Poll \/ Reap \/ Destroy \/ IdleTest
      BY <1>1, <3>1, PollFine
    <3>2. CASE WriteResponse \/ ReadUrgent \/ ReadCommand \/ HangUp
      BY <1>1, <3>2, ControlFine
    <3>3. CASE UnknownCommand
      BY <1>1, <3>3, UnknownFine
    <3>4. CASE \E c \in Commands : RefuseCommand(c) \/ ExecuteCommand(c)
      BY <1>1, <3>4, CommandFine
    <3>5. CASE DataStep \/ TransferStep
      BY <1>1, <3>5, DataFine
    <3>6. CASE Over
      BY <1>1, <3>6 DEF Over, vars, Goes, SameSource
    <3> QED BY <1>3, <3>1, <3>2, <3>3, <3>4, <3>5, <3>6 DEF Next, ThreadStep, CommandStep
  <2>2. pc' = "transfer" => session'.state # "COMMAND"
    BY <1>1, <1>3, LoopInTransfer
  <2> QED BY <2>1, <2>2 DEF FineInv, Goes
<1> QED BY <1>2, <1>3

-----------------------------------------------------------------------------

\* FineInv is inductive by itself: it reads no socket but m_commandSocket.
THEOREM FineInvariance == Spec => []FineInv
BY FineInit, FineNext, PTL DEF Spec

\* A file is read or written only when xferFile opened it or /devZero stands in,
\* whatever order of commands, failed openings and events led to the transfer.
THEOREM FileAtHand == Spec => []TransferHasFile
<1>1. FineInv => TransferHasFile
  BY DEF FineInv, Fine, Idle, Busy, Prepared, TransferHasFile
<1> QED BY <1>1, FineInvariance, PTL

\* USER and PASS never leave a transfer, or a name for RNTO, to a client that is
\* not logged in.
THEOREM LoginKept == Spec => []LoggedInToAct
<1>1. FineInv => LoggedInToAct
  BY DEF FineInv, Fine, Idle, Busy, Prepared, Legit, LoggedInToAct
<1> QED BY <1>1, FineInvariance, PTL

\* Every command is answered exactly once, and an aborted transfer besides ABOR,
\* whichever handler, failure or event ends it.
THEOREM AnsweredOnce == Spec => []OneFinalReply
<1>1. FineInv => OneFinalReply
  BY DEF FineInv, Fine, Idle, Busy, Owes, OneFinalReply
<1> QED BY <1>1, FineInvariance, PTL

\* No file or listing starts with bytes an earlier transfer left in m_xferBuffer.
THEOREM NoOldBytes == Spec => []FreshBuffer
<1>1. FineInv => FreshBuffer
  BY DEF FineInv, Fine, Idle, Busy, Prepared, FreshBuffer
<1> QED BY <1>1, FineInvariance, PTL

\* Nothing that happens during a transfer, ABOR, STAT and lost replies included,
\* changes its routine, its mode or its source.
THEOREM SourceKept == Spec => TransferUndisturbed
<1>1. FineInv /\ [Next]_vars =>
        [ session.state # "COMMAND" /\ session'.state # "COMMAND" =>
            /\ session'.transfer = session.transfer
            /\ session'.xferDirMode = session.xferDirMode
            /\ session'.file = session.file
            /\ session'.dir = session.dir
            /\ session'.devZero = session.devZero ]_vars
  BY FineNext DEF Goes, SameSource
<1> QED BY <1>1, FineInvariance, PTL DEF Spec, TransferUndisturbed

-----------------------------------------------------------------------------
(***************************************************************************)
(* How far a call of poll has come.  That PollReturns holds takes fairness  *)
(* and is left to TLC; what it rests on is that no step goes back.          *)
(***************************************************************************)

(* What an entry still costs at most: the places behind pc, and the commands read. *)
Left ==
  CASE pc = "entry"    -> MaxBatch + 4
    [] pc = "read"     -> MaxBatch + 3
    [] pc = "commands" -> batch + 2
    [] pc = "hangup"   -> 2
    [] pc = "data"     -> 1
    [] OTHER           -> 0

Bounded == reported \in Seq(Entry) /\ Len(reported) <= 2

(* The call returns, an entry is done with, the work on one goes on, or a transfer does. *)
Advance ==
  pc \notin {"poll", "reaped"} =>
    \/ pc' = "poll"
    \/ Len(reported') < Len(reported)
    \/ reported' = reported /\ Left' < Left
    \/ reported' = reported /\ TransferStep /\ pc' = "transfer"

\* poll asks of two sockets at most.
LEMMA TwoEntries ==
  ASSUME NEW x, NEW c \in CommandReports(x), NEW d \in DataReports(x)
  PROVE  Len(c) <= 1 /\ Len(d) <= 1 /\ Len(c \o d) <= 2
<1>1. ASSUME NEW a, NEW E, NEW r \in Reports(a, E)
      PROVE  \E S : r \in Seq(S) /\ Len(r) <= 1
  <2>1. CASE r = <<>>
    <3>1. r \in Seq({}) /\ Len(r) <= 1
      BY <2>1
    <3> QED BY <3>1
  <2>2. ASSUME NEW e, r = <<e>> PROVE \E S : r \in Seq(S) /\ Len(r) <= 1
    <3>1. r \in Seq({e}) /\ Len(r) <= 1
      BY <2>2
    <3> QED BY <3>1
  <2> QED BY <1>1, <2>1, <2>2 DEF Reports
<1>2. PICK S : c \in Seq(S) /\ Len(c) <= 1
  <2>1. CASE c = <<>>
    <3>1. c \in Seq({}) /\ Len(c) <= 1
      BY <2>1
    <3> QED BY <3>1
  <2> QED BY <1>1, <2>1 DEF CommandReports
<1>3. PICK T : d \in Seq(T) /\ Len(d) <= 1
  <2>1. CASE d = <<>>
    <3>1. d \in Seq({}) /\ Len(d) <= 1
      BY <2>1
    <3> QED BY <3>1
  <2>2. ASSUME NEW p \in DataPolled(x), d \in Reports(p[1], {p[2]})
        PROVE  \E T : d \in Seq(T) /\ Len(d) <= 1
    BY <1>1, <2>2
  <2> QED BY <2>1, <2>2 DEF DataReports
<1>4. c \in Seq(S \cup T) /\ d \in Seq(S \cup T) /\ Len(c) \in Nat /\ Len(d) \in Nat
  BY <1>2, <1>3
<1>5. Len(c \o d) = Len(c) + Len(d)
  BY <1>4
<1> QED BY <1>2, <1>3, <1>4, <1>5

\* An entry that is done with is gone from the list.
LEMMA EntryDone ==
  ASSUME Bounded, reported # <<>>, NextEntry
  PROVE  Bounded' /\ Len(reported') < Len(reported)
<1>1. reported' = Tail(reported)
  BY DEF NextEntry
<1> DEFINE t == Tail(reported)
<1>2. t \in Seq(Entry) /\ Len(t) = Len(reported) - 1 /\ Len(reported) \in Nat
  BY DEF Bounded
<1> HIDE DEF t
<1> QED BY <1>1, <1>2 DEF Bounded, t

\* Every step of a call.
LEMMA StepAdvances ==
  ASSUME IndInv, Bounded, [Next]_vars
  PROVE  Bounded' /\ [Advance]_vars
<1>1. batch \in 0..MaxBatch /\ MaxBatch \in Nat
  BY MaxBatchAssumption DEF IndInv, TypeOK
<1>2. pc \in {"read", "commands", "hangup", "data", "transfer"} => reported # <<>>
  BY DEF IndInv, ControlOK
<1>3. CASE Poll
  <2>1. pc = "poll" /\ (reported' = reported \/
          \E x : \E c \in CommandReports(x), d \in DataReports(x) : reported' = c \o d)
    <3>1. pc = "poll"
      BY <1>3 DEF Poll
    <3>2. PICK closed \in SUBSET session.pendingCloseSocket :
            LET x == [session EXCEPT !.pendingCloseSocket = @ \ closed]
            IN  reported' = reported \/ \E c \in CommandReports(x), d \in DataReports(x) : reported' = c \o d
      BY <1>3 DEF Poll
    <3> DEFINE x == [session EXCEPT !.pendingCloseSocket = @ \ closed]
    <3>3. reported' = reported \/ \E c \in CommandReports(x), d \in DataReports(x) : reported' = c \o d
      BY <3>2
    <3> HIDE DEF x
    <3> QED BY <3>1, <3>3
  <2>2. Len(reported') <= 2
    BY <2>1, TwoEntries DEF Bounded
  <2>3. reported' \in Seq(Entry)
    BY <1>3, PollStep DEF IndInv, TypeOK
  <2> QED BY <2>1, <2>2, <2>3 DEF Bounded, Advance
<1>4. CASE Reap \/ Destroy
  BY <1>4 DEF Reap, Destroy, Bounded, Advance
<1>5. CASE WriteResponse
  <2>1. pc = "entry" /\ pc' \in {"read", "hangup", "data"} /\ reported' = reported
    BY <1>5 DEF WriteResponse, AtCommandSocket, AfterWrite
  <2>2. Left' < Left
    BY <1>1, <2>1 DEF Left
  <2> QED BY <2>1, <2>2 DEF Bounded, Advance
<1>6. CASE ReadUrgent
  <2>1. pc = "read" /\ pc' \in {"hangup", "data"} /\ reported' = reported
    BY <1>6 DEF ReadUrgent, AfterRead
  <2>2. Left' < Left
    BY <1>1, <2>1 DEF Left
  <2> QED BY <2>1, <2>2 DEF Bounded, Advance
<1>7. CASE ReadCommand
  <2>1. /\ pc = "read" /\ reported' = reported
        /\ pc' \in {"hangup", "data"} \/ (pc' = "commands" /\ batch' \in 0..MaxBatch)
    BY <1>1, <1>7 DEF ReadCommand, AfterRead
  <2>2. Left' < Left
    BY <1>1, <2>1 DEF Left
  <2> QED BY <2>1, <2>2 DEF Bounded, Advance
<1>8. CASE UnknownCommand \/ \E c \in Commands : RefuseCommand(c) \/ ExecuteCommand(c)
  <2>1. /\ pc = "commands" /\ reported' = reported /\ batch' = batch - 1
        /\ pc' \in {"hangup", "data", "commands"} /\ (pc' = "commands" => batch # 1)
    BY <1>8 DEF UnknownCommand, RefuseCommand, ExecuteCommand, NextCommand, AfterRead
  <2>2. batch > 0
    BY <2>1 DEF IndInv, ControlOK
  <2>3. Left' < Left
    BY <1>1, <2>1, <2>2 DEF Left
  <2> QED BY <2>1, <2>3 DEF Bounded, Advance
<1>9. CASE HangUp
  <2>1. pc = "hangup" /\ pc' = "data" /\ reported' = reported
    BY <1>9 DEF HangUp
  <2>2. Left' < Left
    BY <2>1 DEF Left
  <2> QED BY <2>1, <2>2 DEF Bounded, Advance
<1>10. CASE DataStep
  <2>1. reported # <<>> /\ pc \in {"data", "entry"}
    BY <1>10 DEF DataStep, NotData, DataInCommand, DataConnectEvent, DataTransferEvent, AtData
  <2>2. CASE NextEntry
    BY <2>1, <2>2, EntryDone DEF Advance
  <2>3. CASE ~NextEntry
    <3>1. pc' = "transfer" /\ reported' = reported
      BY <1>10, <2>3 DEF DataStep, NotData, DataInCommand, DataConnectEvent, DataTransferEvent
    <3>2. Left' < Left
      BY <1>1, <2>1, <3>1 DEF Left
    <3> QED BY <3>1, <3>2 DEF Bounded, Advance
  <2> QED BY <2>2, <2>3
<1>11. CASE TransferStep
  <2>1. pc = "transfer" /\ (NextEntry \/ (pc' = "transfer" /\ reported' = reported))
    BY <1>11 DEF TransferStep, ListTransfer, GlobTransfer, RetrieveTransfer, StoreTransfer,
                 InTransfer, GoOn
  <2>2. CASE NextEntry
    BY <1>2, <2>1, <2>2, EntryDone DEF Advance
  <2>3. CASE pc' = "transfer" /\ reported' = reported
    BY <1>11, <2>3 DEF Bounded, Advance
  <2> QED BY <2>1, <2>2, <2>3
<1>12. CASE IdleTest
  BY <1>12 DEF IdleTest, Bounded, Advance
<1>13. CASE UNCHANGED vars
  BY <1>13 DEF vars, Bounded
<1> QED
  BY <1>3, <1>4, <1>5, <1>6, <1>7, <1>8, <1>9, <1>10, <1>11, <1>12, <1>13
     DEF Next, ThreadStep, CommandStep, DataStep, Over

\* A call of poll looks at two entries at most, each for a bounded number of steps: whatever is
\* reported and however many commands were read, every step that is not one of a transfer going
\* on brings the call nearer to its return.
THEOREM CallAdvances ==
  Spec => [](Len(reported) <= 2 /\ Left \in 0..MaxBatch + 4) /\ [][Advance]_vars
<1>1. Init => Bounded
  BY DEF Init, Bounded
<1>2. IndInv /\ Bounded /\ [Next]_vars => Bounded' /\ [Advance]_vars
  BY StepAdvances
<1>3. IndInv /\ Bounded => Len(reported) <= 2 /\ Left \in 0..MaxBatch + 4
  <2> SUFFICES ASSUME IndInv, Bounded PROVE Len(reported) <= 2 /\ Left \in 0..MaxBatch + 4
    OBVIOUS
  <2>1. batch \in 0..MaxBatch /\ MaxBatch \in Nat
    BY MaxBatchAssumption DEF IndInv, TypeOK
  <2>2. Left \in 0..MaxBatch + 4
    BY <2>1 DEF Left
  <2> QED BY <2>2 DEF Bounded
<1>4. Spec => []Bounded /\ [][Advance]_vars
  BY <1>1, <1>2, Invariance, PTL DEF Spec
<1> QED BY <1>3, <1>4, Invariance, PTL

=============================================================================
