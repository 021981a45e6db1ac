-------------------------- MODULE SessionCommands --------------------------
(***************************************************************************)
(* The command handlers of FtpSession: one operator per handler whose       *)
(* control differs, from a session record to the set of records the handler *)
(* may leave.  Arguments and file system results are free choices; paths,   *)
(* the working directory and the file tree are not part of the record.      *)
(***************************************************************************)
EXTENDS SessionObject

\* Every entry of the handlers table, aliases (XCUP, XCWD, XMKD, XPWD, XRMD)
\* left out, and OTHER for a word that is not in it.
AllCommands ==
  {"ABOR", "ALLO", "APPE", "CDUP", "CWD", "DELE", "FEAT", "HELP", "LIST", "MDTM", "MKD",
   "MLSD", "MLST", "MODE", "NLST", "NOOP", "OPTS", "PASS", "PASV", "PORT", "PWD", "QUIT",
   "REST", "RETR", "RMD", "RNFR", "RNTO", "SITE", "SIZE", "STAT", "STOR", "STOU", "STRU",
   "SYST", "TYPE", "USER", "OTHER"}

\* Mutant: MLSD is let through.
DuringTransferWithMLSD == {"ABOR", "MLSD", "NOOP", "PWD", "QUIT", "STAT"}

\* The commands that run while a transfer is under way.
DuringTransfer == {"ABOR", "NOOP", "PWD", "QUIT", "STAT"}

\* Mutant: the aborted transfer is not answered.
ABORWithOneReply(x) == IF x.state = "COMMAND" THEN SendResponse(x, 1) ELSE Fail(x)

ABOR(x) ==
  IF x.state = "COMMAND" THEN SendResponse(x, 1)
  ELSE UNION {Fail(y) : y \in SendResponse(x, 1)}

ALLO(x) == {SetState(y, "COMMAND", FALSE, FALSE) : y \in SendResponse(x, 1)}

\* The shape of the transfer commands: refuse unless logged in, else start.
LoggedIn(x, outcomes) == IF Authorized(x) THEN outcomes ELSE Settle(x)

APPE(x) == LoggedIn(x, XferFile(x, "APPE"))
RETR(x) == LoggedIn(x, XferFile(x, "RETR"))
STOR(x) == LoggedIn(x, XferFile(x, "STOR"))

LIST(x) == LoggedIn(x, XferDir(x, "LIST"))
MLSD(x) == LoggedIn(x, XferDir(x, "MLSD"))
MLST(x) == LoggedIn(x, XferDir(x, "MLST"))
NLST(x) == LoggedIn(x, XferGlob(x) \cup XferDir(x, "NLST"))

NOOP(x) == SendResponse(x, 1)

\* The configuration the password is compared with can change between any two
\* commands (SITE of any session), so both tests are free choices.
PASS(x) ==
  LET y == [SetState(x, "COMMAND", FALSE, FALSE) EXCEPT !.authorizedPass = FALSE]
  IN  SendResponse(y, 1) \cup SendResponse([y EXCEPT !.authorizedPass = TRUE], 1)

\* PASV and PORT first drop the old transfer set-up.
Dropped(x) == [SetState(x, "COMMAND", TRUE, TRUE) EXCEPT !.pasv = FALSE, !.port = FALSE]

\* A socket is created, bound to the command socket's own address and listened on.
Listening(x) ==
  LET listen(a) == [x EXCEPT !.pasvSocket = a]
  IN  IF x.commandSocket = None
      THEN {[listen(a) EXCEPT !.fault = "nullCommand"] : a \in Free(x)}
      ELSE UNION {SendResponse([listen(a) EXCEPT !.pasv = TRUE], 1) : a \in Free(x)}

PASV(x) == LoggedIn(x, SendResponse(Dropped(x), 1) \cup Listening(Dropped(x)))

PORT(x) == LoggedIn(x, SendResponse(Dropped(x), 1)
                       \cup SendResponse([Dropped(x) EXCEPT !.port = TRUE], 1))

PWD(x) == IF Authorized(x) THEN BufferResponse(x) ELSE SendResponse(x, 1)

QUIT(x) == {CloseCommand(y) : y \in SendResponse(x, 1)}

REST(x) ==
  LET y == SetState(x, "COMMAND", FALSE, FALSE)
  IN  Settle(x) \cup LoggedIn(x, SendResponse([y EXCEPT !.restart = TRUE], 1))

RNFR(x) ==
  LET y == SetState(x, "COMMAND", FALSE, FALSE)
  IN  LoggedIn(x, SendResponse(y, 1) \cup SendResponse([y EXCEPT !.rename = TRUE], 1))

RNTO(x) ==
  LET y == SetState(x, "COMMAND", FALSE, FALSE)
  IN  LoggedIn(x, SendResponse([y EXCEPT !.rename = FALSE], 1))

\* STAT with a path lists it on the command connection; without one, and
\* while a transfer is under way, it only reports.
STAT(x) ==
  IF x.state # "COMMAND" THEN SendResponse(x, 1)
  ELSE SendResponse(x, 1) \cup LoggedIn(x, XferDir(x, "STAT"))

USER(x) ==
  LET y == [SetState(x, "COMMAND", FALSE, FALSE) EXCEPT !.authorizedUser = FALSE]
  IN  SendResponse(y, 1) \cup SendResponse([y EXCEPT !.authorizedUser = TRUE], 1)

\* These work on the file tree, for a client that is logged in; whatever comes of
\* it they return to COMMAND, close nothing and reply once.
CDUP(x) == LoggedIn(x, Settle(x))
CWD(x)  == LoggedIn(x, Settle(x))
DELE(x) == LoggedIn(x, Settle(x))
MDTM(x) == LoggedIn(x, Settle(x))
MKD(x)  == LoggedIn(x, Settle(x))
RMD(x)  == LoggedIn(x, Settle(x))
SIZE(x) == LoggedIn(x, Settle(x))

\* So do these, whoever asks.
FEAT(x) == Settle(x)
HELP(x) == Settle(x)
MODE(x) == Settle(x)
OPTS(x) == Settle(x)
STOU(x) == Settle(x)
STRU(x) == Settle(x)
SYST(x) == Settle(x)
TYPE(x) == Settle(x)

\* SITE HELP needs no login, the settings do.
SITE(x) == Settle(x) \cup LoggedIn(x, Settle(x))

\* The handlers table.
Handler(c, x) ==
  CASE c = "ABOR" -> ABOR(x)  [] c = "ALLO" -> ALLO(x)  [] c = "APPE" -> APPE(x)
    [] c = "CDUP" -> CDUP(x)  [] c = "CWD"  -> CWD(x)   [] c = "DELE" -> DELE(x)
    [] c = "FEAT" -> FEAT(x)  [] c = "HELP" -> HELP(x)  [] c = "LIST" -> LIST(x)
    [] c = "MDTM" -> MDTM(x)  [] c = "MKD"  -> MKD(x)   [] c = "MLSD" -> MLSD(x)
    [] c = "MLST" -> MLST(x)  [] c = "MODE" -> MODE(x)  [] c = "NLST" -> NLST(x)
    [] c = "NOOP" -> NOOP(x)  [] c = "OPTS" -> OPTS(x)  [] c = "PASS" -> PASS(x)
    [] c = "PASV" -> PASV(x)  [] c = "PORT" -> PORT(x)  [] c = "PWD"  -> PWD(x)
    [] c = "QUIT" -> QUIT(x)  [] c = "REST" -> REST(x)  [] c = "RETR" -> RETR(x)
    [] c = "RMD"  -> RMD(x)   [] c = "RNFR" -> RNFR(x)  [] c = "RNTO" -> RNTO(x)
    [] c = "SITE" -> SITE(x)  [] c = "SIZE" -> SIZE(x)  [] c = "STAT" -> STAT(x)
    [] c = "STOR" -> STOR(x)  [] c = "STOU" -> STOU(x)  [] c = "STRU" -> STRU(x)
    [] c = "SYST" -> SYST(x)  [] c = "TYPE" -> TYPE(x)  [] c = "USER" -> USER(x)

=============================================================================
