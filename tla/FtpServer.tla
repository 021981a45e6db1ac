----------------------------- MODULE FtpServer -----------------------------
(***************************************************************************)
(* The two threads of the plugin and what they share.                       *)
(*                                                                          *)
(* The plugin thread runs the callbacks of source/wiiu/platform.cpp: the    *)
(* application starts and ends, the menu switches the server or the access  *)
(* to the system files.  They mount volumes, fill the table of virtual      *)
(* directories, and create and destroy the FtpServer.                       *)
(*                                                                          *)
(* The server thread is FtpServer::threadFunc.  A session is what the loop  *)
(* sees of it: there, dead, or gone, and the volumes it has files open on;  *)
(* FtpSession is one of them in detail (its Reap is Reap here, its Destroy  *)
(* is NetworkLost or StopReturned).                                         *)
(*                                                                          *)
(* start_server runs while there is no server thread, and so does the rest  *)
(* of stop_server after the join: each is part of one step.                 *)
(***************************************************************************)
EXTENDS Integers

CONSTANTS Clients,         \* the sessions there can be at once
          SystemVolumes    \* the volumes start_server tries to mount

ASSUME SystemVolumesAssumption == "fs" \notin SystemVolumes

VARIABLES
  app,         \* an application is running
  enabled,     \* sFTPServerEnabled
  allowed,     \* sSystemFilesAllowed
  stopping,    \* the callback that is inside stop_server, or "no"
  server,      \* `server' points to an FtpServer
  volumes,     \* what is mounted and listed, see Tables
  quit,        \* m_quit
  place,       \* where the server thread is in loop
  socket,      \* m_socket is there: listening
  mdnsSocket,  \* m_mdnsSocket is there
  sessions,    \* m_sessions
  dead,        \* those of them that are dead ()
  opened       \* the system volumes each session has files open on

settings == <<app, enabled, allowed>>
network == <<socket, mdnsSocket, sessions, dead, opened>>
vars == <<settings, stopping, server, volumes, quit, place, network>>

Tables == [mounted : SUBSET SystemVolumes,                       \* by Mocha_MountFS
           flag    : BOOLEAN,                                    \* sMochaPathsWereMounted
           root    : SUBSET (SystemVolumes \cup {"fs"}),   \* sVirtualDirs[":/"], {} without it
           stuck   : SUBSET SystemVolumes]   \* history: what Mocha_UnmountFS failed to unmount

\* "none": there is no thread; "ended": threadFunc returned and can be joined.
Places == {"none", "loop", "listen", "reap", "poll", "ended"}

\* What the callback does after stop_server.
Callbacks == {"disable", "restart", "end"}

TypeOK == /\ app \in BOOLEAN /\ enabled \in BOOLEAN /\ allowed \in BOOLEAN
          /\ stopping \in Callbacks \cup {"no"}
          /\ server \in BOOLEAN
          /\ volumes \in Tables
          /\ quit \in BOOLEAN
          /\ place \in Places
          /\ socket \in BOOLEAN /\ mdnsSocket \in BOOLEAN
          /\ sessions \subseteq Clients
          /\ dead \subseteq sessions
          /\ opened \in [Clients -> SUBSET SystemVolumes]

NoFiles == [c \in Clients |-> {}]

\* INITIALIZE_PLUGIN has read the two settings.
Init == /\ app = FALSE /\ enabled \in BOOLEAN /\ allowed \in BOOLEAN
        /\ stopping = "no" /\ server = FALSE
        /\ volumes = [mounted |-> {}, flag |-> FALSE, root |-> {}, stuck |-> {}]
        /\ quit = FALSE /\ place = "none"
        /\ socket = FALSE /\ mdnsSocket = FALSE
        /\ sessions = {} /\ dead = {} /\ opened = NoFiles

-----------------------------------------------------------------------------
(* The plugin thread                                                       *)

\* Mutant: a volume is listed although its mount failed.
MountedListsAll(v, a) ==
  {v} \cup { [v EXCEPT !.mounted = @ \cup m, !.flag = @ \/ a,
                      !.root = IF a THEN SystemVolumes \cup {"fs"} ELSE {"fs"}]
             : m \in IF a THEN SUBSET SystemVolumes ELSE {{}} }

\* What start_server does to the volumes when access to them is a: the library
\* may not initialise, and each mount may fail.  addVirtualPath inserts: an
\* entry that is already there stays.
Mounted(v, a) ==
  {v} \cup { [v EXCEPT !.mounted = @ \cup m,
                      !.flag = @ \/ a,
                      !.root = IF @ = {} THEN m \cup {"fs"} ELSE @]
             : m \in IF a THEN SUBSET SystemVolumes ELSE {{}} }

\* Mutant: the table of virtual directories is not cleared.
UnmountedKeepsTable(v) ==
  { [v EXCEPT !.mounted = left, !.flag = FALSE, !.stuck = IF v.flag THEN left ELSE @]
    : left \in IF v.flag THEN SUBSET v.mounted ELSE {v.mounted} }

\* What stop_server does to them.  Mocha_UnmountFS may fail for any: what is left over then
\* is not looked at, nor tried again before access was allowed once more.
Unmounted(v) ==
  { [v EXCEPT !.mounted = left, !.flag = FALSE, !.root = {},
              !.stuck = IF v.flag THEN left ELSE @]
    : left \in IF v.flag THEN SUBSET v.mounted ELSE {v.mounted} }

\* A new FtpServer and its thread.
Created == server' = TRUE /\ quit' = FALSE /\ place' = "loop"

start_server ==
  IF server THEN UNCHANGED <<server, volumes, quit, place>>
            ELSE Created /\ volumes' \in Mounted(volumes, allowed)

\* Mutant: the server is started whatever the setting.
ApplicationStartAlways ==
  /\ ~app /\ stopping = "no"
  /\ app' = TRUE
  /\ start_server
  /\ UNCHANGED <<enabled, allowed, stopping, network>>

ApplicationStart ==
  /\ ~app /\ stopping = "no"
  /\ app' = TRUE
  /\ IF enabled THEN start_server ELSE UNCHANGED <<server, volumes, quit, place>>
  /\ UNCHANGED <<enabled, allowed, stopping, network>>

\* Mutant: the volumes go before the thread does.
StopUnmountsFirst(why) ==
  /\ stopping' = why
  /\ quit' = server
  /\ volumes' \in Unmounted(volumes)
  /\ UNCHANGED <<server, place, network>>

\* stop_server up to the join: ~FtpServer sets m_quit.
Stop(why) ==
  /\ stopping' = why
  /\ quit' = server
  /\ UNCHANGED <<server, volumes, place, network>>

ApplicationEnd ==
  /\ app /\ stopping = "no"
  /\ Stop("end")
  /\ UNCHANGED settings

SwitchOn ==
  /\ app /\ stopping = "no"
  /\ enabled' = TRUE
  /\ start_server
  /\ UNCHANGED <<app, allowed, stopping, network>>

SwitchOff ==
  /\ app /\ stopping = "no"
  /\ enabled' = FALSE
  /\ Stop("disable")
  /\ UNCHANGED <<app, allowed>>

\* A running server is restarted with the new setting.
SwitchAccess ==
  /\ app /\ stopping = "no"
  /\ \/ server /\ Stop("restart") /\ UNCHANGED settings
     \/ /\ ~server
        /\ allowed' \in BOOLEAN
        /\ UNCHANGED <<app, enabled, stopping, server, volumes, quit, place, network>>

\* The thread is joined; with no server there is nothing to wait for.
Joined == server => place = "ended"

\* The members of FtpServer are destroyed, then the volumes go, then the
\* callback does what it stopped the server for.
StopReturned ==
  /\ stopping # "no" /\ Joined
  /\ stopping' = "no"
  /\ socket' = FALSE /\ mdnsSocket' = FALSE
  /\ sessions' = {} /\ dead' = {} /\ opened' = NoFiles
  /\ IF stopping = "restart"
     THEN /\ allowed' \in BOOLEAN
          /\ Created
          /\ \E v \in Unmounted(volumes) : volumes' \in Mounted(v, allowed')
     ELSE /\ server' = FALSE /\ quit' = FALSE /\ place' = "none"
          /\ volumes' \in Unmounted(volumes)
          /\ UNCHANGED allowed
  /\ app' = (app /\ stopping # "end")
  /\ UNCHANGED enabled

-----------------------------------------------------------------------------
(* The server thread: FtpServer::loop                                      *)

At(p) == place = p /\ UNCHANGED <<settings, stopping, server, volumes, quit>>

\* Mutant: m_quit is only looked at while there is no session.
QuitWhenEmpty == quit /\ sessions = {}

\* Mutant: the loop ends without a network.
QuitWithoutNetwork == quit \/ ~socket

\* `while (!m_quit)'.
Quitting == quit

ThreadEnd == At("loop") /\ Quitting /\ place' = "ended" /\ UNCHANGED network

\* Any of its calls may fail; the network always counts as visible.
NetworkFound ==
  \/ UNCHANGED <<socket, mdnsSocket>>
  \/ socket' = TRUE /\ mdnsSocket' \in {mdnsSocket, TRUE}

LoopStart ==
  /\ At("loop") /\ ~Quitting
  /\ place' = "listen"
  /\ IF socket THEN UNCHANGED <<socket, mdnsSocket>> ELSE NetworkFound
  /\ UNCHANGED <<sessions, dead, opened>>

\* Mutant: the sessions are kept.
NetworkLostKeepsSessions ==
  socket' = FALSE /\ mdnsSocket' = FALSE /\ UNCHANGED <<sessions, dead, opened>>

NetworkLost == /\ sessions' = {} /\ dead' = {} /\ opened' = NoFiles
               /\ socket' = FALSE /\ mdnsSocket' = FALSE

\* Nothing came, a client did, or the socket does not work any more.
Listen ==
  /\ At("listen")
  /\ \/ place' = "reap" /\ UNCHANGED network
     \/ /\ socket /\ place' = "reap"
        /\ \E c \in Clients \ sessions : sessions' = sessions \cup {c}
        /\ UNCHANGED <<socket, mdnsSocket, dead, opened>>
     \/ socket /\ place' = "loop" /\ NetworkLost

\* Mutant: the dead sessions leave m_sessions but not deadSessions.
ReapKeepsDead ==
  /\ At("reap")
  /\ place' = "poll"
  /\ sessions' = sessions \ dead
  /\ UNCHANGED <<socket, mdnsSocket, dead, opened>>

\* Dead sessions are destroyed, with whatever they still had open.
Reap ==
  /\ At("reap")
  /\ place' = "poll"
  /\ sessions' = sessions \ dead
  /\ dead' = {}
  /\ opened' = [c \in Clients |-> IF c \in dead THEN {} ELSE opened[c]]
  /\ UNCHANGED <<socket, mdnsSocket>>

\* FtpSession::poll: files are opened and closed, on what is mounted; sessions
\* die; or the poll fails and all of them are destroyed.
PollSessions ==
  /\ At("poll")
  /\ place' = "loop"
  /\ IF sessions = {} THEN UNCHANGED network
     ELSE \/ NetworkLost
          \/ /\ dead' \in SUBSET sessions
             /\ \E c \in sessions, v \in SUBSET volumes.mounted :
                  opened' = [opened EXCEPT ![c] = v]
             /\ UNCHANGED <<socket, mdnsSocket, sessions>>

PluginStep == \/ ApplicationStart \/ ApplicationEnd
              \/ SwitchOn \/ SwitchOff \/ SwitchAccess \/ StopReturned

ThreadStep == ThreadEnd \/ LoopStart \/ Listen \/ Reap \/ PollSessions

Next == PluginStep \/ ThreadStep

Spec == Init /\ [][Next]_vars

\* Both threads run, and one day the network is there.
Fairness == /\ WF_vars(ThreadStep)
            /\ WF_vars(StopReturned)
            /\ SF_vars(LoopStart /\ socket')

FairSpec == Spec /\ Fairness

-----------------------------------------------------------------------------

\* "If this option is disabled, you can only access /fs/vol/...": whenever a
\* client can be connected, after any sequence of switches, starts and ends,
\* the system volumes are neither mounted nor listed unless that is allowed -
\* but for those that Mocha_UnmountFS left mounted, which are not listed.
SystemFilesHidden ==
  server /\ stopping = "no" /\ ~allowed =>
    volumes.mounted \subseteq volumes.stuck /\ volumes.root \subseteq {"fs"}

\* A listing of the root never names a volume that is not mounted.
ListedIsMounted ==
  server => volumes.root \ {"fs"} \subseteq volumes.mounted

\* No volume goes away under a file that a session has open.
VolumesInUse == \A c \in Clients : opened[c] \subseteq volumes.mounted

\* Sessions are only served from behind a listening socket: a lost network
\* leaves none of them.
SessionsBehindSocket == sessions # {} => socket

\* The switch shows what is the case: between two callbacks of a running
\* application the server runs if and only if it is enabled, and never without
\* an application.
ServerFollowsSwitch == stopping = "no" => (server <=> app /\ enabled)

\* The strengthening the proofs need (FtpServer_proofs): what holds of the
\* volumes also while a callback is inside stop_server or there is no server,
\* and what each callback stops for.
VolumesOK ==
  /\ volumes.mounted \subseteq volumes.stuck \/ (volumes.flag /\ allowed)
  /\ volumes.root \subseteq volumes.mounted \cup {"fs"}
  /\ volumes.root \subseteq {"fs"} \/ allowed
  /\ ~server => volumes.mounted \subseteq volumes.stuck /\ volumes.root = {}

CallbackOK ==
  /\ stopping = "restart" => server /\ app /\ enabled
  /\ stopping = "disable" => app /\ ~enabled
  /\ stopping = "end" => app

IndInv == /\ TypeOK /\ VolumesInUse /\ SessionsBehindSocket /\ ServerFollowsSwitch
          /\ VolumesOK /\ CallbackOK
          /\ ~server => ~socket /\ place = "none"

\* stop_server returns: neither a busy session nor a lost network keeps the
\* server thread from seeing m_quit.
StopReturns == stopping # "no" ~> stopping = "no"

\* A server that lost its network, or never had one, listens when it can,
\* however often setting up the sockets failed half-way before.
ListensAgain == server ~> socket \/ stopping # "no"

=============================================================================
