-------------------------- MODULE FtpServer_proofs --------------------------
(***************************************************************************)
(* The plugin's safety for any number of sessions and volumes.  IndInv is   *)
(* inductive; its parts disturb each other little, so each action is shown  *)
(* to keep all of them at once from what it assigns.                        *)
(***************************************************************************)
EXTENDS FtpServer, TLAPS

(* What VolumesOK says of volumes v when access to them is a. *)
InOrder(v, a) ==
  /\ v \in Tables
  /\ v.mounted \subseteq v.stuck \/ (v.flag /\ a)
  /\ v.root \subseteq v.mounted \cup {"fs"}
  /\ v.root \subseteq {"fs"} \/ a

(* Starting from volumes that were unmounted, as far as that went, leaves them in order *)
(* for the setting a.                                                                   *)
LEMMA MountedOK ==
  ASSUME NEW v \in Tables, NEW a \in BOOLEAN, NEW w \in Mounted(v, a),
         v.mounted \subseteq v.stuck, v.root = {}
  PROVE  InOrder(w, a)
<1>1. CASE w = v
  BY <1>1 DEF InOrder
<1>2. CASE w # v
  <2>1. PICK m \in IF a THEN SUBSET SystemVolumes ELSE {{}} :
          w = [v EXCEPT !.mounted = @ \cup m, !.flag = @ \/ a,
                        !.root = IF @ = {} THEN m \cup {"fs"} ELSE @]
    BY <1>2 DEF Mounted
  <2>2. m \subseteq SystemVolumes /\ (m # {} => a)
    OBVIOUS
  <2>3. /\ w.mounted = v.mounted \cup m /\ w.root = m \cup {"fs"} /\ w.flag = (v.flag \/ a)
        /\ w.stuck = v.stuck
        /\ w = [mounted |-> w.mounted, flag |-> w.flag, root |-> w.root, stuck |-> w.stuck]
    BY <2>1 DEF Tables
  <2>4. v.flag \in BOOLEAN /\ v.mounted \subseteq SystemVolumes /\ v.stuck \subseteq SystemVolumes
    BY DEF Tables
  <2>5. w \in Tables
    BY <2>2, <2>3, <2>4 DEF Tables
  <2> QED BY <2>2, <2>3, <2>4, <2>5 DEF InOrder
<1> QED BY <1>1, <1>2

(* stop_server leaves nothing mounted but what it fails to unmount, and nothing listed. *)
LEMMA UnmountedOK ==
  ASSUME NEW v \in Tables, v.mounted \subseteq v.stuck \/ v.flag, NEW w \in Unmounted(v)
  PROVE  w \in Tables /\ w.mounted \subseteq w.stuck /\ w.root = {}
<1>1. PICK left \in IF v.flag THEN SUBSET v.mounted ELSE {v.mounted} :
        w = [v EXCEPT !.mounted = left, !.flag = FALSE, !.root = {},
                      !.stuck = IF v.flag THEN left ELSE @]
  BY DEF Unmounted
<1>2. /\ w.mounted = left /\ w.flag = FALSE /\ w.root = {}
      /\ w.stuck = IF v.flag THEN left ELSE v.stuck
      /\ w = [mounted |-> w.mounted, flag |-> w.flag, root |-> w.root, stuck |-> w.stuck]
  BY <1>1 DEF Tables
<1>3. left \subseteq SystemVolumes /\ v.stuck \subseteq SystemVolumes
  BY DEF Tables
<1>4. w \in Tables
  BY <1>2, <1>3 DEF Tables
<1> QED BY <1>1, <1>2, <1>4

(* start_server, for a callback in which the server is enabled. *)
LEMMA Starting ==
  ASSUME IndInv, start_server, UNCHANGED allowed, UNCHANGED opened
  PROVE  /\ server' = TRUE /\ quit' \in BOOLEAN /\ place' \in Places
         /\ InOrder(volumes', allowed)
         /\ \A c \in Clients : opened'[c] \subseteq volumes'.mounted
<1>1. /\ volumes \in Tables /\ allowed \in BOOLEAN /\ quit \in BOOLEAN /\ place \in Places
      /\ server \in BOOLEAN
      /\ \A c \in Clients : opened[c] \subseteq volumes.mounted
      /\ InOrder(volumes, allowed)
      /\ ~server => volumes.mounted \subseteq volumes.stuck /\ volumes.root = {}
  BY DEF IndInv, TypeOK, VolumesInUse, VolumesOK, InOrder
<1>2. CASE server
  BY <1>1, <1>2 DEF start_server
<1>3. CASE ~server
  <2>1. volumes' \in Mounted(volumes, allowed) /\ Created
    BY <1>3 DEF start_server
  <2>2. InOrder(volumes', allowed)
    BY <1>1, <1>3, <2>1, MountedOK
  <2>3. volumes.mounted \subseteq volumes'.mounted
    <3>1. ASSUME NEW m, volumes' = [volumes EXCEPT !.mounted = @ \cup m, !.flag = @ \/ allowed,
                              !.root = IF @ = {} THEN m \cup {"fs"} ELSE @]
          PROVE  volumes.mounted \subseteq volumes'.mounted
      BY <1>1, <3>1 DEF Tables
    <3> QED BY <2>1, <3>1 DEF Mounted
  <2> QED BY <1>1, <1>3, <2>1, <2>2, <2>3 DEF Created, Places
<1> QED BY <1>2, <1>3

LEMMA PluginKeepsIndInv ==
  ASSUME IndInv, PluginStep
  PROVE  IndInv'
<1> USE DEF IndInv, TypeOK, VolumesInUse, SessionsBehindSocket, ServerFollowsSwitch,
            VolumesOK, CallbackOK
<1>1. CASE ApplicationStart
  <2>1. CASE enabled
    <3>1. start_server /\ UNCHANGED <<allowed, opened>>
      BY <1>1, <2>1 DEF ApplicationStart, network
    <3>2. /\ server' = TRUE /\ quit' \in BOOLEAN /\ place' \in Places
          /\ InOrder(volumes', allowed)
          /\ \A c \in Clients : opened'[c] \subseteq volumes'.mounted
      BY <3>1, Starting
    <3> QED BY <1>1, <2>1, <3>2 DEF ApplicationStart, network, InOrder
  <2>2. CASE ~enabled
    BY <1>1, <2>2 DEF ApplicationStart, network
  <2> QED BY <2>1, <2>2
<1>2. CASE SwitchOn
  <2>1. start_server /\ UNCHANGED <<allowed, opened>>
    BY <1>2 DEF SwitchOn, network
  <2>2. /\ server' = TRUE /\ quit' \in BOOLEAN /\ place' \in Places
        /\ InOrder(volumes', allowed)
        /\ \A c \in Clients : opened'[c] \subseteq volumes'.mounted
    BY <2>1, Starting
  <2> QED BY <1>2, <2>2 DEF SwitchOn, network, InOrder
<1>3. CASE ApplicationEnd
  BY <1>3 DEF ApplicationEnd, Stop, settings, network, Callbacks
<1>4. CASE SwitchOff
  BY <1>4 DEF SwitchOff, Stop, network, Callbacks
<1>5. CASE SwitchAccess
  <2>1. CASE server /\ Stop("restart") /\ UNCHANGED settings
    BY <1>5, <2>1 DEF SwitchAccess, Stop, settings, network, Callbacks
  <2>2. CASE /\ ~server /\ allowed' \in BOOLEAN
             /\ UNCHANGED <<app, enabled, stopping, server, volumes, quit, place, network>>
    BY <1>5, <2>2 DEF network
  <2> QED BY <1>5, <2>1, <2>2 DEF SwitchAccess
<1>6. CASE StopReturned
  <2>1. ASSUME NEW v \in Unmounted(volumes)
        PROVE  v \in Tables /\ v.mounted \subseteq v.stuck /\ v.root = {}
    BY UnmountedOK
  <2>2. /\ socket' = FALSE /\ mdnsSocket' = FALSE /\ sessions' = {} /\ dead' = {}
        /\ opened' = NoFiles /\ stopping' = "no" /\ enabled' = enabled
        /\ app' = (app /\ stopping # "end") /\ stopping # "no"
    BY <1>6 DEF StopReturned
  <2>3. /\ opened' \in [Clients -> SUBSET SystemVolumes]
        /\ \A c \in Clients : opened'[c] \subseteq volumes'.mounted
    BY <2>2 DEF NoFiles
  <2>4. CASE stopping = "restart"
    <3>1. /\ allowed' \in BOOLEAN /\ Created
          /\ \E v \in Unmounted(volumes) : volumes' \in Mounted(v, allowed')
      BY <1>6, <2>4 DEF StopReturned
    <3>2. PICK v \in Unmounted(volumes) : volumes' \in Mounted(v, allowed')
      BY <3>1
    <3>3. InOrder(volumes', allowed')
      BY <2>1, <3>1, <3>2, MountedOK
    <3> QED BY <2>2, <2>3, <2>4, <3>1, <3>3 DEF Created, Places, InOrder
  <2>5. CASE stopping # "restart"
    <3>1. /\ server' = FALSE /\ quit' = FALSE /\ place' = "none"
          /\ volumes' \in Unmounted(volumes) /\ allowed' = allowed
      BY <1>6, <2>5 DEF StopReturned
    <3> QED BY <2>1, <2>2, <2>3, <2>5, <3>1 DEF Places, Callbacks
  <2> QED BY <2>4, <2>5
<1> QED BY <1>1, <1>2, <1>3, <1>4, <1>5, <1>6 DEF PluginStep

LEMMA ThreadKeepsIndInv ==
  ASSUME IndInv, ThreadStep
  PROVE  IndInv'
<1> USE DEF IndInv, TypeOK, VolumesInUse, SessionsBehindSocket, ServerFollowsSwitch,
            VolumesOK, CallbackOK, At, settings, network, Places
<1>1. CASE ThreadEnd
  BY <1>1 DEF ThreadEnd
<1>2. CASE LoopStart
  BY <1>2 DEF LoopStart, NetworkFound
<1>3. ASSUME NetworkLost
      PROVE  /\ socket' = FALSE /\ mdnsSocket' = FALSE /\ sessions' = {} /\ dead' = {}
             /\ opened' \in [Clients -> SUBSET SystemVolumes]
             /\ \A c \in Clients : opened'[c] = {}
  BY <1>3 DEF NetworkLost, NoFiles
<1>4. CASE Listen
  <2>1. CASE NetworkLost
    BY <1>3, <1>4, <2>1 DEF Listen
  <2>2. CASE ~NetworkLost
    BY <1>4, <2>2 DEF Listen
  <2> QED BY <2>1, <2>2
<1>5. CASE Reap
  BY <1>5 DEF Reap
<1>6. CASE PollSessions
  <2>1. CASE NetworkLost
    BY <1>3, <1>6, <2>1 DEF PollSessions
  <2>2. CASE sessions = {} /\ UNCHANGED network
    BY <1>6, <2>2 DEF PollSessions
  <2>3. CASE /\ dead' \in SUBSET sessions
             /\ \E c \in sessions, v \in SUBSET volumes.mounted :
                  opened' = [opened EXCEPT ![c] = v]
             /\ UNCHANGED <<socket, mdnsSocket, sessions>>
    <3>1. PICK c \in sessions, v \in SUBSET volumes.mounted :
            opened' = [opened EXCEPT ![c] = v]
      BY <2>3
    <3>2. volumes.mounted \subseteq SystemVolumes
      BY DEF Tables
    <3>3. /\ opened' \in [Clients -> SUBSET SystemVolumes]
          /\ \A k \in Clients : opened'[k] \subseteq volumes.mounted
      BY <3>1, <3>2
    <3> QED BY <1>6, <2>3, <3>3 DEF PollSessions
  <2> QED BY <1>6, <2>1, <2>2, <2>3 DEF PollSessions
<1> QED BY <1>1, <1>2, <1>4, <1>5, <1>6 DEF ThreadStep

LEMMA InitIndInv == Init => IndInv
<1> SUFFICES ASSUME Init PROVE IndInv
  OBVIOUS
<1>1. /\ opened \in [Clients -> SUBSET SystemVolumes]
      /\ \A c \in Clients : opened[c] \subseteq volumes.mounted
  BY DEF Init, NoFiles
<1>2. volumes \in Tables /\ volumes.mounted = {} /\ volumes.root = {}
  BY DEF Init, Tables
<1> QED BY <1>1, <1>2 DEF Init, IndInv, TypeOK, VolumesInUse, SessionsBehindSocket,
                          ServerFollowsSwitch, VolumesOK, CallbackOK, Places

LEMMA NextIndInv == IndInv /\ [Next]_vars => IndInv'
<1> SUFFICES ASSUME IndInv, [Next]_vars PROVE IndInv'
  OBVIOUS
<1>1. CASE UNCHANGED vars
  BY <1>1 DEF vars, settings, network, IndInv, TypeOK, VolumesInUse, SessionsBehindSocket,
              ServerFollowsSwitch, VolumesOK, CallbackOK
<1> QED BY <1>1, PluginKeepsIndInv, ThreadKeepsIndInv DEF Next

-----------------------------------------------------------------------------

(* The inductive invariant of the two threads (FtpServer::loop, platform.cpp). *)
THEOREM ServerInvariance == Spec => []IndInv
BY InitIndInv, NextIndInv, PTL DEF Spec

(* With the access switched off no system volume is listed while clients can *)
(* connect, and none is mounted but what Mocha_UnmountFS failed to unmount    *)
(* (start_server, stop_server).                                              *)
THEOREM Hidden == Spec => []SystemFilesHidden
<1>1. IndInv => SystemFilesHidden
  BY DEF IndInv, VolumesOK, SystemFilesHidden
<1> QED BY <1>1, ServerInvariance, PTL

(* What the root lists can be opened (addVirtualPath after each mount).      *)
THEOREM Listed == Spec => []ListedIsMounted
<1>1. IndInv => ListedIsMounted
  BY DEF IndInv, VolumesOK, ListedIsMounted
<1> QED BY <1>1, ServerInvariance, PTL

(* stop_server unmounts only after ~FtpServer joined the thread and closed   *)
(* every session's files.                                                    *)
THEOREM InUse == Spec => []VolumesInUse
<1>1. IndInv => VolumesInUse
  BY DEF IndInv
<1> QED BY <1>1, ServerInvariance, PTL

(* The server runs exactly while it is switched on and an application runs.  *)
THEOREM Follows == Spec => []ServerFollowsSwitch
<1>1. IndInv => ServerFollowsSwitch
  BY DEF IndInv
<1> QED BY <1>1, ServerInvariance, PTL

(* Sessions are only served from behind a listening socket: handleNetworkLost *)
(* and the end of the loop take both.                                         *)
THEOREM BehindSocket == Spec => []SessionsBehindSocket
<1>1. IndInv => SessionsBehindSocket
  BY DEF IndInv
<1> QED BY <1>1, ServerInvariance, PTL

(* The switches, the server thread and the tables of the volumes keep their   *)
(* types, whichever callback meets the thread where.                          *)
THEOREM TypesKept == Spec => []TypeOK
<1>1. IndInv => TypeOK
  BY DEF IndInv
<1> QED BY <1>1, ServerInvariance, PTL

-----------------------------------------------------------------------------
(* How far stop_server has come *)

(* ~FtpServer set m_quit if there is a server, and nothing resets it while   *)
(* the callback waits.                                                       *)
QuitOK == stopping # "no" => quit = server

LEMMA QuitKept == IndInv /\ QuitOK /\ [Next]_vars => QuitOK'
<1> SUFFICES ASSUME IndInv, QuitOK, [Next]_vars PROVE QuitOK'
  OBVIOUS
<1> USE DEF QuitOK
<1>1. CASE UNCHANGED vars
  BY <1>1 DEF vars
<1>2. CASE ApplicationStart \/ SwitchOn \/ StopReturned
  BY <1>2 DEF ApplicationStart, SwitchOn, StopReturned
<1>3. ASSUME NEW why \in Callbacks, Stop(why)
      PROVE  quit' = server'
  BY <1>3 DEF Stop
<1>4. CASE ApplicationEnd \/ SwitchOff
  BY <1>3, <1>4 DEF ApplicationEnd, SwitchOff, Callbacks
<1>5. CASE SwitchAccess
  BY <1>3, <1>5 DEF SwitchAccess, Callbacks
<1>6. CASE ThreadStep
  BY <1>6 DEF ThreadStep, ThreadEnd, LoopStart, Listen, Reap, PollSessions, At
<1> QED BY <1>1, <1>2, <1>4, <1>5, <1>6 DEF Next, PluginStep

(* The most steps the server thread takes before it looks at m_quit and ends. *)
Distance == CASE place = "listen" -> 4
              [] place = "reap"   -> 3
              [] place = "poll"   -> 2
              [] place = "loop"   -> 1
              [] OTHER            -> 0

(* From the callback's entry on a step either lets it return or brings the    *)
(* thread nearer to its end: no switch, no application starting or ending and *)
(* no new round of the loop comes in between.                                 *)
Ending ==
  stopping # "no" => \/ stopping' = "no"
                     \/ stopping' = stopping /\ Distance' < Distance

LEMMA StepEnds == IndInv /\ QuitOK /\ Next => Ending
<1> SUFFICES ASSUME IndInv, QuitOK, Next, stopping # "no", stopping' # "no"
             PROVE  stopping' = stopping /\ Distance' < Distance
  BY DEF Ending
<1>1. ThreadStep
  BY DEF Next, PluginStep, ApplicationStart, ApplicationEnd, SwitchOn, SwitchOff,
         SwitchAccess, StopReturned
<1>2. UNCHANGED stopping
  BY <1>1 DEF ThreadStep, ThreadEnd, LoopStart, Listen, Reap, PollSessions, At
<1>3. ~LoopStart
  <2>1. ASSUME LoopStart PROVE FALSE
    <3>1. place = "loop" /\ ~quit
      BY <2>1 DEF LoopStart, At, Quitting
    <3>2. ~server
      BY <3>1 DEF QuitOK, IndInv, TypeOK
    <3> QED BY <3>1, <3>2 DEF IndInv
  <2> QED BY <2>1
<1>4. CASE ThreadEnd
  BY <1>2, <1>4 DEF ThreadEnd, At, Distance
<1>5. CASE Listen
  BY <1>2, <1>5 DEF Listen, At, Distance
<1>6. CASE Reap
  BY <1>2, <1>6 DEF Reap, At, Distance
<1>7. CASE PollSessions
  BY <1>2, <1>7 DEF PollSessions, At, Distance
<1> QED BY <1>1, <1>3, <1>4, <1>5, <1>6, <1>7 DEF ThreadStep

(* stop_server cannot be kept waiting: whatever the sessions and the network *)
(* do, at most four steps of the server thread lie between m_quit and the    *)
(* join (~FtpServer, FtpServer::loop).  Fairness only has to run the thread. *)
THEOREM StopAdvances == Spec => [](Distance \in 0..4) /\ [][Ending]_vars
<1>1. Init => QuitOK
  BY DEF Init, QuitOK
<1>2. Distance \in 0..4
  BY DEF Distance
<1>3. IndInv /\ QuitOK /\ [Next]_vars => [Ending]_vars
  BY StepEnds
<1> QED BY <1>1, <1>2, <1>3, QuitKept, ServerInvariance, PTL DEF Spec

=============================================================================
