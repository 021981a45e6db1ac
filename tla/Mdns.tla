-------------------------------- MODULE Mdns --------------------------------
(***************************************************************************)
(* The mDNS responder (source/mdns.cpp) as the server thread drives it:     *)
(* probing and announcing the host name, answering queries, and what        *)
(* happens to that when the name is changed by SITE HOST, when the network  *)
(* is lost and found, and when the server is restarted: the state of the    *)
(* responder is static and outlives the server.                             *)
(*                                                                          *)
(* Time is kept as the ages of s_lastProbe and s_lastAnnounce, in ticks, up *)
(* to the first that is past every interval they are compared with.         *)
(***************************************************************************)
EXTENDS Integers, Sequences

CONSTANTS Names,          \* the host names that are used
          Default,        \* platform::hostname ()
          Empty,          \* the empty string
          Encodable,      \* the names whose labels fit into a message
          Dotted,         \* the names with a dot: with .local they have three labels
          ProbeWait,      \* 250ms
          AnnounceWait,   \* 1s
          QuarterTTL,     \* MDNS_TTL / 4
          MaxQuestions    \* bound: questions in one message

ASSUME DefaultAssumption == Default \in Names /\ Empty \notin Names
ASSUME WaitAssumption == /\ {ProbeWait, AnnounceWait, QuarterTTL} \subseteq Nat
                         /\ ProbeWait <= AnnounceWait /\ AnnounceWait <= QuarterTTL
ASSUME MaxQuestionsAssumption == MaxQuestions \in Nat

VARIABLES mdns,      \* the static variables of mdns.cpp
          socket,    \* m_mdnsSocket (and with it m_socket) is there
          sent,      \* the datagrams the last call handed to writeTo
          failed,    \* those of them, by index, that writeTo did not send
          probes,    \* history: probes sent for this name since it, or the socket, was set
          lost,      \* history: probes and announcements writeTo did not send, since then
          known      \* history: this name was announced to all, since then

history == <<probes, lost, known>>
vars == <<mdns, socket, sent, failed, history>>

Ages == 0..(QuarterTTL + 1)

States == {"Probe1", "Probe2", "Probe3", "Announce1", "Announce2", "Complete", "Conflict"}

Following == [Probe1 |-> "Probe2", Probe2 |-> "Probe3", Probe3 |-> "Announce1",
              Announce1 |-> "Announce2", Announce2 |-> "Complete"]

\* A datagram: intact unless encode has garbled the name in it.
Datagram == [kind : {"probe", "announcement", "answer"}, to : {"all", "asker"},
             host : Names, intact : BOOLEAN]

Question == [host : Names, local : BOOLEAN, unicast : BOOLEAN]

TypeOK == /\ mdns \in [state : States, host : Names, probeAge : Ages, announceAge : Ages]
          /\ socket \in BOOLEAN
          /\ sent \in Seq(Datagram)
          /\ failed \subseteq DOMAIN sent
          /\ probes \in Nat
          /\ lost \in [probe : Nat, announcement : Nat]
          /\ known \in BOOLEAN

NoneLost == [probe |-> 0, announcement |-> 0]

Init == /\ \E age \in Ages :
             mdns = [state |-> "Probe1", host |-> Default, probeAge |-> age, announceAge |-> age]
        /\ socket = FALSE
        /\ sent = <<>> /\ failed = {}
        /\ probes = 0
        /\ lost = NoneLost
        /\ known = FALSE

-----------------------------------------------------------------------------
(* Sending                                                                 *)

\* encode cuts every label but the first at the wrong place, which only shows
\* in one that is not the last either.
Intact(host, local) == ~(local /\ host \in Dotted)

\* The record after a call and the datagrams it hands to writeTo.  Nobody looks at what
\* writeTo returns: times are noted and states go on whether or not anything went out.
Done(m, out) == [m |-> m, out |-> out]

\* A name that cannot be encoded is not sent, and no time is noted.
probe(m) ==
  IF m.host \notin Encodable THEN Done(m, <<>>)
  ELSE Done([m EXCEPT !.probeAge = 0],
            <<[kind |-> "probe", to |-> "all", host |-> m.host, intact |-> TRUE]>>)

\* To the asker if so preferred, and to all unless that was done a short time ago.
announce(m, kind, local, preferUnicast) ==
  LET to(whom) == [kind |-> kind, to |-> whom, host |-> m.host, intact |-> Intact(m.host, local)]
      toAsker  == IF preferUnicast THEN <<to("asker")>> ELSE <<>>
  IN  IF m.host \notin Encodable THEN Done(m, <<>>)
      ELSE IF ~preferUnicast \/ m.announceAge > QuarterTTL
           THEN Done([m EXCEPT !.announceAge = 0], Append(toAsker, to("all")))
           ELSE Done(m, toAsker)

-----------------------------------------------------------------------------
(* mdns::handleSocket                                                      *)

Advance(r) == [r EXCEPT !.m.state = Following[@]]

\* Mutant: an announcement is due when the last one is recent.
TimedTooEarly(m) ==
  IF m.state \in {"Probe1", "Probe2", "Probe3"} /\ m.probeAge > ProbeWait
  THEN Advance(probe(m))
  ELSE IF m.state \in {"Announce1", "Announce2"} /\ m.announceAge < AnnounceWait
       THEN Advance(announce(m, "announcement", FALSE, FALSE))
       ELSE Done(m, <<>>)

\* The next probe or announcement, when it is due.
Timed(m) ==
  IF m.state \in {"Probe1", "Probe2", "Probe3"} /\ m.probeAge > ProbeWait
  THEN Advance(probe(m))
  ELSE IF m.state \in {"Announce1", "Announce2"} /\ m.announceAge > AnnounceWait
       THEN Advance(announce(m, "announcement", FALSE, FALSE))
       ELSE Done(m, <<>>)

\* The name and the name with .local are both ours.  What was decoded as a
\* question can be encoded.
Ours(m, q) == q.host = m.host /\ q.host \in Encodable

\* The first question for us is answered, the others only decoded.
Answered(m, questions) ==
  LET ours == {i \in DOMAIN questions : Ours(m, questions[i])}
      q    == questions[CHOOSE i \in ours : \A j \in ours : i <= j]
  IN  IF ours = {} THEN Done(m, <<>>) ELSE announce(m, "answer", q.local, q.unicast)

\* What the call reads.  Nothing, a message that is not IPv4, our own, ill-formed
\* or a response are all as good as a message without questions; one that breaks
\* off counts up to there, and so do questions of other types and classes.
Messages == UNION {[1..n -> Question] : n \in 0..MaxQuestions}

\* Of the datagrams whose indices are in which: a call makes one probe or announcement
\* at most.
Count(kind, out, which) == IF \E i \in which : out[i].kind = kind THEN 1 ELSE 0

ToAll(out, which) == \E i \in which : /\ out[i].to = "all" /\ out[i].intact
                                      /\ out[i].kind # "probe"

\* writeTo fails for any of them, and the network loses none of the others.
writeTo(out) ==
  /\ sent' = out
  /\ failed' \in SUBSET DOMAIN out
  /\ LET gone == DOMAIN out \ failed'
     IN  /\ probes' = probes + Count("probe", out, gone)
         /\ known' = (known \/ ToAll(out, gone))
  /\ lost' = [probe        |-> lost.probe + Count("probe", out, failed'),
              announcement |-> lost.announcement + Count("announcement", out, failed')]

handleSocket(questions) ==
  /\ socket
  /\ LET timed    == Timed(mdns)
         answered == Answered(timed.m, questions)
     IN  mdns' = answered.m /\ writeTo(timed.out \o answered.out)
  /\ UNCHANGED socket

-----------------------------------------------------------------------------
(* What happens around it                                                  *)

\* Mutant: the new name goes on where the old one was.
setHostnameGoesOn(m, given) ==
  LET host == IF given = Empty THEN Default ELSE given
  IN  [m EXCEPT !.host = host]

\* Mutant: an empty name is taken as it is.
setHostnameEmpty(m, given) ==
  IF m.host = given THEN m ELSE [m EXCEPT !.host = given, !.state = "Probe1", !.probeAge = 0]

\* A new name is probed from the start.
setHostname(m, given) ==
  LET host == IF given = Empty THEN Default ELSE given
  IN  IF m.host = host THEN m ELSE [m EXCEPT !.host = host, !.state = "Probe1", !.probeAge = 0]

Nothing == sent' = <<>> /\ failed' = {}

Afresh == probes' = 0 /\ lost' = NoneLost /\ known' = FALSE

\* What was known is about the old name.
Forget == IF mdns'.host = mdns.host THEN UNCHANGED history ELSE Afresh

\* SITE HOST, between two calls.
SiteHost == \E given \in Names \cup {Empty} : /\ mdns' = setHostname(mdns, given)
                                             /\ Forget
                                             /\ Nothing
                                             /\ UNCHANGED socket

\* The network was found, and the socket can be set up (if not, it is only tried
\* again once the network was lost and found).
createSocket == /\ ~socket /\ socket' = TRUE
                /\ mdns' = [mdns EXCEPT !.state = "Probe1", !.probeAge = 0]
                /\ Afresh /\ Nothing

NetworkLost == socket /\ socket' = FALSE /\ Nothing /\ UNCHANGED <<mdns, history>>

\* The server stops and another one is made; the host name in the configuration
\* it loads is always empty.
Restart == /\ socket' = FALSE /\ Nothing
           /\ mdns' = setHostname(mdns, Empty)
           /\ Forget

Older(age) == IF age <= QuarterTTL THEN age + 1 ELSE age

Tick == /\ mdns' = [mdns EXCEPT !.probeAge = Older(@), !.announceAge = Older(@)]
        /\ UNCHANGED <<socket, sent, failed, history>>

-----------------------------------------------------------------------------

Change == SiteHost \/ createSocket \/ NetworkLost \/ Restart

Next == \/ \E questions \in Messages : handleSocket(questions)
        \/ Change
        \/ Tick

Spec == Init /\ [][Next]_vars

\* The server's loop runs, and so does the clock; nobody needs to ask.
FairSpec == Spec /\ WF_vars(handleSocket(<<>>)) /\ WF_vars(Tick)

-----------------------------------------------------------------------------
(* Properties                                                              *)

\* No name is announced, or taken to be settled, on a socket before three probes for this
\* very name were made there, whenever SITE HOST or the network interferes; those that did
\* not go out are those that writeTo failed to send, which nothing makes up for.
ProbedFirst ==
  mdns.host \in Encodable /\ mdns.state \in {"Announce1", "Announce2", "Complete"} /\ socket
    => probes + lost.probe = 3

AnswerFails == \E i \in failed : sent[i].kind = "answer" /\ sent[i].to = "all"

\* Whatever state the responder was in, and whatever is asked of it meanwhile (an answer to
\* all puts the next announcement off), a host name that can be sent becomes known to all
\* when name and network stay, unless both announcements fail: one of them is enough.  No
\* third is made, and an answer to all that fails puts the announcement off as well, so that
\* answers that fail again and again can do so for ever.  Names with a dot are left out:
\* garbled answers to their .local form can put the announcement off for ever.
BecomesKnown ==
  \/ []<>(known \/ lost.announcement = 2 \/ ~socket \/ mdns.host \notin Encodable \ Dotted)
  \/ []<>AnswerFails
  \/ []<><<Change>>_<<mdns, socket>>

=============================================================================
