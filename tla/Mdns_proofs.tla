---------------------------- MODULE Mdns_proofs ----------------------------
(***************************************************************************)
(* For all names, intervals and messages: what is announced was probed.     *)
(***************************************************************************)
EXTENDS Mdns, TLAPS

Responder == [state : States, host : Names, probeAge : Ages, announceAge : Ages]

Kinds == {"probe", "announcement", "answer"}

\* How many probes of a name go out before a state is reached.
ProbesBefore(state) == CASE state = "Probe1" -> 0
                         [] state = "Probe2" -> 1
                         [] state = "Probe3" -> 2
                         [] OTHER            -> 3

\* ProbedFirst speaks of the end of the probing only; inductive is the count
\* in every state, of those that went out and those that did not.
Counted == socket /\ mdns.host \in Encodable => probes + lost.probe = ProbesBefore(mdns.state)

IndInv == TypeOK /\ Counted

\* The probes among datagrams, and that there is one at most.
Probes(out) == Count("probe", out, DOMAIN out)

Single(out) == \A i, j \in DOMAIN out : out[i].kind = "probe" /\ out[j].kind = "probe" => i = j

\* What a call of probe or announce leaves: only the ages change, and what is
\* sent is all of one kind.
Sends(m, r, kind) ==
  /\ r = Done(r.m, r.out)
  /\ r.m \in Responder /\ r.m.state = m.state /\ r.m.host = m.host
  /\ r.out \in Seq(Datagram)
  /\ \A i \in DOMAIN r.out : r.out[i].kind = kind

\* The instants are noted as age 0.
LEMMA AgesFacts == 0 \in Ages /\ QuarterTTL \in Nat
BY WaitAssumption DEF Ages

\* A name that can be encoded is probed by one datagram.
LEMMA ProbeSends ==
  ASSUME NEW m \in Responder
  PROVE  /\ Sends(m, probe(m), "probe")
         /\ m.host \in Encodable => probe(m).out # <<>>
         /\ Single(probe(m).out)
<1> DEFINE d == [kind |-> "probe", to |-> "all", host |-> m.host, intact |-> TRUE]
<1>1. d \in Datagram
  BY DEF Responder, Datagram
<1>2. CASE m.host \in Encodable
  <2>1. probe(m) = Done([m EXCEPT !.probeAge = 0], <<d>>)
    BY <1>2 DEF probe
  <2>2. /\ [m EXCEPT !.probeAge = 0] \in Responder
        /\ [m EXCEPT !.probeAge = 0].state = m.state
        /\ [m EXCEPT !.probeAge = 0].host = m.host
    BY AgesFacts DEF Responder
  <2>3. /\ <<d>> \in Seq(Datagram) /\ <<d>> # <<>>
        /\ \A i \in DOMAIN <<d>> : <<d>>[i].kind = "probe"
        /\ \A i, j \in DOMAIN <<d>> : i = j
    BY <1>1
  <2> DEFINE n == [m EXCEPT !.probeAge = 0]
             s == <<d>>
  <2>4. probe(m) = Done(n, s) /\ n \in Responder /\ n.state = m.state /\ n.host = m.host
    BY <2>1, <2>2
  <2>5. /\ s \in Seq(Datagram) /\ s # <<>>
        /\ \A i \in DOMAIN s : s[i].kind = "probe"
        /\ \A i, j \in DOMAIN s : i = j
    BY <2>3
  <2> HIDE DEF n, s
  <2> QED
    BY <2>4, <2>5 DEF Sends, Done, Single
<1>3. CASE m.host \notin Encodable
  <2>1. probe(m) = Done(m, <<>>)
    BY <1>3 DEF probe
  <2>2. <<>> \in Seq(Datagram) /\ \A i \in DOMAIN <<>> : <<>>[i].kind = "probe"
    OBVIOUS
  <2> QED
    BY <1>3, <2>1, <2>2 DEF Sends, Done, Single
<1> QED
  BY <1>2, <1>3

\* An announcement or answer is one datagram, two, or none.
LEMMA AnnounceSends ==
  ASSUME NEW m \in Responder, NEW kind \in Kinds, NEW local, NEW unicast
  PROVE  Sends(m, announce(m, kind, local, unicast), kind)
<1> DEFINE to(whom) == [kind |-> kind, to |-> whom, host |-> m.host, intact |-> Intact(m.host, local)]
           toAsker  == IF unicast THEN <<to("asker")>> ELSE <<>>
           r == announce(m, kind, local, unicast)
           n == [m EXCEPT !.announceAge = 0]
<1>1. to("asker") \in Datagram /\ to("all") \in Datagram
  BY DEF Responder, Datagram, Intact, Kinds
<1>2. toAsker \in Seq(Datagram) /\ \A i \in DOMAIN toAsker : toAsker[i].kind = kind
  <2>1. CASE unicast
    BY <2>1, <1>1
  <2>2. CASE ~unicast
    BY <2>2
  <2> QED
    BY <2>1, <2>2
<1>3. n \in Responder /\ n.state = m.state /\ n.host = m.host
  BY AgesFacts DEF Responder
<1>4. r \in {Done(m, <<>>), Done(m, toAsker), Done(n, Append(toAsker, to("all")))}
  BY DEF announce
<1>5. to("all").kind = kind
  OBVIOUS
<1> HIDE DEF to, toAsker, r, n
<1>6. CASE r = Done(m, <<>>)
  <2>1. <<>> \in Seq(Datagram) /\ \A i \in DOMAIN <<>> : <<>>[i].kind = kind
    OBVIOUS
  <2> QED
    BY <1>6, <2>1 DEF Sends, Done, r
<1>7. CASE r = Done(m, toAsker)
  BY <1>2, <1>7 DEF Sends, Done, r
<1>8. CASE r = Done(n, Append(toAsker, to("all")))
  <2> DEFINE s == Append(toAsker, to("all"))
  <2>1. s \in Seq(Datagram)
    BY <1>1, <1>2
  <2>2. \A i \in DOMAIN s : s[i].kind = kind
    BY <1>1, <1>2, <1>5
  <2> HIDE DEF s
  <2> QED
    BY <1>3, <1>8, <2>1, <2>2 DEF Sends, Done, r, s
<1> QED
  BY <1>4, <1>6, <1>7, <1>8

-----------------------------------------------------------------------------

\* The timed part: in the first three states a probe at a time, later none.
TimedStep(m, r) ==
  /\ r.m \in Responder /\ r.m.host = m.host
  /\ r.out \in Seq(Datagram) /\ Single(r.out)
  /\ \/ r.m.state = m.state /\ Probes(r.out) = 0
     \/ /\ ProbesBefore(r.m.state) = ProbesBefore(m.state) + 1
        /\ m.host \in Encodable => Probes(r.out) = 1
     \/ /\ ProbesBefore(r.m.state) = 3 /\ ProbesBefore(m.state) = 3
        /\ Probes(r.out) = 0

LEMMA TimedOK == ASSUME NEW m \in Responder PROVE TimedStep(m, Timed(m))
<1>1. CASE m.state \in {"Probe1", "Probe2", "Probe3"} /\ m.probeAge > ProbeWait
  <2> DEFINE r == probe(m)
             a == Advance(r)
  <2>1. Timed(m) = a
    BY <1>1 DEF Timed
  <2>2. Sends(m, r, "probe") /\ (m.host \in Encodable => r.out # <<>>) /\ Single(r.out)
    BY ProbeSends
  <2> HIDE DEF r
  <2>3. /\ r.m \in Responder /\ r.m.state = m.state /\ r.m.host = m.host
        /\ r.out \in Seq(Datagram)
        /\ \A i \in DOMAIN r.out : r.out[i].kind = "probe"
        /\ r = [m |-> r.m, out |-> r.out]
    BY <2>2 DEF Sends, Done
  <2>4. /\ a.m = [r.m EXCEPT !.state = Following[m.state]]
        /\ a.out = r.out
    BY <2>3 DEF Advance
  <2>5. /\ Following[m.state] \in States
        /\ ProbesBefore(Following[m.state]) = ProbesBefore(m.state) + 1
    BY <1>1 DEF Following, States, ProbesBefore
  <2>6. a.m \in Responder /\ a.m.state = Following[m.state] /\ a.m.host = m.host
    BY <2>3, <2>4, <2>5 DEF Responder
  <2>7. m.host \in Encodable => Probes(r.out) = 1
    <3>1. SUFFICES ASSUME m.host \in Encodable PROVE \E i \in DOMAIN r.out : r.out[i].kind = "probe"
      BY DEF Probes, Count
    <3>2. 1 \in DOMAIN r.out
      BY <2>2, <2>3, <3>1
    <3> QED
      BY <2>3, <3>2
  <2> HIDE DEF a
  <2> QED
    BY <2>1, <2>2, <2>3, <2>4, <2>5, <2>6, <2>7 DEF TimedStep
<1>2. CASE m.state \in {"Announce1", "Announce2"} /\ m.announceAge > AnnounceWait
  <2> DEFINE r == announce(m, "announcement", FALSE, FALSE)
             a == Advance(r)
  <2>1. Timed(m) = a
    BY <1>2 DEF Timed
  <2>2. Sends(m, r, "announcement")
    BY AnnounceSends DEF Kinds
  <2> HIDE DEF r
  <2>3. /\ r.m \in Responder /\ r.m.state = m.state /\ r.m.host = m.host
        /\ r.out \in Seq(Datagram)
        /\ \A i \in DOMAIN r.out : r.out[i].kind = "announcement"
        /\ r = [m |-> r.m, out |-> r.out]
    BY <2>2 DEF Sends, Done
  <2>4. /\ a.m = [r.m EXCEPT !.state = Following[m.state]]
        /\ a.out = r.out
    BY <2>3 DEF Advance
  <2>5. /\ Following[m.state] \in States
        /\ ProbesBefore(Following[m.state]) = 3 /\ ProbesBefore(m.state) = 3
    BY <1>2 DEF Following, States, ProbesBefore
  <2>6. a.m \in Responder /\ a.m.state = Following[m.state] /\ a.m.host = m.host
    BY <2>3, <2>4, <2>5 DEF Responder
  <2>7. Probes(r.out) = 0 /\ Single(r.out)
    BY <2>3 DEF Probes, Count, Single
  <2> HIDE DEF a
  <2> QED
    BY <2>1, <2>3, <2>4, <2>5, <2>6, <2>7 DEF TimedStep
<1>3. CASE /\ ~(m.state \in {"Probe1", "Probe2", "Probe3"} /\ m.probeAge > ProbeWait)
           /\ ~(m.state \in {"Announce1", "Announce2"} /\ m.announceAge > AnnounceWait)
  <2>1. Timed(m) = Done(m, <<>>)
    BY <1>3 DEF Timed
  <2>2. Probes(<<>>) = 0 /\ <<>> \in Seq(Datagram) /\ Single(<<>>)
    BY DEF Probes, Count, Single
  <2> QED
    BY <2>1, <2>2 DEF TimedStep, Done
<1> QED
  BY <1>1, <1>2, <1>3

\* Answering sends no probe and leaves the state alone.
LEMMA AnsweredOK ==
  ASSUME NEW m \in Responder, NEW questions
  PROVE  LET r == Answered(m, questions)
         IN  /\ r.m \in Responder /\ r.m.state = m.state /\ r.m.host = m.host
             /\ r.out \in Seq(Datagram)
             /\ \A i \in DOMAIN r.out : r.out[i].kind = "answer"
<1> DEFINE ours == {i \in DOMAIN questions : Ours(m, questions[i])}
           q    == questions[CHOOSE i \in ours : \A j \in ours : i <= j]
           r    == Answered(m, questions)
<1>1. CASE ours = {}
  <2>1. r = Done(m, <<>>)
    BY <1>1 DEF Answered
  <2>2. <<>> \in Seq(Datagram) /\ \A i \in DOMAIN <<>> : <<>>[i].kind = "answer"
    OBVIOUS
  <2> HIDE DEF r
  <2> QED
    BY <2>1, <2>2 DEF Done, r
<1>2. CASE ours # {}
  <2>1. r = announce(m, "answer", q.local, q.unicast)
    BY <1>2 DEF Answered
  <2> HIDE DEF r, q
  <2>2. Sends(m, announce(m, "answer", q.local, q.unicast), "answer")
    BY AnnounceSends DEF Kinds
  <2>3. Sends(m, r, "answer")
    BY <2>1, <2>2
  <2> QED
    BY <2>3 DEF Sends, r
<1> QED
  BY <1>1, <1>2

-----------------------------------------------------------------------------

\* The state enum, the host name and the history stay of their types.
LEMMA InitInv == Init => IndInv
<1> SUFFICES ASSUME Init PROVE IndInv
  OBVIOUS
<1>1. PICK age \in Ages :
        mdns = [state |-> "Probe1", host |-> Default, probeAge |-> age, announceAge |-> age]
  BY DEF Init
<1>2. mdns \in Responder
  BY <1>1, DefaultAssumption DEF Responder, States
<1>3. sent \in Seq(Datagram) /\ failed \subseteq DOMAIN sent
  BY DEF Init
<1>4. probes + lost.probe = ProbesBefore(mdns.state)
  BY <1>1 DEF Init, NoneLost, ProbesBefore
<1>5. probes \in Nat /\ lost \in [probe : Nat, announcement : Nat] /\ known \in BOOLEAN
      /\ socket \in BOOLEAN
  BY DEF Init, NoneLost
<1> QED
  BY <1>2, <1>3, <1>4, <1>5 DEF IndInv, TypeOK, Counted, Responder

\* Answers sent after it do not change how many probes a call sends.
LEMMA CountConcat ==
  ASSUME NEW u \in Seq(Datagram), NEW v \in Seq(Datagram),
         \A i \in DOMAIN v : v[i].kind = "answer"
  PROVE  Probes(u \o v) = Probes(u) /\ (Single(u) => Single(u \o v))
<1> DEFINE s == u \o v
<1>1. /\ DOMAIN u = 1..Len(u) /\ Len(u) \in Nat
      /\ DOMAIN v = 1..Len(v) /\ Len(v) \in Nat
      /\ DOMAIN s = 1..(Len(u) + Len(v))
  OBVIOUS
<1>2. /\ \A i \in 1..Len(u) : s[i] = u[i]
      /\ \A i \in (Len(u) + 1)..(Len(u) + Len(v)) : s[i] = v[i - Len(u)]
  OBVIOUS
<1> HIDE DEF s
<1>3. ASSUME NEW i \in DOMAIN s, s[i].kind = "probe"
      PROVE  \E j \in DOMAIN u : u[j].kind = "probe"
  <2>1. CASE i \in 1..Len(u)
    BY <1>1, <1>2, <1>3, <2>1
  <2>2. CASE i \in (Len(u) + 1)..(Len(u) + Len(v))
    <3>1. s[i] = v[i - Len(u)] /\ i - Len(u) \in DOMAIN v
      BY <1>1, <1>2, <2>2
    <3> QED
      BY <1>3, <3>1
  <2> QED
    BY <1>1, <2>1, <2>2
<1>4. ASSUME NEW j \in DOMAIN u, u[j].kind = "probe"
      PROVE  \E i \in DOMAIN s : s[i].kind = "probe"
  <2>1. j \in DOMAIN s /\ s[j] = u[j]
    BY <1>1, <1>2
  <2> QED
    BY <1>4, <2>1
<1>5. ASSUME Single(u), NEW i \in DOMAIN s, NEW j \in DOMAIN s,
             s[i].kind = "probe", s[j].kind = "probe"
      PROVE  i = j
  <2>1. ASSUME NEW k \in DOMAIN s, s[k].kind = "probe" PROVE k \in DOMAIN u /\ u[k].kind = "probe"
    <3>1. CASE k \in 1..Len(u)
      BY <1>1, <1>2, <2>1, <3>1
    <3>2. CASE k \in (Len(u) + 1)..(Len(u) + Len(v))
      <4>1. s[k] = v[k - Len(u)] /\ k - Len(u) \in DOMAIN v
        BY <1>1, <1>2, <3>2
      <4> QED
        BY <2>1, <4>1
    <3> QED
      BY <1>1, <3>1, <3>2
  <2> QED
    BY <1>5, <2>1 DEF Single
<1>6. Probes(s) = Probes(u)
  BY <1>3, <1>4 DEF Probes, Count
<1>7. Single(u) => Single(s)
  BY <1>5 DEF Single
<1> QED
  BY <1>6, <1>7 DEF s

\* What is made is sent or lost: each probe is counted once.
LEMMA CountSplit ==
  ASSUME NEW out, Single(out), NEW which \in SUBSET DOMAIN out
  PROVE  Count("probe", out, DOMAIN out \ which) + Count("probe", out, which) = Probes(out)
<1>1. CASE \E i \in which : out[i].kind = "probe"
  <2>1. ~\E i \in DOMAIN out \ which : out[i].kind = "probe"
    BY <1>1 DEF Single
  <2> QED
    BY <1>1, <2>1 DEF Probes, Count
<1>2. CASE ~\E i \in which : out[i].kind = "probe"
  <2>1. (\E i \in DOMAIN out \ which : out[i].kind = "probe")
          <=> (\E i \in DOMAIN out : out[i].kind = "probe")
    BY <1>2
  <2> QED
    BY <1>2, <2>1 DEF Probes, Count
<1> QED
  BY <1>1, <1>2

\* What the timed part probes is counted, and answering adds nothing to it.
LEMMA HandleInv ==
  ASSUME IndInv, NEW questions, handleSocket(questions)
  PROVE  IndInv'
<1> DEFINE t == Timed(mdns)
           a == Answered(t.m, questions)
           s == t.out \o a.out
<1>1. /\ mdns \in Responder /\ probes \in Nat /\ known \in BOOLEAN /\ socket
      /\ lost \in [probe : Nat, announcement : Nat]
  BY DEF IndInv, TypeOK, Responder, handleSocket
<1>2. TimedStep(mdns, t)
  BY <1>1, TimedOK
<1>3. mdns' = a.m /\ writeTo(s) /\ socket' = socket
  BY DEF handleSocket
<1>4. t.m \in Responder /\ t.m.host = mdns.host /\ t.out \in Seq(Datagram) /\ Single(t.out)
  BY <1>2 DEF TimedStep
<1>5. /\ a.m \in Responder /\ a.m.state = t.m.state /\ a.m.host = t.m.host
      /\ a.out \in Seq(Datagram)
      /\ \A i \in DOMAIN a.out : a.out[i].kind = "answer"
  BY <1>4, AnsweredOK
<1> HIDE DEF t, a
<1>6. s \in Seq(Datagram)
  BY <1>4, <1>5
<1>7. Probes(s) = Probes(t.out) /\ Single(s)
  BY <1>4, <1>5, CountConcat
<1> HIDE DEF s
<1> DEFINE out(kind)  == Count(kind, s, DOMAIN s \ failed')
           gone(kind) == Count(kind, s, failed')
<1>8. /\ sent' = s /\ failed' \in SUBSET DOMAIN s
      /\ probes' = probes + out("probe")
      /\ known' = (known \/ ToAll(s, DOMAIN s \ failed'))
      /\ lost' = [probe        |-> lost.probe + gone("probe"),
                  announcement |-> lost.announcement + gone("announcement")]
  BY <1>3 DEF writeTo
<1>9. out("probe") + gone("probe") = Probes(t.out)
  BY <1>7, <1>8, CountSplit
<1>10. \A kind : out(kind) \in {0, 1} /\ gone(kind) \in {0, 1}
  BY DEF Count
<1> HIDE DEF out, gone
<1>11. TypeOK'
  <2>1. known' \in BOOLEAN
    BY <1>1, <1>8 DEF ToAll
  <2>2. probes' \in Nat /\ lost' \in [probe : Nat, announcement : Nat]
    BY <1>1, <1>8, <1>10
  <2> QED
    BY <1>1, <1>3, <1>5, <1>6, <1>8, <2>1, <2>2 DEF TypeOK, Responder
<1>12. Counted'
  <2>1. SUFFICES ASSUME mdns.host \in Encodable
                 PROVE  probes' + lost'.probe = ProbesBefore(t.m.state)
    BY <1>3, <1>4, <1>5 DEF Counted
  <2>2. probes + lost.probe = ProbesBefore(mdns.state)
    BY <1>1, <2>1 DEF IndInv, Counted
  <2>3. probes' + lost'.probe = (probes + lost.probe) + Probes(t.out)
    BY <1>1, <1>8, <1>9, <1>10
  <2>4. ProbesBefore(t.m.state) = ProbesBefore(mdns.state) + Probes(t.out)
    BY <1>2, <2>1 DEF TimedStep, ProbesBefore
  <2> QED
    BY <2>2, <2>3, <2>4
<1> QED
  BY <1>11, <1>12 DEF IndInv

\* No datagrams are none of any type.
LEMMA NothingSent ==
  ASSUME Nothing
  PROVE  sent' \in Seq(Datagram) /\ failed' \subseteq DOMAIN sent'
<1>1. <<>> \in Seq(Datagram)
  OBVIOUS
<1> QED
  BY <1>1 DEF Nothing

\* A name is one of the names; one that changed is to be probed, and was not.
LEMMA SetHostnameFacts ==
  ASSUME NEW m \in Responder, NEW given \in Names \cup {Empty}
  PROVE  LET n == setHostname(m, given)
         IN  n \in Responder /\ (n.host # m.host => n.state = "Probe1")
                             /\ (n.host = m.host => n = m)
<1> DEFINE host == IF given = Empty THEN Default ELSE given
           n    == setHostname(m, given)
<1>1. host \in Names
  BY DefaultAssumption
<1>2. n = IF m.host = host THEN m ELSE [m EXCEPT !.host = host, !.state = "Probe1", !.probeAge = 0]
  BY DEF setHostname
<1> HIDE DEF host, n
<1>3. CASE m.host = host
  BY <1>2, <1>3 DEF n
<1>4. CASE m.host # host
  <2>1. n = [m EXCEPT !.host = host, !.state = "Probe1", !.probeAge = 0]
    BY <1>2, <1>4
  <2>2. n \in Responder /\ n.state = "Probe1" /\ n.host = host
    BY <1>1, <2>1, AgesFacts DEF Responder, States
  <2> QED
    BY <1>4, <2>2 DEF n
<1> QED
  BY <1>3, <1>4

\* SITE HOST and a restart go through setHostname, which probes a new name anew.
LEMMA RenameInv ==
  ASSUME IndInv, NEW given \in Names \cup {Empty}, mdns' = setHostname(mdns, given),
         Forget, Nothing, socket' \in {socket, FALSE}
  PROVE  IndInv'
<1>1. /\ mdns \in Responder /\ socket \in BOOLEAN /\ probes \in Nat /\ known \in BOOLEAN
      /\ lost \in [probe : Nat, announcement : Nat]
  BY DEF IndInv, TypeOK, Responder
<1>2. mdns' \in Responder /\ (mdns'.host # mdns.host => mdns'.state = "Probe1")
                          /\ (mdns'.host = mdns.host => mdns' = mdns)
  BY <1>1, SetHostnameFacts
<1>3. sent' \in Seq(Datagram) /\ failed' \subseteq DOMAIN sent'
  BY NothingSent
<1>4. CASE mdns'.host = mdns.host
  <2>1. mdns' = mdns /\ probes' = probes /\ lost' = lost /\ known' = known
    BY <1>2, <1>4 DEF Forget, history
  <2>2. TypeOK'
    BY <1>1, <1>3, <2>1 DEF TypeOK, Responder
  <2>3. Counted'
    BY <1>1, <2>1 DEF IndInv, Counted
  <2> QED
    BY <2>2, <2>3 DEF IndInv
<1>5. CASE mdns'.host # mdns.host
  <2>1. mdns'.state = "Probe1" /\ Afresh
    BY <1>2, <1>5 DEF Forget
  <2>2. TypeOK'
    BY <1>1, <1>2, <1>3, <2>1 DEF TypeOK, Responder, Afresh, NoneLost
  <2>3. Counted'
    BY <2>1 DEF Counted, ProbesBefore, Afresh, NoneLost
  <2> QED
    BY <2>2, <2>3 DEF IndInv
<1> QED
  BY <1>4, <1>5

\* Waiting counts nothing.
LEMMA TickInv == ASSUME IndInv, Tick PROVE IndInv'
<1>1. mdns \in Responder
  BY DEF IndInv, TypeOK, Responder
<1>2. \A age \in Ages : Older(age) \in Ages
  BY WaitAssumption DEF Ages, Older
<1>3. mdns' \in Responder /\ mdns'.state = mdns.state /\ mdns'.host = mdns.host
  BY <1>1, <1>2 DEF Tick, Responder
<1> QED
  BY <1>3 DEF IndInv, TypeOK, Counted, Responder, Tick, history

\* Every step of the responder and around it keeps the count.
LEMMA NextInv == IndInv /\ [Next]_vars => IndInv'
<1> SUFFICES ASSUME IndInv, [Next]_vars PROVE IndInv'
  OBVIOUS
<1>1. ASSUME NEW questions \in Messages, handleSocket(questions) PROVE IndInv'
  BY <1>1, HandleInv
<1>2. CASE SiteHost
  BY <1>2, RenameInv DEF SiteHost
<1>3. CASE createSocket
  <2>1. mdns \in Responder
    BY DEF IndInv, TypeOK, Responder
  <2>2. mdns' \in Responder /\ mdns'.state = "Probe1"
    BY <1>3, <2>1, AgesFacts DEF createSocket, Responder, States
  <2>3. sent' \in Seq(Datagram) /\ failed' \subseteq DOMAIN sent'
    BY <1>3, NothingSent DEF createSocket
  <2>4. /\ socket' = TRUE /\ probes' = 0 /\ known' = FALSE /\ lost'.probe = 0
        /\ lost' \in [probe : Nat, announcement : Nat]
    BY <1>3 DEF createSocket, Afresh, NoneLost
  <2>5. TypeOK'
    BY <2>2, <2>3, <2>4 DEF TypeOK, Responder
  <2>6. Counted'
    BY <2>2, <2>4 DEF Counted, ProbesBefore
  <2> QED
    BY <2>5, <2>6 DEF IndInv
<1>4. CASE NetworkLost
  <2>1. sent' \in Seq(Datagram) /\ failed' \subseteq DOMAIN sent'
    BY <1>4, NothingSent DEF NetworkLost
  <2> QED
    BY <1>4, <2>1 DEF NetworkLost, history, IndInv, TypeOK, Counted
<1>5. CASE Restart
  BY <1>5, RenameInv DEF Restart
<1>6. CASE Tick
  BY <1>6, TickInv
<1>7. CASE UNCHANGED vars
  BY <1>7 DEF vars, history, IndInv, TypeOK, Counted
<1> QED
  BY <1>1, <1>2, <1>3, <1>4, <1>5, <1>6, <1>7 DEF Next, Change

-----------------------------------------------------------------------------

\* The count of the probes agrees with the state at all times.
THEOREM Invariance == Spec => []IndInv
<1> QED
  BY InitInv, NextInv, PTL DEF Spec

\* What handleSocket, setHostname and createSocket keep is of its type: the state
\* never runs past Complete, an empty name is never taken, and what is sent carries
\* the name that was set.
THEOREM TypeCorrect == Spec => []TypeOK
<1>1. IndInv => TypeOK
  BY DEF IndInv
<1> QED
  BY <1>1, Invariance, PTL

\* No name is announced on a socket before three probes for it were made there, and what
\* did not go out of them writeTo failed to send, however the calls of handleSocket and
\* their failures, SITE HOST, the network and restarts follow one another.
THEOREM Probed == Spec => []ProbedFirst
<1>1. IndInv => ProbedFirst
  BY DEF IndInv, Counted, ProbesBefore, ProbedFirst
<1> QED
  BY <1>1, Invariance, PTL

=============================================================================
