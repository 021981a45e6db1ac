-------------------------- MODULE Transfer_proofs --------------------------
(***************************************************************************)
(* For every buffer size, file and upload, and however reads and writes are *)
(* cut: a retrieved file is sent in order, a stored one takes the place of  *)
(* the old bytes in order, and 226 means what it says.  And for every width *)
(* of the integers a transfer begins where REST asked for.                  *)
(***************************************************************************)
EXTENDS Transfer, IOBuffer_proofs, WellFoundedInduction

-----------------------------------------------------------------------------
(* Sequences and files.                                                     *)

(* The first n bytes of s at the end of r. *)
LEMMA MovedOver ==
  ASSUME NEW S, NEW r \in Seq(S), NEW s \in Seq(S), NEW n \in 0..Len(s)
  PROVE  /\ SubSeq(s, 1, n) \in Seq(S) /\ SubSeq(s, n + 1, Len(s)) \in Seq(S)
         /\ Len(SubSeq(s, 1, n)) = n
         /\ r \o SubSeq(s, 1, n) \in Seq(S)
         /\ Len(r \o SubSeq(s, 1, n)) = Len(r) + n
<1>1. SubSeq(s, 1, n) \in Seq(S) /\ SubSeq(s, n + 1, Len(s)) \in Seq(S) /\ Len(SubSeq(s, 1, n)) = n
  BY CutInTwo
<1> QED BY <1>1, ConcatProperties

LEMMA MovedWhole ==
  ASSUME NEW S, NEW r \in Seq(S), NEW s \in Seq(S), NEW n \in 0..Len(s)
  PROVE  (r \o SubSeq(s, 1, n)) \o SubSeq(s, n + 1, Len(s)) = r \o s
<1> DEFINE a == SubSeq(s, 1, n)
           z == SubSeq(s, n + 1, Len(s))
<1>1. a \in Seq(S) /\ Len(a) = n /\ z \in Seq(S)
  BY CutInTwo
<1>4. a \o z = s
  BY CutInTwo
<1> HIDE DEF a, z
<1>2. (r \o a) \o z = r \o (a \o z)
  BY <1>1, ConcatAssociative, SMTT(60)
<1> QED BY <1>2, <1>4 DEF a, z

(* The front of a concatenation. *)
LEMMA FrontOfConcat ==
  ASSUME NEW S, NEW s \in Seq(S), NEW t \in Seq(S)
  PROVE  SubSeq(s \o t, 1, Len(s)) = s /\ Len(s) \in 0..Len(s \o t)
<1>1. Len(s) \in Nat /\ Len(t) \in Nat /\ Len(s \o t) = Len(s) + Len(t) /\ s \o t \in Seq(S)
  BY ConcatProperties, LenProperties
<1>2. \A i \in 1..Len(s) : (s \o t)[i] = s[i]
  BY <1>1, ConcatProperties
<1>3. Len(s) \in 0..Len(s \o t)
  BY <1>1
<1>4. SubSeq(s \o t, 1, Len(s)) \in Seq(S) /\ Len(SubSeq(s \o t, 1, Len(s))) = Len(s)
  BY <1>1, <1>3, CutInTwo
<1>5. \A i \in 1..Len(s) : SubSeq(s \o t, 1, Len(s))[i] = (s \o t)[i]
  BY <1>1
<1> QED BY <1>2, <1>3, <1>4, <1>5, SeqEqual

(* The pieces of an upload on its way, which move on from the right to the left. *)
Three(u, a, b, c)   == u = (a \o b) \o c
Four(u, a, b, c, d) == u = ((a \o b) \o c) \o d

LEMMA ThreeMoves ==
  ASSUME NEW S, NEW u, NEW a \in Seq(S), NEW b \in Seq(S), NEW c \in Seq(S), Three(u, a, b, c),
         NEW n \in 0..Len(b)
  PROVE  Three(u, a \o SubSeq(b, 1, n), SubSeq(b, n + 1, Len(b)), c)
<1>1. (a \o SubSeq(b, 1, n)) \o SubSeq(b, n + 1, Len(b)) = a \o b
  BY MovedWhole
<1> QED BY <1>1 DEF Three

LEMMA FourMoves ==
  ASSUME NEW S, NEW u, NEW a \in Seq(S), NEW b \in Seq(S), NEW c \in Seq(S), NEW d \in Seq(S),
         Four(u, a, b, c, d), NEW n \in 0..Len(c)
  PROVE  Four(u, a, b \o SubSeq(c, 1, n), SubSeq(c, n + 1, Len(c)), d)
<1> DEFINE ab == a \o b
           c1 == SubSeq(c, 1, n)
           c2 == SubSeq(c, n + 1, Len(c))
<1>1. ab \in Seq(S)
  BY ConcatProperties
<1>5. c1 \in Seq(S)
  BY CutInTwo
<1> HIDE DEF ab
<1>2. (ab \o c1) \o c2 = ab \o c
  BY <1>1, MovedWhole
<1> HIDE DEF c1, c2
<1>3. (a \o b) \o c1 = a \o (b \o c1)
  BY <1>5, ConcatAssociative, SMTT(60)
<1>4. (a \o (b \o c1)) \o c2 = (a \o b) \o c
  BY <1>2, <1>3 DEF ab
<1> QED BY <1>4 DEF c1, c2, Four

LEMMA FourIsThree ==
  ASSUME NEW S, NEW u, NEW a \in Seq(S), NEW b \in Seq(S), NEW c \in Seq(S), NEW d \in Seq(S)
  PROVE  Four(u, a, b, c, d) <=> Three(u, a, b, c \o d)
<1> DEFINE ab == a \o b
<1>1. ab \in Seq(S)
  BY ConcatProperties
<1> HIDE DEF ab
<1>2. (ab \o c) \o d = ab \o (c \o d)
  BY <1>1, ConcatAssociative, SMTT(60)
<1> QED BY <1>2 DEF ab, Four, Three

LEMMA FrontOfThree ==
  ASSUME NEW S, NEW u, NEW a \in Seq(S), NEW b \in Seq(S), NEW c \in Seq(S), Three(u, a, b, c)
  PROVE  SubSeq(u, 1, Len(a)) = a /\ Len(a) \in 0..Len(u)
<1> DEFINE bc == b \o c
<1>1. bc \in Seq(S)
  BY ConcatProperties
<1>2. SubSeq(a \o bc, 1, Len(a)) = a /\ Len(a) \in 0..Len(a \o bc)
  BY <1>1, FrontOfConcat
<1>3. (a \o b) \o c = a \o bc
  BY ConcatAssociative
<1> QED BY <1>2, <1>3 DEF Three

(* A patched file is a file (Patch). *)
LEMMA PatchIsFile ==
  ASSUME NEW f \in Seq(Byte), NEW p \in Nat, NEW s \in Seq(Byte)
  PROVE  /\ Patch(f, p, s) \in Seq(Byte)
         /\ s # <<>> => Len(Patch(f, p, s)) = IF Len(f) < p + Len(s) THEN p + Len(s) ELSE Len(f)
<1>1. CASE s = <<>>
  BY <1>1 DEF Patch
<1>2. CASE s # <<>>
  <2> DEFINE n == IF Len(f) < p + Len(s) THEN p + Len(s) ELSE Len(f)
             g == [i \in 1..n |->
                     IF p < i /\ i <= p + Len(s) THEN s[i - p]
                     ELSE IF i <= Len(f) THEN f[i] ELSE NUL]
  <2>1. Len(f) \in Nat /\ Len(s) \in Nat /\ n \in Nat
    OBVIOUS
  <2>2. ASSUME NEW i \in 1..n PROVE g[i] \in Byte
    <3>1. CASE p < i /\ i <= p + Len(s)
      <4>1. i - p \in 1..Len(s)
        BY <2>1, <3>1
      <4> QED BY <4>1, <3>1, ElementOfSeq
    <3>2. CASE ~(p < i /\ i <= p + Len(s)) /\ i <= Len(f)
      BY <2>1, <3>2, ElementOfSeq
    <3>3. CASE ~(p < i /\ i <= p + Len(s)) /\ ~(i <= Len(f))
      BY <3>3, NULAssumption
    <3> QED BY <3>1, <3>2, <3>3
  <2>3. g \in [1..n -> Byte]
    BY <2>2
  <2>4. Patch(f, p, s) = g
    BY <1>2 DEF Patch
  <2> HIDE DEF g
  <2>5. g \in Seq(Byte) /\ Len(g) = n
    BY <2>1, <2>3, FunctionIsSeq
  <2> QED BY <2>4, <2>5
<1> QED BY <1>1, <1>2

(* Writing on where the last write ended is writing it all at once. *)
LEMMA PatchGoesOn ==
  ASSUME NEW f \in Seq(Byte), NEW p \in Nat, NEW s \in Seq(Byte), NEW t \in Seq(Byte)
  PROVE  Patch(Patch(f, p, s), p + Len(s), t) = Patch(f, p, s \o t)
<1>1. /\ Len(f) \in Nat /\ Len(s) \in Nat /\ Len(t) \in Nat /\ p + Len(s) \in Nat
      /\ s \o t \in Seq(Byte) /\ Len(s \o t) = Len(s) + Len(t)
  BY ConcatProperties, LenProperties
<1>2. CASE t = <<>>
  BY <1>2, ConcatEmptySeq DEF Patch
<1>3. CASE s = <<>>
  BY <1>1, <1>3, ConcatEmptySeq, EmptySeq DEF Patch
<1>4. CASE s # <<>> /\ t # <<>>
  <2> DEFINE g == Patch(f, p, s)
             h == Patch(g, p + Len(s), t)
             k == Patch(f, p, s \o t)
  <2>1. s \o t # <<>> /\ Len(s) > 0 /\ Len(t) > 0
    BY <1>1, <1>4, ConcatEqualIffEmpty, EmptySeq
  <2>2. /\ g \in Seq(Byte)
        /\ Len(g) = IF Len(f) < p + Len(s) THEN p + Len(s) ELSE Len(f)
    BY <1>4, PatchIsFile
  <2>3. /\ h \in Seq(Byte)
        /\ Len(h) = IF Len(g) < p + Len(s) + Len(t) THEN p + Len(s) + Len(t) ELSE Len(g)
    BY <1>1, <1>4, <2>2, PatchIsFile
  <2>4. /\ k \in Seq(Byte)
        /\ Len(k) = IF Len(f) < p + Len(s \o t) THEN p + Len(s \o t) ELSE Len(f)
    BY <1>1, <2>1, PatchIsFile
  <2>5. Len(h) = Len(k)
    BY <1>1, <2>1, <2>2, <2>3, <2>4
  <2>6. \A i \in 1..Len(g) : g[i] = IF p < i /\ i <= p + Len(s) THEN s[i - p]
                                    ELSE IF i <= Len(f) THEN f[i] ELSE NUL
    BY <1>4, <2>2 DEF Patch
  <2>7. \A i \in 1..Len(h) : h[i] = IF p + Len(s) < i /\ i <= p + Len(s) + Len(t)
                                    THEN t[i - (p + Len(s))]
                                    ELSE IF i <= Len(g) THEN g[i] ELSE NUL
    BY <1>4, <2>3 DEF Patch
  <2>8. \A i \in 1..Len(k) : k[i] = IF p < i /\ i <= p + Len(s \o t) THEN (s \o t)[i - p]
                                    ELSE IF i <= Len(f) THEN f[i] ELSE NUL
    BY <2>1, <2>4 DEF Patch
  <2> HIDE DEF g, h, k
  <2>9. ASSUME NEW i \in 1..Len(h) PROVE h[i] = k[i]
    <3> DEFINE ls == Len(s)
               lt == Len(t)
    <3>1. /\ i \in Nat /\ i >= 1 /\ i <= Len(h) /\ i \in 1..Len(k)
          /\ i <= Len(g) => i \in 1..Len(g)
          /\ ls \in Nat /\ lt \in Nat /\ Len(g) \in Nat /\ Len(s \o t) = ls + lt
      BY <1>1, <2>2, <2>3, <2>5, LenProperties
    <3>2. CASE i <= p
      <4>1. ~(p < i) /\ ~(p + ls < i)
        BY <3>1, <3>2
      <4>2. h[i] = IF i <= Len(g) THEN g[i] ELSE NUL
        BY <2>7, <4>1
      <4>3. k[i] = IF i <= Len(f) THEN f[i] ELSE NUL
        BY <2>8, <3>1, <4>1
      <4>4. i <= Len(g) => g[i] = IF i <= Len(f) THEN f[i] ELSE NUL
        BY <2>6, <3>1, <4>1
      <4>5. i <= Len(f) => i <= Len(g)
        BY <1>1, <2>2, <3>1
      <4> QED BY <4>2, <4>3, <4>4, <4>5
    <3>3. CASE p < i /\ i <= p + ls
      <4>1. /\ i - p \in 1..(ls + lt) /\ i - p <= ls /\ ~(p + ls < i) /\ i <= p + (ls + lt)
        BY <3>1, <3>3
      <4>2. (s \o t)[i - p] = s[i - p]
        BY <1>1, <4>1, ConcatProperties
      <4>3. i \in 1..Len(g) /\ i <= Len(g)
        BY <1>1, <2>2, <3>1, <3>3
      <4>4. h[i] = g[i]
        BY <2>7, <4>1, <4>3
      <4>5. g[i] = s[i - p]
        BY <2>6, <3>3, <4>3
      <4>6. k[i] = (s \o t)[i - p]
        BY <2>8, <3>1, <3>3, <4>1
      <4> QED BY <4>2, <4>4, <4>5, <4>6
    <3>4. CASE p + ls < i /\ i <= p + ls + lt
      <4>1. /\ i - p \in 1..(ls + lt) /\ ~(i - p <= ls) /\ p < i /\ i <= p + (ls + lt)
            /\ i - p - ls = i - (p + ls)
        BY <3>1, <3>4
      <4>2. (s \o t)[i - p] = t[i - (p + ls)]
        BY <1>1, <4>1, ConcatProperties
      <4>3. h[i] = t[i - (p + ls)]
        BY <2>7, <3>4
      <4>4. k[i] = (s \o t)[i - p]
        BY <2>8, <3>1, <4>1
      <4> QED BY <4>2, <4>3, <4>4
    <3>5. CASE p + ls + lt < i
      <4>1. /\ ~(i <= p + ls) /\ ~(i <= p + ls + lt) /\ ~(i <= p + (ls + lt))
        BY <3>1, <3>5
      <4>2. i <= Len(g) /\ i \in 1..Len(g) /\ i <= Len(f)
        BY <1>1, <2>2, <2>3, <3>1, <3>5
      <4>3. h[i] = g[i]
        BY <2>7, <4>1, <4>2
      <4>4. g[i] = f[i]
        BY <2>6, <4>1, <4>2
      <4>5. k[i] = f[i]
        BY <2>8, <3>1, <4>1, <4>2
      <4> QED BY <4>3, <4>4, <4>5
    <3> QED BY <3>1, <3>2, <3>3, <3>4, <3>5
  <2> QED BY <2>3, <2>4, <2>5, <2>9, SeqEqual DEF g, h, k
<1> QED BY <1>2, <1>3, <1>4

(* What was written is there afterwards (Patch). *)
LEMMA PatchIsThere ==
  ASSUME NEW f \in Seq(Byte), NEW p \in Nat, NEW s \in Seq(Byte), s # <<>>
  PROVE  SubSeq(Patch(f, p, s), p + 1, p + Len(s)) = s
<1> DEFINE n == IF Len(f) < p + Len(s) THEN p + Len(s) ELSE Len(f)
           g == Patch(f, p, s)
<1>1. Len(f) \in Nat /\ Len(s) \in Nat /\ Len(s) # 0 /\ n \in Nat /\ p + Len(s) <= n
  BY EmptySeq
<1>2. g \in Seq(Byte) /\ Len(g) = n
  BY PatchIsFile
<1>3. ASSUME NEW i \in 1..Len(s) PROVE g[p + i] = s[i]
  <2>1. p + i \in 1..n /\ p < p + i /\ p + i <= p + Len(s) /\ (p + i) - p = i
    BY <1>1
  <2> QED BY <2>1 DEF Patch
<1> HIDE DEF g
<1>4. /\ SubSeq(g, p + 1, p + Len(s)) \in Seq(Byte)
      /\ Len(SubSeq(g, p + 1, p + Len(s))) = Len(s)
      /\ \A i \in 1..Len(s) : SubSeq(g, p + 1, p + Len(s))[i] = g[p + i]
  <2>1. /\ p + 1 \in 1..Len(g) + 1 /\ p + Len(s) \in p..Len(g)
        /\ (p + Len(s)) - (p + 1) + 1 = Len(s)
    BY <1>1, <1>2
  <2>2. \A i \in 1..Len(s) : (p + 1) + i - 1 = p + i
    BY <1>1
  <2> QED BY <1>1, <1>2, <2>1, <2>2, SubSeqProperties
<1> QED BY <1>1, <1>3, <1>4, SeqEqual DEF g

-----------------------------------------------------------------------------
(* Loops over the characters of an argument.  The induction is over a set.  *)

LEMMA NaturalsUpwards ==
  ASSUME NEW T, 0 \in T, \A n \in Nat : n \in T => n + 1 \in T
  PROVE  Nat \subseteq T
<1> DEFINE U == { n \in Nat : n \notin T }
<1> SUFFICES ASSUME U # {} PROVE FALSE
  OBVIOUS
<1>1. IsWellFoundedOn(OpToRel(<, Nat), Nat)
  BY NatLessThanWellFounded
<1>2. PICK x \in U : \A y \in U : <<y, x>> \notin OpToRel(<, Nat)
  BY <1>1, WFMin, Zenon
<1>3. \A y \in U : ~(y < x)
  BY <1>2 DEF OpToRel
<1>4. x # 0 /\ x \in Nat /\ x - 1 \in Nat /\ x - 1 < x
  BY <1>3
<1>5. x - 1 \in T
  BY <1>3, <1>4
<1>6. (x - 1) + 1 \in T
  BY <1>4, <1>5
<1> QED BY <1>4, <1>6

(* A loop that starts from c, and whose turn i makes step[i][r] of r, and its run. *)
IsLoop(c, step, N, S) == c \in S /\ step \in [1..N -> [S -> S]]
IsRun(g, c, step, N)  == g[0] = c /\ \A i \in 1..N : g[i] = step[i][g[i - 1]]

LEMMA LoopRuns ==
  ASSUME NEW N \in Nat, NEW S, NEW c, NEW step, IsLoop(c, step, N, S)
  PROVE  \E g \in [0..N -> S] : IsRun(g, c, step, N)
<1> USE DEF IsLoop
<1> DEFINE Good(g, n) == g \in [0..N -> S] /\ g[0] = c
                           /\ \A i \in 1..n : g[i] = step[i][g[i - 1]]
           T == { n \in Nat : n <= N => \E g \in [0..N -> S] : Good(g, n) }
<1>1. 0 \in T
  <2>1. Good([i \in 0..N |-> c], 0)
    OBVIOUS
  <2> QED BY <2>1
<1>2. ASSUME NEW n \in Nat, n \in T PROVE n + 1 \in T
  <2> SUFFICES ASSUME n + 1 <= N PROVE \E g \in [0..N -> S] : Good(g, n + 1)
    OBVIOUS
  <2>1. PICK g \in [0..N -> S] : Good(g, n)
    BY <1>2
  <2> DEFINE h == [g EXCEPT ![n + 1] = step[n + 1][g[n]]]
  <2>2. n + 1 \in 1..N /\ step[n + 1] \in [S -> S] /\ step[n + 1][g[n]] \in S
    OBVIOUS
  <2>3. h \in [0..N -> S]
    BY <2>2
  <2>4. h[0] = c /\ h[n + 1] = step[n + 1][g[n]] /\ \A i \in 0..n : h[i] = g[i]
    BY <2>1, <2>2
  <2> HIDE DEF h
  <2>5. ASSUME NEW i \in 1..n + 1 PROVE h[i] = step[i][h[i - 1]]
    <3>1. CASE i = n + 1
      <4>1. i - 1 = n /\ h[n] = g[n]
        BY <2>4, <3>1
      <4> QED BY <2>4, <3>1, <4>1
    <3>2. CASE i \in 1..n
      BY <2>1, <2>4, <3>2
    <3> QED BY <3>1, <3>2
  <2> QED BY <2>3, <2>4, <2>5
<1>3. N \in T
  <2> HIDE DEF T
  <2> QED BY <1>1, <1>2, NaturalsUpwards
<1> QED BY <1>3 DEF IsRun

(* What holds before a loop and is kept by each turn holds throughout. *)
IsKept(S, f, N) == f[0] \in S /\ \A i \in 1..N : f[i - 1] \in S => f[i] \in S

LEMMA LoopKeeps ==
  ASSUME NEW N \in Nat, NEW S, NEW f, IsKept(S, f, N)
  PROVE  \A i \in 0..N : f[i] \in S
<1> USE DEF IsKept
<1> DEFINE T == { n \in Nat : n <= N => f[n] \in S }
<1>1. 0 \in T
  OBVIOUS
<1>2. ASSUME NEW n \in Nat, n \in T PROVE n + 1 \in T
  <2>1. n + 1 <= N => (n + 1) - 1 = n /\ n + 1 \in 1..N /\ n <= N
    OBVIOUS
  <2> QED BY <1>2, <2>1
<1>3. Nat \subseteq T
  <2> HIDE DEF T
  <2> QED BY <1>1, <1>2, NaturalsUpwards
<1> QED BY <1>3

-----------------------------------------------------------------------------
(* The offset of REST.                                                      *)

(* A remainder that takes nothing away. *)
LEMMA SmallRemainder ==
  ASSUME NEW m \in Nat, NEW x \in 0..m
  PROVE  x % (m + 1) = x
OBVIOUS

Digits == 0..10

(* The number the client wrote, digit by digit (Value). *)
LEMMA ValueRuns ==
  ASSUME NEW args \in Seq(Digits)
  PROVE  \E v : /\ Value(args) = v[Len(args)]
                /\ v[0] = 0 /\ \A i \in 1..Len(args) : v[i] = v[i - 1] * 10 + args[i]
                /\ \A i \in 0..Len(args) : v[i] \in Nat
<1> DEFINE n == Len(args)
           step == [i \in 1..n |-> [r \in Nat |-> r * 10 + args[i]]]
<1>1. n \in Nat /\ \A i \in 1..n : args[i] \in Nat
  BY DEF Digits
<1>2. step \in [1..n -> [Nat -> Nat]]
  BY <1>1
<1>3. \A r \in Nat, i \in 1..n : step[i][r] = r * 10 + args[i]
  BY <1>1
<1> HIDE DEF step
<1>4. PICK g \in [0..n -> Nat] : IsRun(g, 0, step, n)
  <2>1. IsLoop(0, step, n, Nat) /\ n \in Nat
    BY <1>1, <1>2 DEF IsLoop
  <2> HIDE DEF n
  <2> QED BY <2>1, LoopRuns
<1>5. ASSUME NEW i \in 1..n PROVE g[i] = g[i - 1] * 10 + args[i]
  <2>1. g[i - 1] \in Nat
    <3>1. n \in Nat /\ g \in [0..n -> Nat]
      BY <1>1
    <3> HIDE DEF n
    <3> QED BY <3>1
  <2>2. step[i][g[i - 1]] = g[i - 1] * 10 + args[i]
    BY <1>3, <2>1
  <2> QED BY <1>4, <2>2 DEF IsRun
<1> DEFINE v == CHOOSE f : f = [i \in 0..n |-> IF i = 0 THEN 0 ELSE f[i - 1] * 10 + args[i]]
<1>6. g = [i \in 0..n |-> IF i = 0 THEN 0 ELSE g[i - 1] * 10 + args[i]]
  BY <1>1, <1>4, <1>5 DEF IsRun
<1>7. v = [i \in 0..n |-> IF i = 0 THEN 0 ELSE v[i - 1] * 10 + args[i]]
  BY <1>6
<1>8. Value(args) = v[n]
  BY DEF Value
<1> HIDE DEF v
<1>9. v[0] = 0 /\ \A i \in 1..n : v[i] = v[i - 1] * 10 + args[i]
  BY <1>1, <1>7
<1>10. \A i \in 0..n : v[i] \in Nat
  <2>1. IsKept(Nat, v, n)
    BY <1>1, <1>9 DEF IsKept
  <2> HIDE DEF n
  <2> QED BY <1>1, <2>1, LoopKeeps
<1> QED BY <1>8, <1>9, <1>10

(* The loop of REST, digit by digit (Parsed). *)
LEMMA ParsedRuns ==
  ASSUME NEW args \in Seq(Digits)
  PROVE  \E d : /\ Parsed(args) = d[Len(args)]
               /\ d[0] = 0
               /\ \A i \in 1..Len(args) :
                    d[i] = IF d[i - 1] = Refused \/ args[i] \notin 0..9
                                \/ UMax \div 10 < d[i - 1]
                           THEN Refused
                           ELSE IF UMax - args[i] < (d[i - 1] * 10) % (UMax + 1)
                           THEN Refused
                           ELSE ((d[i - 1] * 10) % (UMax + 1)) + args[i]
<1> DEFINE n == Len(args)
           Turn(r, a) == IF r = Refused \/ a \notin 0..9 \/ UMax \div 10 < r
                         THEN Refused
                         ELSE IF UMax - a < (r * 10) % (UMax + 1)
                         THEN Refused
                         ELSE ((r * 10) % (UMax + 1)) + a
           step == [i \in 1..n |-> [r \in Int |-> Turn(r, args[i])]]
<1>1. n \in Nat /\ \A i \in 1..n : args[i] \in Nat
  BY DEF Digits
<1>2. ASSUME NEW r \in Int, NEW a \in Nat PROVE Turn(r, a) \in Int
  <2>1. r * 10 \in Int /\ UMax + 1 \in Nat \ {0}
    BY WidthAssumption
  <2>2. (r * 10) % (UMax + 1) \in Int
    BY <2>1
  <2> QED BY <2>2 DEF Refused
<1> HIDE DEF Turn
<1>3. step \in [1..n -> [Int -> Int]]
  BY <1>1, <1>2
<1>4. \A r \in Int, i \in 1..n : step[i][r] = Turn(r, args[i])
  OBVIOUS
<1> HIDE DEF step
<1>5. PICK g \in [0..n -> Int] : IsRun(g, 0, step, n)
  <2>1. IsLoop(0, step, n, Int) /\ n \in Nat
    BY <1>1, <1>3 DEF IsLoop
  <2> HIDE DEF n
  <2> QED BY <2>1, LoopRuns
<1>6. ASSUME NEW i \in 1..n PROVE g[i] = Turn(g[i - 1], args[i])
  <2>1. g[i - 1] \in Int
    BY <1>1, <1>5
  <2> QED BY <1>4, <1>5, <2>1 DEF IsRun
<1> DEFINE d == CHOOSE f : f = [i \in 0..n |-> IF i = 0 THEN 0 ELSE Turn(f[i - 1], args[i])]
<1>7. g = [i \in 0..n |-> IF i = 0 THEN 0 ELSE Turn(g[i - 1], args[i])]
  BY <1>1, <1>5, <1>6 DEF IsRun
<1>8. d = [i \in 0..n |-> IF i = 0 THEN 0 ELSE Turn(d[i - 1], args[i])]
  BY <1>7
<1>9. Parsed(args) = d[n]
  BY Zenon DEF Parsed, Turn
<1> HIDE DEF d
<1>10. d[0] = 0 /\ \A i \in 1..n : d[i] = Turn(d[i - 1], args[i])
  BY <1>1, <1>8
<1> QED BY <1>9, <1>10, Zenon DEF Turn

(* REST takes a number that is one and fits in 64 bits, as the client wrote it, and refuses *)
(* everything else: the checks in the loop keep the sum from ever wrapping (Parsed). *)
Fits(args) == (\A i \in 1..Len(args) : args[i] \in 0..9) /\ Value(args) <= UMax

LEMMA NextDigit ==
  ASSUME NEW r \in Nat, NEW a \in 0..9
  PROVE  /\ UMax \div 10 < r => UMax < r * 10 + a
         /\ ~(UMax \div 10 < r) =>
              /\ (r * 10) % (UMax + 1) = r * 10
              /\ UMax - a < r * 10 <=> UMax < r * 10 + a
<1>1. UMax \div 10 \in Nat /\ (UMax \div 10) * 10 <= UMax /\ UMax < (UMax \div 10) * 10 + 10
  BY WidthAssumption
<1>2. UMax \div 10 < r => UMax < r * 10 + a
  BY <1>1, WidthAssumption
<1>3. ASSUME ~(UMax \div 10 < r)
      PROVE  /\ (r * 10) % (UMax + 1) = r * 10
             /\ UMax - a < r * 10 <=> UMax < r * 10 + a
  <2>1. r * 10 \in 0..UMax
    BY <1>1, <1>3, WidthAssumption
  <2> QED BY <2>1, WidthAssumption, SmallRemainder
<1> QED BY <1>2, <1>3

THEOREM OffsetsAsWritten ==
  \A args \in Seq(Digits) : Parsed(args) = IF Fits(args) THEN Value(args) ELSE Refused
<1> TAKE args \in Seq(Digits)
<1>1. PICK v : /\ Value(args) = v[Len(args)]
               /\ v[0] = 0 /\ \A i \in 1..Len(args) : v[i] = v[i - 1] * 10 + args[i]
               /\ \A i \in 0..Len(args) : v[i] \in Nat
  BY ValueRuns
<1>2. PICK d : /\ Parsed(args) = d[Len(args)]
               /\ d[0] = 0
               /\ \A i \in 1..Len(args) :
                    d[i] = IF d[i - 1] = Refused \/ args[i] \notin 0..9
                                \/ UMax \div 10 < d[i - 1]
                           THEN Refused
                           ELSE IF UMax - args[i] < (d[i - 1] * 10) % (UMax + 1)
                           THEN Refused
                           ELSE ((d[i - 1] * 10) % (UMax + 1)) + args[i]
  BY ParsedRuns
<1> DEFINE FitsTo(n) == (\A i \in 1..n : args[i] \in 0..9) /\ v[n] <= UMax
           T == { n \in Nat : n <= Len(args) => d[n] = IF FitsTo(n) THEN v[n] ELSE Refused }
<1>3. Len(args) \in Nat /\ \A i \in 1..Len(args) : args[i] \in 0..10
  BY DEF Digits
<1>4. 0 \in T
  BY <1>1, <1>2, WidthAssumption
<1>5. ASSUME NEW n \in Nat, n \in T PROVE n + 1 \in T
  <2> SUFFICES ASSUME n + 1 <= Len(args)
               PROVE  d[n + 1] = IF FitsTo(n + 1) THEN v[n + 1] ELSE Refused
    OBVIOUS
  <2> DEFINE a == args[n + 1]
  <2>1. /\ a \in 0..10 /\ v[n] \in Nat /\ v[n + 1] \in Nat /\ v[n + 1] = v[n] * 10 + a
        /\ d[n] = IF FitsTo(n) THEN v[n] ELSE Refused
    <3>1. n + 1 \in 1..Len(args) /\ (n + 1) - 1 = n /\ n \in 0..Len(args)
      BY <1>3
    <3> QED BY <1>1, <1>3, <1>5, <3>1
  <2>2. d[n + 1] = IF d[n] = Refused \/ a \notin 0..9 \/ UMax \div 10 < d[n]
                   THEN Refused
                   ELSE IF UMax - a < (d[n] * 10) % (UMax + 1)
                   THEN Refused
                   ELSE ((d[n] * 10) % (UMax + 1)) + a
    <3>1. n + 1 \in 1..Len(args) /\ (n + 1) - 1 = n
      BY <1>3
    <3> QED BY <1>2, <3>1
  <2>3. FitsTo(n + 1) <=> (\A i \in 1..n : args[i] \in 0..9) /\ a \in 0..9 /\ v[n + 1] <= UMax
    OBVIOUS
  <2>4. CASE ~FitsTo(n)
    <3>1. v[n] <= v[n + 1]
      <4>1. \A r \in Nat, b \in 0..10 : r <= r * 10 + b
        OBVIOUS
      <4> QED BY <2>1, <4>1
    <3>2. ~FitsTo(n + 1)
      BY <2>1, <2>3, <2>4, <3>1, WidthAssumption
    <3>3. d[n] = Refused
      BY <2>1, <2>4
    <3> QED BY <2>2, <3>2, <3>3
  <2>5. CASE FitsTo(n) /\ a \notin 0..9
    BY <2>2, <2>3, <2>5
  <2>6. CASE FitsTo(n) /\ a \in 0..9
    <3>1. d[n] = v[n] /\ d[n] # Refused
      BY <2>1, <2>6 DEF Refused
    <3>2. FitsTo(n + 1) <=> v[n] * 10 + a <= UMax
      BY <2>1, <2>3, <2>6
    <3>3. CASE UMax \div 10 < v[n]
      <4>1. UMax < v[n] * 10 + a
        BY <2>1, <2>6, <3>3, NextDigit
      <4>2. ~FitsTo(n + 1)
        BY <2>1, <3>2, <4>1, WidthAssumption
      <4> QED BY <2>2, <3>1, <3>3, <4>2
    <3>4. CASE ~(UMax \div 10 < v[n])
      <4>1. /\ (v[n] * 10) % (UMax + 1) = v[n] * 10
            /\ UMax - a < v[n] * 10 <=> UMax < v[n] * 10 + a
        BY <2>1, <2>6, <3>4, NextDigit
      <4>2. d[n + 1] = IF UMax < v[n] * 10 + a THEN Refused ELSE v[n] * 10 + a
        BY <2>2, <2>6, <3>1, <3>4, <4>1
      <4>3. UMax < v[n] * 10 + a <=> ~(v[n] * 10 + a <= UMax)
        BY <2>1, WidthAssumption
      <4> QED BY <2>1, <3>2, <4>2, <4>3
    <3> QED BY <3>3, <3>4
  <2> QED BY <2>4, <2>5, <2>6
<1>6. Len(args) \in T
  <2> HIDE DEF T
  <2> QED BY <1>3, <1>4, <1>5, NaturalsUpwards
<1> QED BY <1>1, <1>2, <1>3, <1>6 DEF Fits

(* A number a long can hold keeps its value in it (Narrow). *)
LEMMA LongAsItIs ==
  ASSUME NEW n \in Nat, n <= LongMax
  PROVE  Narrow(n) = n
<1>1. 2 * (LongMax + 1) - 1 \in Nat /\ n \in 0..2 * (LongMax + 1) - 1
  BY WidthAssumption
<1>2. n % ((2 * (LongMax + 1) - 1) + 1) = n
  BY <1>1, SmallRemainder
<1>3. (2 * (LongMax + 1) - 1) + 1 = 2 * (LongMax + 1)
  BY WidthAssumption
<1> QED BY <1>2, <1>3 DEF Narrow

(* What comes out of the narrowing without being negative are the lower bits, and the  *)
(* number itself only if a long can hold it (Narrow).                                  *)
LEMMA LowerBits ==
  ASSUME NEW n \in Nat, Narrow(n) \in Nat
  PROVE  /\ Narrow(n) = n % (2 * (LongMax + 1))
         /\ Narrow(n) = n <=> n <= LongMax
<1> DEFINE W == 2 * (LongMax + 1)
<1>1. W \in Nat /\ W > 0 /\ LongMax \in Nat
  BY WidthAssumption
<1>2. Narrow(n) = IF n % W <= LongMax THEN n % W ELSE (n % W) - W
  BY DEF Narrow
<1> HIDE DEF W
<1>3. n % W \in Nat /\ n % W < W
  BY <1>1
<1>4. Narrow(n) = n % W /\ Narrow(n) <= LongMax
  BY <1>1, <1>2, <1>3
<1>5. n <= LongMax => Narrow(n) = n
  BY LongAsItIs
<1> QED BY <1>4, <1>5 DEF W

-----------------------------------------------------------------------------
(* The invariant.                                                           *)

Idle == state = "COMMAND" => /\ pending = <<>> /\ flushed = <<>> /\ upload = <<>>
                             /\ coming = <<>> /\ sent = <<>>

ReadersWriteNothing ==
  state # "COMMAND" => mode # "none" /\ (mode = "RETR" \/ devZero => pending = <<>>)

TransferInv == TypeOK /\ Idle /\ ReadersWriteNothing /\ SentInOrder /\ StoredInOrder

(* The types, one by one. *)
LEMMA Types ==
  ASSUME TypeOK
  PROVE  /\ WellFormed(buffer)
         /\ usedSize(buffer) \in Nat /\ Used(buffer) \in Seq(Byte)
         /\ Len(Used(buffer)) = usedSize(buffer)
         /\ pos \in Nat /\ at \in Nat /\ Size \in Nat \ {0}
         /\ pending \in Seq(Byte) /\ disk \in Seq(Byte) /\ upload \in Seq(Byte)
         /\ coming \in Seq(Byte) /\ sent \in Seq(Byte) /\ base \in Seq(Byte)
         /\ flushed \in Seq(Byte)
<1>1. WellFormed(buffer) /\ pos \in Nat /\ at \in Nat /\ Size \in Nat \ {0}
  BY SizeAssumption DEF TypeOK
<1>2. /\ pending \in Seq(Byte) /\ disk \in Seq(Byte) /\ upload \in Seq(Byte)
      /\ coming \in Seq(Byte) /\ sent \in Seq(Byte) /\ base \in Seq(Byte)
      /\ flushed \in Seq(Byte)
  BY DEF TypeOK
<1> QED BY <1>1, <1>2, UsedBytes

(* The control part of TypeOK. *)
Control == /\ state \in {"COMMAND", "DATA_CONNECT", "DATA_TRANSFER"}
           /\ mode \in {"none", "RETR", "STOR", "APPE"}
           /\ ready \in BOOLEAN /\ devZero \in BOOLEAN /\ exists \in BOOLEAN /\ ended \in BOOLEAN
           /\ result \in {"none", "226", "lost", "failed", "destroyed"}
           /\ count \in 0..MaxTransfers

Data == /\ WellFormed(buffer) /\ pos \in Nat /\ at \in Nat
        /\ pending \in Seq(Byte) /\ disk \in Seq(Byte) /\ upload \in Seq(Byte)
        /\ coming \in Seq(Byte) /\ sent \in Seq(Byte) /\ base \in Seq(Byte)
        /\ flushed \in Seq(Byte)

LEMMA ControlAndData == (TypeOK <=> Control /\ Data) /\ (TypeOK' <=> Control' /\ Data')
BY DEF TypeOK, Control, Data

(* Every step back to COMMAND keeps the invariant (setState). *)
LEMMA BackToCommand ==
  ASSUME TransferInv, ToCommand, WellFormed(buffer'), disk' \in Seq(Byte),
         ready' \in BOOLEAN, exists' \in BOOLEAN, mode' \in {mode, "none"},
         count' \in {count, MaxTransfers},
         result' \in {"none", "226", "lost", "failed", "destroyed"}
  PROVE  TransferInv'
<1>1. count' \in 0..MaxTransfers
  BY BoundAssumption DEF TransferInv, TypeOK
<1>2. mode' \in {"none", "RETR", "STOR", "APPE"}
  BY DEF TransferInv, TypeOK
<1>3. Control' /\ Data'
  BY <1>1, <1>2, EmptySeq DEF TransferInv, ToCommand, TypeOK, Control, Data
<1>4. Idle' /\ ReadersWriteNothing' /\ SentInOrder' /\ StoredInOrder'
  BY DEF ToCommand, Idle, ReadersWriteNothing, SentInOrder, StoredInOrder, Busy
<1> QED BY <1>3, <1>4, ControlAndData DEF TransferInv

(* REST, and PASV, PORT and the like. *)
LEMMA CommandStep ==
  ASSUME TransferInv, (\E args \in Offsets : REST(args)) \/ Prepare
  PROVE  TransferInv' /\ Acknowledged /\ Written
<1>1. state = "COMMAND" /\ disk' = disk /\ result' = result
  BY DEF REST, Prepare, target
<1>2. Acknowledged /\ Written
  BY <1>1 DEF Acknowledged, Written
<1>3. ASSUME NEW args \in Offsets, REST(args) PROVE TransferInv'
  <2>1. /\ UNCHANGED <<state, mode, ready, buffer, pos, exists, disk, upload, coming, ended,
                       sent, at, base, count, flushed, result>>
        /\ devZero' = FALSE /\ pending' = <<>> /\ state = "COMMAND"
    BY <1>3 DEF REST, target, peer, history
  <2>2. Control' /\ Data'
    BY <2>1, EmptySeq DEF TransferInv, TypeOK, Control, Data
  <2>3. Idle' /\ ReadersWriteNothing' /\ SentInOrder' /\ StoredInOrder'
    BY <2>1 DEF TransferInv, Idle, ReadersWriteNothing, SentInOrder, StoredInOrder, Busy
  <2> QED BY <2>2, <2>3, ControlAndData DEF TransferInv
<1>4. ASSUME Prepare PROVE TransferInv'
  <2>1. /\ ToCommand /\ buffer' = buffer /\ disk' = disk /\ ready' \in BOOLEAN
        /\ exists' = exists /\ mode' = mode /\ count' = count /\ result' = result
    BY <1>4 DEF Prepare, target
  <2>2. /\ WellFormed(buffer') /\ disk' \in Seq(Byte) /\ exists' \in BOOLEAN
        /\ result' \in {"none", "226", "lost", "failed", "destroyed"}
    BY <2>1 DEF TransferInv, TypeOK
  <2> QED BY <2>1, <2>2, BackToCommand
<1> QED BY <1>2, <1>3, <1>4

(* A transfer begins with nothing sent, read or written (xferFile). *)
LEMMA BeginStep ==
  ASSUME TransferInv, NEW m \in {"RETR", "STOR", "APPE"}, NEW start \in Nat,
         state = "COMMAND", buffer' = clear(buffer), Begin(m, start),
         exists' \in BOOLEAN, disk' \in Seq(Byte), devZero' \in BOOLEAN
  PROVE  TransferInv'
<1>1. /\ state' = "DATA_CONNECT" /\ mode' = m /\ ready' \in BOOLEAN
      /\ pos' = start /\ at' = start /\ base' = disk' /\ result' = "none"
      /\ count' = count + 1 /\ count < MaxTransfers
      /\ UNCHANGED <<pending, flushed, upload, coming, ended, sent>>
  BY DEF Begin, peer
<1>2. /\ pending' = <<>> /\ flushed' = <<>> /\ upload' = <<>> /\ coming' = <<>> /\ sent' = <<>>
  BY <1>1 DEF TransferInv, Idle
<1>3. WellFormed(buffer') /\ usedSize(buffer') = 0 /\ Used(buffer') = <<>>
  BY ClearUsed DEF TransferInv, TypeOK
<1>4. Control'
  BY <1>1, BoundAssumption DEF TransferInv, TypeOK, Control
<1>5. Data'
  BY <1>1, <1>2, <1>3, EmptySeq DEF Data
<1>6. Idle' /\ ReadersWriteNothing'
  BY <1>1, <1>2 DEF Idle, ReadersWriteNothing
<1>7. SentInOrder'
  <2>1. pos' = at' + 0 + 0 /\ Len(sent') = 0 /\ pos' \in Int /\ at' + 1 \in Int /\ pos' < at' + 1
    BY <1>1, <1>2
  <2>2. SubSeq(disk', at' + 1, pos') = <<>>
    BY <2>1, SubSeqEmpty
  <2>3. sent' \o Used(buffer') = <<>>
    BY <1>2, <1>3, EmptySeq, ConcatEmptySeq
  <2> QED BY <1>1, <1>3, <2>1, <2>2, <2>3 DEF SentInOrder
<1>8. StoredInOrder'
  <2>1. upload' = ((flushed' \o pending') \o Used(buffer')) \o coming'
    BY <1>2, <1>3, EmptySeq, ConcatEmptySeq
  <2>2. pos' = at' + Len(flushed')
    BY <1>1, <1>2
  <2>3. disk' = Patch(base', at', flushed')
    BY <1>1, <1>2 DEF Patch
  <2> QED BY <2>1, <2>2, <2>3 DEF StoredInOrder
<1> QED BY <1>4, <1>5, <1>6, <1>7, <1>8, ControlAndData DEF TransferInv

(* RETR, STOR and APPE. *)
LEMMA XferFileStep ==
  ASSUME TransferInv, NEW m \in {"RETR", "STOR", "APPE"}, xferFile(m)
  PROVE  TransferInv' /\ Acknowledged /\ Written
<1>1. state = "COMMAND" /\ buffer' = clear(buffer)
  BY DEF xferFile
<1>2. /\ WellFormed(buffer') /\ usedSize(buffer') = 0 /\ Used(buffer') = <<>>
      /\ disk \in Seq(Byte) /\ exists \in BOOLEAN /\ ready \in BOOLEAN
      /\ result \in {"none", "226", "lost", "failed", "destroyed"}
  BY <1>1, ClearUsed, Types DEF TransferInv, TypeOK
<1>3. CASE NotOpened
  <2>1. /\ UNCHANGED <<state, mode, ready, devZero, pos, pending, exists, disk, upload,
                       coming, ended, sent, at, base, count, flushed, result>>
    BY <1>3 DEF NotOpened, target, peer, history
  <2>2. Control' /\ Data'
    BY <1>2, <2>1 DEF TransferInv, TypeOK, Control, Data
  <2>3. Idle' /\ ReadersWriteNothing' /\ SentInOrder' /\ StoredInOrder'
    BY <1>1, <2>1 DEF TransferInv, Idle, ReadersWriteNothing, SentInOrder, StoredInOrder, Busy
  <2>4. Acknowledged /\ Written
    BY <2>1 DEF Acknowledged, Written
  <2> QED BY <2>2, <2>3, <2>4, ControlAndData DEF TransferInv
<1>4. ASSUME Abandon, disk' \in Seq(Byte), exists' \in BOOLEAN,
             disk' = disk \/ (restart = 0 /\ disk' = <<>>)
      PROVE  TransferInv' /\ Acknowledged /\ Written
  <2>1. ToCommand /\ ready' \in BOOLEAN /\ mode' = mode /\ count' = count /\ result' = result
    BY <1>2, <1>4 DEF Abandon
  <2>2. TransferInv'
    BY <1>2, <1>4, <2>1, BackToCommand
  <2>3. Acknowledged /\ Written
    BY <1>1, <1>4, <2>1 DEF Acknowledged, Written
  <2> QED BY <2>2, <2>3
<1>5. ASSUME NEW start \in Nat, Begin(m, start), disk' \in Seq(Byte), exists' \in BOOLEAN,
             devZero' \in BOOLEAN, disk' = disk \/ (restart = 0 /\ disk' = <<>>)
      PROVE  TransferInv' /\ Acknowledged /\ Written
  <2>1. TransferInv'
    BY <1>1, <1>5, BeginStep
  <2>2. result' = "none"
    BY <1>5 DEF Begin
  <2>3. Acknowledged /\ Written
    BY <1>1, <1>5, <2>2 DEF Acknowledged, Written
  <2> QED BY <2>1, <2>3
<1>6. ASSUME Opened(m)
      PROVE  /\ Start(m) \in Nat /\ exists' \in BOOLEAN /\ disk' \in Seq(Byte)
             /\ disk' = disk \/ (restart = 0 /\ disk' = <<>>)
  BY <1>2, <1>6, EmptySeq DEF Opened, Truncates
<1>7. CASE Abandon /\ UNCHANGED target
  BY <1>2, <1>4, <1>7 DEF target
<1>8. CASE Opened(m) /\ Abandon
  BY <1>4, <1>6, <1>8
<1>9. CASE Opened(m) /\ Begin(m, Start(m)) /\ devZero' = FALSE
  BY <1>5, <1>6, <1>9
<1>10. CASE UNCHANGED target /\ Begin(m, 0) /\ devZero' = TRUE
  BY <1>2, <1>5, <1>10 DEF target
<1> QED BY <1>3, <1>7, <1>8, <1>9, <1>10 DEF xferFile

-----------------------------------------------------------------------------
(* The file that is stored.                                                 *)

(* Some of what the C library holds reaches the disk (Flush). *)
LEMMA FlushedFile ==
  ASSUME TransferInv, Busy, Store(mode),
         NEW taken \in Seq(Byte), NEW rest \in Seq(Byte), NEW n \in 0..Len(taken),
         Three(upload, flushed, taken, rest)
  PROVE  LET front == SubSeq(taken, 1, n)
             back  == SubSeq(taken, n + 1, Len(taken))
             all   == flushed \o front
         IN  /\ front \in Seq(Byte) /\ back \in Seq(Byte) /\ all \in Seq(Byte)
             /\ Patch(disk, pos, front) = Patch(base, at, all)
             /\ pos + n = at + Len(all)
             /\ Three(upload, all, back, rest)
             /\ SubSeq(upload, 1, Len(all)) = all /\ Len(all) \in 0..Len(upload)
<1> DEFINE front == SubSeq(taken, 1, n)
           back  == SubSeq(taken, n + 1, Len(taken))
           all   == flushed \o front
<1>1. /\ flushed \in Seq(Byte) /\ base \in Seq(Byte) /\ at \in Nat /\ pos \in Nat
      /\ Len(flushed) \in Nat
  BY Types DEF TransferInv
<1>2. front \in Seq(Byte) /\ back \in Seq(Byte) /\ Len(front) = n
      /\ all \in Seq(Byte) /\ Len(all) = Len(flushed) + n
  BY <1>1, MovedOver
<1>3. Three(upload, all, back, rest)
  BY <1>1, ThreeMoves
<1>4. pos = at + Len(flushed) /\ disk = Patch(base, at, flushed)
  BY DEF TransferInv, StoredInOrder
<1> HIDE DEF front, back, all
<1>5. Patch(disk, pos, front) = Patch(base, at, all)
  BY <1>1, <1>2, <1>4, PatchGoesOn DEF all
<1>6. pos + n = at + Len(all)
  BY <1>1, <1>2, <1>4
<1>7. SubSeq(upload, 1, Len(all)) = all /\ Len(all) \in 0..Len(upload)
  BY <1>2, <1>3, FrontOfThree
<1> QED BY <1>2, <1>3, <1>5, <1>6, <1>7 DEF front, back, all

(* The file is closed, whatever of it reaches the disk (CloseFile). *)
LEMMA CloseStep ==
  ASSUME TransferInv, state # "COMMAND", NEW how \in {"226", "failed"},
         CloseFile(pending, how), WellFormed(buffer'), ready' \in BOOLEAN,
         how = "226" => Store(mode) /\ ended /\ coming = <<>> /\ Used(buffer) = <<>>
  PROVE  TransferInv' /\ Acknowledged /\ Written
<1>1. PICK n \in 0..Len(pending) : /\ Flush(pending, n)
                                   /\ Finish(IF how = "226" /\ n < Len(pending) THEN "lost"
                                                                                ELSE how)
  BY DEF CloseFile
<1> DEFINE front == SubSeq(pending, 1, n)
           used  == Used(buffer)
<1>2. /\ pending \in Seq(Byte) /\ flushed \in Seq(Byte) /\ disk \in Seq(Byte) /\ pos \in Nat
      /\ used \in Seq(Byte) /\ coming \in Seq(Byte) /\ used \o coming \in Seq(Byte)
      /\ Len(pending) \in Nat
  BY Types, ConcatProperties DEF TransferInv
<1>3. front \in Seq(Byte) /\ Len(front) = n
  BY <1>2, CutInTwo
<1>4. /\ ToCommand /\ mode' = mode /\ exists' = exists /\ count' = count
      /\ result' = IF how = "226" /\ n < Len(pending) THEN "lost" ELSE how
      /\ disk' = Patch(disk, pos, front)
  BY <1>1 DEF Finish, Flush
<1> HIDE DEF front, used
<1>5. disk' \in Seq(Byte)
  BY <1>2, <1>3, <1>4, PatchIsFile
<1>6. TransferInv'
  <2>1. exists' \in BOOLEAN /\ result' \in {"none", "226", "lost", "failed", "destroyed"}
    BY <1>4 DEF TransferInv, TypeOK
  <2> QED BY <1>4, <1>5, <2>1, BackToCommand
<1>7. CASE Busy /\ Store(mode)
  <2>1. Four(upload, flushed, pending, used, coming)
    BY <1>7 DEF TransferInv, StoredInOrder, used, Four
  <2>2. flushed \o pending \in Seq(Byte)
    BY <1>2, ConcatProperties
  <2>4. Three(upload, flushed, pending, used \o coming)
    BY <1>2, <2>1, FourIsThree
  <2>5. /\ disk' = Patch(base, at, flushed \o front)
        /\ SubSeq(upload, 1, Len(flushed \o front)) = flushed \o front
        /\ Len(flushed \o front) \in 0..Len(upload)
    BY <1>2, <1>4, <1>7, <2>4, FlushedFile DEF front
  <2>6. Written
    BY <1>7, <2>5 DEF Written
  <2>7. ASSUME result' = "226" PROVE disk' = Patch(base, at, upload)
    <3>1. how = "226" /\ n = Len(pending)
      BY <1>2, <1>4, <2>7
    <3>2. front = pending
      BY <1>2, <3>1, SubSeqFull DEF front
    <3>3. used \o coming = <<>>
      BY <3>1, EmptySeq, ConcatEmptySeq DEF used
    <3>4. upload = flushed \o pending
      BY <2>2, <2>4, <3>3, ConcatEmptySeq DEF Three
    <3> QED BY <2>5, <3>2, <3>4
  <2>8. Acknowledged
    BY <1>4, <1>7, <2>7 DEF Acknowledged, Store
  <2> QED BY <1>6, <2>6, <2>8
<1>8. CASE ~(Busy /\ Store(mode))
  <2>1. mode = "RETR" \/ devZero
    BY <1>8 DEF TransferInv, TypeOK, ReadersWriteNothing, Busy, Store
  <2>2. pending = <<>>
    BY <2>1 DEF TransferInv, ReadersWriteNothing
  <2>3. n = 0 /\ Len(front) = 0
    BY <1>3, <2>2
  <2>4. front = <<>>
    BY <1>3, <2>3, EmptySeq
  <2>5. disk' = disk
    BY <1>4, <2>4 DEF Patch
  <2>6. result' = how
    BY <1>4, <2>2, <2>3
  <2>7. Acknowledged
    BY <1>4, <1>8, <2>1, <2>6 DEF Acknowledged, Store, Busy
  <2>8. Written
    BY <2>5 DEF Written
  <2> QED BY <1>6, <2>7, <2>8
<1> QED BY <1>7, <1>8

(* The second half of storeTransfer, on whatever buffer it has. *)
LEMMA SaveStep ==
  ASSUME TransferInv, state = "DATA_TRANSFER", Store(mode), UNCHANGED ready,
         NEW b, WellFormed(b), NEW left \in Seq(Byte), Save(b, left),
         ~devZero => Four(upload, flushed, pending, Used(b), left)
  PROVE  TransferInv' /\ Acknowledged /\ Written
<1> DEFINE used == Used(b)
<1>1. /\ used \in Seq(Byte) /\ Len(used) = usedSize(b) /\ usedSize(b) \in Nat
      /\ pending \in Seq(Byte) /\ flushed \in Seq(Byte) /\ disk \in Seq(Byte) /\ pos \in Nat
      /\ ready \in BOOLEAN
  BY UsedBytes, Types DEF TransferInv, TypeOK
<1>2. ASSUME ~devZero, NEW n \in 1..usedSize(b),
             buffer' = markFree(b, n), coming' = left,
             NEW k \in 0..Len(pending \o SubSeq(Used(b), 1, n)),
             Flush(pending \o SubSeq(Used(b), 1, n), k),
             pos' = pos + k,
             flushed' = flushed \o SubSeq(pending \o SubSeq(Used(b), 1, n), 1, k),
             pending' = SubSeq(pending \o SubSeq(Used(b), 1, n), k + 1,
                               Len(pending \o SubSeq(Used(b), 1, n))),
             UNCHANGED <<state, mode, restart, asked, devZero, exists, upload, ended, sent,
                         history, result>>
      PROVE  TransferInv' /\ Acknowledged /\ Written
  <2> DEFINE u1    == SubSeq(used, 1, n)
             u2    == SubSeq(used, n + 1, Len(used))
             taken == pending \o u1
  <2>1. /\ n \in 0..Len(used) /\ n \in 0..usedSize(b)
        /\ u1 \in Seq(Byte) /\ u2 \in Seq(Byte) /\ taken \in Seq(Byte)
    BY <1>1, MovedOver
  <2>2. WellFormed(buffer') /\ Used(buffer') = u2
    BY <1>1, <1>2, <2>1, FreeUsed
  <2>3. /\ disk' = Patch(disk, pos, SubSeq(taken, 1, k))
        /\ flushed' = flushed \o SubSeq(taken, 1, k)
        /\ pending' = SubSeq(taken, k + 1, Len(taken))
        /\ k \in 0..Len(taken)
    BY <1>2 DEF Flush
  <2>4. Four(upload, flushed, taken, u2, left)
    BY <1>1, <1>2, <2>1, FourMoves
  <2> HIDE DEF used, u1, u2, taken
  <2>5. Three(upload, flushed, taken, u2 \o left)
    BY <1>1, <2>1, <2>4, FourIsThree
  <2>6. u2 \o left \in Seq(Byte)
    BY <2>1, ConcatProperties
  <2>7. Busy
    BY <1>2 DEF Busy
  <2>8. /\ flushed' \in Seq(Byte) /\ pending' \in Seq(Byte)
        /\ disk' = Patch(base, at, flushed')
        /\ pos + k = at + Len(flushed')
        /\ Three(upload, flushed', pending', u2 \o left)
        /\ SubSeq(upload, 1, Len(flushed')) = flushed' /\ Len(flushed') \in 0..Len(upload)
    BY <2>1, <2>3, <2>5, <2>6, <2>7, FlushedFile
  <2>9. Four(upload, flushed', pending', u2, left)
    BY <2>1, <2>8, FourIsThree
  <2>10. disk' \in Seq(Byte)
    BY <2>8, PatchIsFile, Types DEF TransferInv
  <2>11. /\ UNCHANGED <<state, mode, devZero, exists, upload, ended, sent, at, base, count,
                        result>>
         /\ pos' \in Nat
    BY <1>1, <1>2, <2>3 DEF history
  <2>12. Control'
    BY <2>11, <1>1 DEF TransferInv, TypeOK, Control
  <2>13. Data'
    BY <1>2, <2>2, <2>8, <2>10, <2>11 DEF TransferInv, TypeOK, Data
  <2>14. Idle' /\ ReadersWriteNothing' /\ SentInOrder'
    BY <1>2, <2>11 DEF TransferInv, ReadersWriteNothing, Idle, SentInOrder, Store
  <2>15. StoredInOrder'
    BY <1>2, <2>2, <2>8, <2>9, <2>11 DEF StoredInOrder, Four
  <2>16. Acknowledged
    BY <2>11 DEF Acknowledged
  <2>17. Written
    BY <2>7, <2>8 DEF Written
  <2> QED BY <2>12, <2>13, <2>14, <2>15, <2>16, <2>17, ControlAndData DEF TransferInv
<1>3. ASSUME ~devZero, CloseFile(pending, "failed"), buffer' = b
      PROVE  TransferInv' /\ Acknowledged /\ Written
  BY <1>1, <1>3, CloseStep
<1>4. ASSUME devZero, buffer' = clear(b), coming' = left,
             UNCHANGED <<state, mode, restart, asked, devZero, pos, pending, target, upload,
                         ended, sent, history, flushed, result>>
      PROVE  TransferInv' /\ Acknowledged /\ Written
  <2>1. /\ UNCHANGED <<state, mode, devZero, pos, pending, exists, disk, upload,
                       ended, sent, at, base, count, flushed, result>>
    BY <1>4 DEF target, history
  <2>2. WellFormed(buffer')
    BY <1>4, ClearUsed
  <2>3. Control' /\ Data'
    BY <1>1, <1>4, <2>1, <2>2 DEF TransferInv, TypeOK, Control, Data
  <2>4. Idle' /\ ReadersWriteNothing' /\ SentInOrder' /\ StoredInOrder'
    BY <1>4, <2>1 DEF TransferInv, ReadersWriteNothing, Idle, SentInOrder, StoredInOrder, Busy
  <2>5. Acknowledged /\ Written
    BY <2>1 DEF Acknowledged, Written
  <2> QED BY <2>3, <2>4, <2>5, ControlAndData DEF TransferInv
<1> QED BY <1>2, <1>3, <1>4 DEF Save

(* storeTransfer. *)
LEMMA StoreStep ==
  ASSUME TransferInv, storeTransfer
  PROVE  TransferInv' /\ Acknowledged /\ Written
<1>1. state = "DATA_TRANSFER" /\ Store(mode) /\ UNCHANGED ready
  BY DEF storeTransfer
<1>2. /\ WellFormed(buffer) /\ Used(buffer) \in Seq(Byte) /\ Size \in Nat \ {0}
      /\ coming \in Seq(Byte) /\ flushed \in Seq(Byte) /\ pending \in Seq(Byte)
      /\ flushed \o pending \in Seq(Byte) /\ ready' \in BOOLEAN
  BY <1>1, Types, ConcatProperties DEF TransferInv, TypeOK
<1>3. ~devZero => Four(upload, flushed, pending, Used(buffer), coming)
  BY <1>1 DEF TransferInv, StoredInOrder, Busy, Four
<1>4. /\ WellFormed(clear(buffer)) /\ Used(clear(buffer)) = <<>>
      /\ freeSize(clear(buffer)) = Size
  BY <1>2, ClearUsed
<1>5. CASE Used(buffer) # <<>> /\ Save(buffer, coming)
  BY <1>1, <1>2, <1>3, <1>5, SaveStep
<1>6. ASSUME Used(buffer) = <<>>, NEW n \in 1..Size, n <= Len(coming),
             Save(Put(clear(buffer), SubSeq(coming, 1, n)), SubSeq(coming, n + 1, Len(coming)))
      PROVE  TransferInv' /\ Acknowledged /\ Written
  <2> DEFINE front == SubSeq(coming, 1, n)
             left  == SubSeq(coming, n + 1, Len(coming))
             b     == Put(clear(buffer), front)
  <2>1. n \in 0..Len(coming) /\ n <= Size
    BY <1>2, <1>6
  <2>2. front \in Seq(Byte) /\ Len(front) = n /\ left \in Seq(Byte)
    BY <1>2, <2>1, CutInTwo
  <2>3. front \o left = coming
    BY <1>2, <2>1, CutInTwo
  <2> HIDE DEF front, left
  <2>4. WellFormed(b) /\ Used(b) = <<>> \o front
    BY <1>4, <2>1, <2>2, PutUsed
  <2>5. Used(b) = front
    BY <2>2, <2>4, ConcatEmptySeq
  <2>6. Used(buffer) \o coming = front \o left
    BY <1>2, <1>6, <2>3, ConcatEmptySeq
  <2>7. ~devZero => Three(upload, flushed, pending, front \o left)
    BY <1>2, <1>3, <2>6, FourIsThree
  <2>8. ~devZero => Four(upload, flushed, pending, Used(b), left)
    BY <1>2, <2>2, <2>5, <2>7, FourIsThree
  <2>9. Save(b, left)
    BY <1>6 DEF front, left
  <2> HIDE DEF b
  <2> QED BY <1>1, <2>2, <2>4, <2>8, <2>9, SaveStep
<1>7. ASSUME Used(buffer) = <<>>, buffer' = clear(buffer),
             UNCHANGED <<state, mode, restart, asked, devZero, pos, pending, target, peer,
                         history, flushed, result>>
      PROVE  TransferInv' /\ Acknowledged /\ Written
  <2>1. /\ UNCHANGED <<state, mode, devZero, pos, pending, exists, disk, upload, coming,
                       ended, sent, at, base, count, flushed, result>>
        /\ WellFormed(buffer') /\ Used(buffer') = Used(buffer)
    BY <1>4, <1>7 DEF target, history, peer
  <2>2. Control' /\ Data'
    BY <1>1, <2>1 DEF TransferInv, TypeOK, Control, Data
  <2>3. Idle' /\ ReadersWriteNothing' /\ SentInOrder' /\ StoredInOrder'
    BY <1>1, <2>1 DEF TransferInv, ReadersWriteNothing, Idle, SentInOrder, StoredInOrder,
                      Busy, Store
  <2>4. Acknowledged /\ Written
    BY <2>1 DEF Acknowledged, Written
  <2> QED BY <2>2, <2>3, <2>4, ControlAndData DEF TransferInv
<1>8. ASSUME NEW how \in {"226", "failed"}, buffer' = clear(buffer), CloseFile(pending, how),
             Used(buffer) = <<>>, how = "226" => ended /\ coming = <<>>
      PROVE  TransferInv' /\ Acknowledged /\ Written
  BY <1>1, <1>2, <1>4, <1>8, CloseStep
<1> QED BY <1>5, <1>6, <1>7, <1>8 DEF storeTransfer

-----------------------------------------------------------------------------
(* The file that is sent.                                                   *)

(* A retrieve ends (Finish); nothing is pending. *)
LEMMA FinishStep ==
  ASSUME TransferInv, mode = "RETR", NEW how \in {"226", "failed"}, Finish(how),
         WellFormed(buffer'), disk' = disk, ready' \in BOOLEAN,
         how = "226" => sent = SubSeq(disk, at + 1, Len(disk))
  PROVE  TransferInv' /\ Acknowledged /\ Written
<1>1. ToCommand /\ result' = how /\ mode' = mode /\ exists' = exists /\ count' = count
  BY DEF Finish
<1>2. disk \in Seq(Byte) /\ exists \in BOOLEAN
  BY DEF TransferInv, TypeOK
<1>3. TransferInv'
  BY <1>1, <1>2, BackToCommand
<1>4. Acknowledged /\ Written
  BY <1>1 DEF Acknowledged, Written, Store
<1> QED BY <1>3, <1>4

(* The second half of retrieveTransfer, on a buffer that goes on from what was sent. *)
LEMMA WriteStep ==
  ASSUME TransferInv, state = "DATA_TRANSFER", mode = "RETR", UNCHANGED <<ready, disk>>,
         NEW b, WellFormed(b), NEW p \in Nat, Write(b, p),
         ~devZero => /\ p = at + Len(sent) + usedSize(b)
                     /\ p <= Len(disk) \/ p = at
                     /\ sent \o Used(b) = SubSeq(disk, at + 1, p)
  PROVE  TransferInv' /\ Acknowledged /\ Written
<1> DEFINE used == Used(b)
<1>1. /\ used \in Seq(Byte) /\ Len(used) = usedSize(b) /\ usedSize(b) \in Nat
      /\ sent \in Seq(Byte) /\ at \in Nat /\ disk \in Seq(Byte)
      /\ ready \in BOOLEAN /\ Len(sent) \in Nat
  BY UsedBytes, Types DEF TransferInv, TypeOK
<1>2. ASSUME NEW n \in 0..usedSize(b), buffer' = markFree(b, n),
             sent' = IF devZero THEN sent ELSE sent \o SubSeq(Used(b), 1, n), pos' = p,
             UNCHANGED <<state, mode, restart, asked, devZero, pending, exists, upload, coming,
                         ended, history, flushed, result>>
      PROVE  TransferInv' /\ Acknowledged /\ Written
  <2>1. /\ UNCHANGED <<state, mode, ready, devZero, pending, exists, disk, upload, coming,
                       ended, at, base, count, flushed, result>>
    BY <1>2 DEF history
  <2>2. n \in 0..Len(used)
    BY <1>1, <1>2
  <2>3. WellFormed(buffer') /\ Used(buffer') = SubSeq(used, n + 1, Len(used))
    BY <1>1, <1>2, FreeUsed
  <2>4. /\ sent \o SubSeq(used, 1, n) \in Seq(Byte)
        /\ Len(sent \o SubSeq(used, 1, n)) = Len(sent) + n
        /\ SubSeq(used, n + 1, Len(used)) \in Seq(Byte)
        /\ Len(SubSeq(used, n + 1, Len(used))) = Len(used) - n
    BY <1>1, <2>2, MovedOver, CutInTwo, SMTT(60)
  <2>5. usedSize(buffer') = Len(used) - n
    BY <2>3, <2>4, UsedBytes
  <2>6. Control'
    BY <2>1 DEF TransferInv, TypeOK, Control
  <2>7. Data'
    BY <1>1, <1>2, <2>1, <2>3, <2>4 DEF TransferInv, TypeOK, Data
  <2>8. Idle' /\ ReadersWriteNothing' /\ StoredInOrder'
    BY <2>1 DEF TransferInv, Idle, ReadersWriteNothing, StoredInOrder, Store
  <2>9. SentInOrder'
    <3>1. CASE devZero
      BY <2>1, <3>1 DEF SentInOrder, Busy
    <3>2. CASE ~devZero
      <4>1. sent' = sent \o SubSeq(used, 1, n) /\ Len(sent') = Len(sent) + n
        BY <1>2, <2>4, <3>2
      <4>2. (sent \o SubSeq(used, 1, n)) \o SubSeq(used, n + 1, Len(used)) = sent \o used
        BY <1>1, <2>2, MovedWhole
      <4>3. sent' \o Used(buffer') = SubSeq(disk, at + 1, p)
        BY <2>3, <3>2, <4>1, <4>2
      <4>4. p = at + Len(sent') + usedSize(buffer')
        BY <1>1, <2>2, <2>5, <3>2, <4>1
      <4>5. disk = base
        BY <3>2 DEF TransferInv, SentInOrder, Busy
      <4> QED BY <1>2, <2>1, <3>2, <4>3, <4>4, <4>5 DEF SentInOrder
    <3> QED BY <3>1, <3>2
  <2>10. Acknowledged /\ Written
    BY <2>1 DEF Acknowledged, Written
  <2> QED BY <2>6, <2>7, <2>8, <2>9, <2>10, ControlAndData DEF TransferInv
<1>3. ASSUME Finish("failed"), buffer' = b
      PROVE  TransferInv' /\ Acknowledged /\ Written
  BY <1>1, <1>3, FinishStep
<1> QED BY <1>2, <1>3 DEF Write

(* retrieveTransfer. *)
LEMMA RetrieveStep ==
  ASSUME TransferInv, retrieveTransfer
  PROVE  TransferInv' /\ Acknowledged /\ Written
<1>1. /\ state = "DATA_TRANSFER" /\ mode = "RETR" /\ UNCHANGED <<ready, disk>>
  BY DEF retrieveTransfer
<1>2. /\ WellFormed(buffer) /\ Used(buffer) \in Seq(Byte) /\ Size \in Nat \ {0}
      /\ Len(Used(buffer)) = usedSize(buffer) /\ usedSize(buffer) \in Nat
      /\ sent \in Seq(Byte) /\ at \in Nat /\ pos \in Nat /\ disk \in Seq(Byte)
      /\ ready' \in BOOLEAN /\ Len(sent) \in Nat /\ Len(disk) \in Nat
  BY <1>1, Types DEF TransferInv, TypeOK
<1>3. ~devZero => /\ pos = at + Len(sent) + usedSize(buffer)
                  /\ pos <= Len(disk) \/ pos = at
                  /\ sent \o Used(buffer) = SubSeq(disk, at + 1, pos)
  BY <1>1 DEF TransferInv, SentInOrder, Busy
<1>4. /\ WellFormed(clear(buffer)) /\ Used(clear(buffer)) = <<>>
      /\ freeSize(clear(buffer)) = Size /\ usedSize(clear(buffer)) = 0
  BY <1>2, ClearUsed
<1>5. CASE Used(buffer) # <<>> /\ Write(buffer, pos)
  BY <1>1, <1>2, <1>3, <1>5, WriteStep
<1>6. CASE devZero /\ Write(Put(clear(buffer), [i \in 1..Size |-> NUL]), pos)
  <2> DEFINE zeros == [i \in 1..Size |-> NUL]
  <2>1. zeros \in [1..Size -> Byte] /\ Size \in Nat
    BY <1>2, NULAssumption
  <2>2. zeros \in Seq(Byte) /\ Len(zeros) = Size
    BY <2>1, FunctionIsSeq
  <2>3. Write(Put(clear(buffer), zeros), pos)
    BY <1>6
  <2> HIDE DEF zeros
  <2>4. WellFormed(Put(clear(buffer), zeros))
    BY <1>2, <1>4, <2>2, PutUsed
  <2> QED BY <1>1, <1>2, <1>6, <2>3, <2>4, WriteStep
<1>7. ASSUME Used(buffer) = <<>>, ~devZero, NEW n \in 1..Size, pos + n <= Len(disk),
             Write(Put(clear(buffer), SubSeq(disk, pos + 1, pos + n)), pos + n)
      PROVE  TransferInv' /\ Acknowledged /\ Written
  <2> DEFINE chunk == SubSeq(disk, pos + 1, pos + n)
             b     == Put(clear(buffer), chunk)
  <2>1. chunk \in Seq(Byte) /\ Len(chunk) = n /\ pos + n \in Nat /\ n <= Size
    BY <1>2, <1>7
  <2>2. usedSize(buffer) = 0
    BY <1>2, <1>7, EmptySeq
  <2>3. sent = SubSeq(disk, at + 1, pos) /\ at <= pos /\ pos = at + Len(sent)
    BY <1>2, <1>3, <1>7, <2>2, ConcatEmptySeq
  <2>4. SubSeq(disk, at + 1, pos) \o SubSeq(disk, pos + 1, pos + n)
          = SubSeq(disk, at + 1, pos + n)
    <3>1. /\ at + 1 \in 1..(Len(disk) + 1)
          /\ pos \in ((at + 1) - 1)..Len(disk)
          /\ pos + n \in pos..Len(disk)
      BY <1>2, <1>7, <2>3
    <3> QED BY <1>2, <3>1, ConcatAdjacentSubSeq
  <2>5. sent \o chunk = SubSeq(disk, at + 1, pos + n)
    BY <2>3, <2>4
  <2> HIDE DEF chunk
  <2>6. WellFormed(b) /\ Used(b) = <<>> \o chunk /\ usedSize(b) = 0 + Len(chunk)
    BY <1>4, <2>1, PutUsed
  <2>7. Used(b) = chunk /\ usedSize(b) = n
    BY <2>1, <2>6, ConcatEmptySeq
  <2>8. Write(b, pos + n)
    BY <1>7 DEF chunk
  <2> HIDE DEF b
  <2>9. pos + n = at + Len(sent) + usedSize(b)
    BY <1>2, <2>3, <2>7
  <2> QED BY <1>1, <1>7, <2>1, <2>5, <2>6, <2>7, <2>8, <2>9, WriteStep
<1>8. ASSUME Used(buffer) = <<>>, ~devZero, buffer' = clear(buffer), NEW how \in {"226", "failed"},
             Finish(how), how = "226" => pos >= Len(disk)
      PROVE  TransferInv' /\ Acknowledged /\ Written
  <2>1. usedSize(buffer) = 0
    BY <1>2, <1>8, EmptySeq
  <2>2. sent = SubSeq(disk, at + 1, pos)
    BY <1>2, <1>3, <1>8, ConcatEmptySeq
  <2>3. ASSUME how = "226" PROVE sent = SubSeq(disk, at + 1, Len(disk))
    <3>1. CASE pos = Len(disk)
      BY <2>2, <3>1
    <3>2. CASE pos # Len(disk)
      <4>3. (pos <= Len(disk) \/ pos = at) /\ pos >= Len(disk)
        BY <1>3, <1>8, <2>3
      <4>1. pos = at /\ Len(disk) < at + 1 /\ pos < at + 1 /\ at + 1 \in Int
            /\ Len(disk) \in Int /\ pos \in Int
        BY <1>2, <3>2, <4>3
      <4>2. SubSeq(disk, at + 1, pos) = <<>> /\ SubSeq(disk, at + 1, Len(disk)) = <<>>
        BY <4>1, SubSeqEmpty
      <4> QED BY <2>2, <4>2
    <3> QED BY <3>1, <3>2
  <2> QED BY <1>1, <1>2, <1>4, <1>8, <2>3, FinishStep
<1> QED BY <1>5, <1>6, <1>7, <1>8 DEF retrieveTransfer

(* The data connection: it is there, it breaks, bytes arrive, the upload ends. *)
LEMMA ConnectionStep ==
  ASSUME TransferInv, Connected \/ Broken \/ (\E x \in Upload : PeerSends(x)) \/ PeerEnds
  PROVE  TransferInv' /\ Acknowledged /\ Written
<1>1. CASE Connected
  <2>1. /\ state = "DATA_CONNECT" /\ state' = "DATA_TRANSFER" /\ ready' = FALSE
        /\ UNCHANGED <<mode, devZero, buffer, pos, pending, exists, disk, upload, coming,
                       ended, sent, at, base, count, flushed, result>>
    BY <1>1 DEF Connected, target, peer, history
  <2>2. Control' /\ Data'
    BY <2>1 DEF TransferInv, TypeOK, Control, Data
  <2>3. Idle' /\ ReadersWriteNothing' /\ SentInOrder' /\ StoredInOrder'
    BY <2>1 DEF TransferInv, Idle, ReadersWriteNothing, SentInOrder, StoredInOrder, Busy
  <2>4. Acknowledged /\ Written
    BY <2>1 DEF Acknowledged, Written
  <2> QED BY <2>2, <2>3, <2>4, ControlAndData DEF TransferInv
<1>2. CASE Broken
  <2>1. /\ state # "COMMAND" /\ CloseFile(pending, "failed") /\ WellFormed(buffer')
        /\ ready' \in BOOLEAN
    BY <1>2 DEF Broken, TransferInv, TypeOK
  <2> QED BY <2>1, CloseStep
<1>3. ASSUME NEW x \in Upload, PeerSends(x) PROVE TransferInv' /\ Acknowledged /\ Written
  <2>1. /\ state = "DATA_TRANSFER" /\ Store(mode)
        /\ upload' = Append(upload, x) /\ coming' = Append(coming, x) /\ x \in Byte
        /\ UNCHANGED <<state, mode, ready, devZero, buffer, pos, pending, exists, disk,
                       ended, sent, at, base, count, flushed, result>>
    BY <1>3, DataAssumption DEF PeerSends, target, history
  <2>2. Control'
    BY <2>1 DEF TransferInv, TypeOK, Control
  <2>3. upload' \in Seq(Byte) /\ coming' \in Seq(Byte)
    BY <2>1, Types, AppendProperties DEF TransferInv
  <2>4. Data'
    BY <2>1, <2>3 DEF TransferInv, TypeOK, Data
  <2>5. Idle' /\ ReadersWriteNothing' /\ SentInOrder'
    BY <2>1 DEF TransferInv, Idle, ReadersWriteNothing, SentInOrder, Store
  <2>6. StoredInOrder'
    <3>1. CASE devZero
      BY <2>1, <3>1 DEF StoredInOrder, Busy
    <3>2. CASE ~devZero
      <4> DEFINE q == (flushed \o pending) \o Used(buffer)
      <4>1. upload = q \o coming
        BY <2>1, <3>2 DEF TransferInv, StoredInOrder, Busy
      <4>2. q \in Seq(Byte) /\ coming \in Seq(Byte)
        BY Types, ConcatProperties DEF TransferInv
      <4> HIDE DEF q
      <4>3. Append(q \o coming, x) = q \o Append(coming, x)
        <5> DEFINE t == <<x>>
        <5>1. t \in Seq(Byte) /\ q \o coming \in Seq(Byte)
          BY <2>1, <4>2, ConcatProperties
        <5>2. Append(q \o coming, x) = (q \o coming) \o t
          BY <2>1, <5>1, AppendIsConcat
        <5>3. Append(coming, x) = coming \o t
          BY <2>1, <4>2, AppendIsConcat
        <5>4. t \in Seq(Byte)
          BY <5>1
        <5> HIDE DEF t
        <5>5. (q \o coming) \o t = q \o (coming \o t)
          BY <4>2, <5>4, ConcatAssociative
        <5> QED BY <5>2, <5>3, <5>5
      <4>4. upload' = q \o coming'
        BY <2>1, <4>1, <4>3
      <4>5. Used(buffer') = Used(buffer)
        BY <2>1
      <4> QED BY <2>1, <3>2, <4>4, <4>5 DEF q, TransferInv, StoredInOrder, Busy
    <3> QED BY <3>1, <3>2
  <2>7. Acknowledged /\ Written
    BY <2>1 DEF Acknowledged, Written
  <2> QED BY <2>2, <2>4, <2>5, <2>6, <2>7, ControlAndData DEF TransferInv
<1>4. CASE PeerEnds
  <2>1. /\ ended' = TRUE
        /\ UNCHANGED <<state, mode, ready, devZero, buffer, pos, pending, exists, disk,
                       upload, coming, sent, at, base, count, flushed, result>>
    BY <1>4 DEF PeerEnds, target, history
  <2>2. Control' /\ Data'
    BY <2>1 DEF TransferInv, TypeOK, Control, Data
  <2>3. Idle' /\ ReadersWriteNothing' /\ SentInOrder' /\ StoredInOrder'
    BY <2>1 DEF TransferInv, Idle, ReadersWriteNothing, SentInOrder, StoredInOrder, Busy
  <2>4. Acknowledged /\ Written
    BY <2>1 DEF Acknowledged, Written
  <2> QED BY <2>2, <2>3, <2>4, ControlAndData DEF TransferInv
<1> QED BY <1>1, <1>2, <1>3, <1>4

(* A session is destroyed, with what its file had not written yet (Destroy). *)
LEMMA DestroyStep ==
  ASSUME TransferInv, Destroy
  PROVE  TransferInv' /\ Acknowledged /\ Written
<1>1. PICK n \in 0..Len(pending) : \E junk \in [1..n -> Byte] : disk' = Patch(disk, pos, junk)
  BY DEF Destroy
<1>2. PICK junk \in [1..n -> Byte] : disk' = Patch(disk, pos, junk)
  BY <1>1
<1>3. /\ pending \in Seq(Byte) /\ flushed \in Seq(Byte) /\ disk \in Seq(Byte) /\ pos \in Nat
      /\ base \in Seq(Byte) /\ at \in Nat /\ Len(pending) \in Nat
  BY Types DEF TransferInv
<1>4. n \in Nat /\ junk \in Seq(Byte) /\ Len(junk) = n
  BY <1>3, FunctionIsSeq
<1>5. /\ ToCommand /\ mode' = "none" /\ ready' = FALSE /\ buffer' = NewBuffer
      /\ result' = "destroyed" /\ count' = MaxTransfers /\ exists' = exists
  BY DEF Destroy
<1>6. disk' \in Seq(Byte)
  BY <1>2, <1>3, <1>4, PatchIsFile
<1>7. TransferInv'
  <2>1. /\ WellFormed(buffer') /\ exists' \in BOOLEAN /\ ready' \in BOOLEAN
        /\ result' \in {"none", "226", "lost", "failed", "destroyed"}
        /\ mode' \in {mode, "none"} /\ count' \in {count, MaxTransfers}
    BY <1>5, EmptyBuffer DEF TransferInv, TypeOK
  <2> QED BY <1>5, <1>6, <2>1, BackToCommand
<1>8. Acknowledged
  BY <1>5 DEF Acknowledged
<1>9. CASE n = 0
  <2>1. junk = <<>>
    BY <1>4, <1>9, EmptySeq
  <2>2. disk' = disk
    BY <1>2, <2>1 DEF Patch
  <2> QED BY <1>7, <1>8, <2>2 DEF Written
<1>10. CASE n # 0
  <2>1. pending # <<>>
    BY <1>3, <1>10, EmptySeq
  <2>2. Busy /\ Store(mode)
    BY <2>1 DEF TransferInv, TypeOK, Idle, ReadersWriteNothing, Busy, Store
  <2>3. pos = at + Len(flushed) /\ disk = Patch(base, at, flushed)
    BY <2>2 DEF TransferInv, StoredInOrder
  <2>4. disk' = Patch(base, at, flushed \o junk)
    BY <1>2, <1>3, <1>4, <2>3, PatchGoesOn
  <2>5. SubSeq(disk', pos + 1, pos + n) = junk
    BY <1>2, <1>3, <1>4, <1>10, EmptySeq, PatchIsThere
  <2>6. n \in 1..Len(pending)
    BY <1>3, <1>10
  <2> QED BY <1>5, <1>7, <1>8, <2>2, <2>4, <2>5, <2>6 DEF Written
<1> QED BY <1>4, <1>9, <1>10

-----------------------------------------------------------------------------
(* The theorems.                                                            *)

LEMMA InitialInv == Init => TransferInv
<1> SUFFICES ASSUME Init PROVE TransferInv
  OBVIOUS
<1>1. WellFormed(buffer)
  BY EmptyBuffer DEF Init
<1>2. disk \in Seq(Byte)
  BY DataAssumption, EmptySeq DEF Init
<1>3. Control
  <2>1. exists \in BOOLEAN
    BY DEF Init
  <2>2. count \in 0..MaxTransfers
    BY BoundAssumption DEF Init
  <2> QED BY <2>1, <2>2 DEF Init, Control
<1>4. Data
  BY <1>1, <1>2, EmptySeq DEF Init, Data
<1>5. Idle /\ ReadersWriteNothing /\ SentInOrder /\ StoredInOrder
  BY DEF Init, Idle, ReadersWriteNothing, SentInOrder, StoredInOrder, Busy
<1> QED BY <1>3, <1>4, <1>5, ControlAndData DEF TransferInv

LEMMA EveryStep ==
  ASSUME TransferInv, [Next]_vars
  PROVE  TransferInv' /\ [Acknowledged]_vars /\ [Written]_vars
<1>1. CASE (\E args \in Offsets : REST(args)) \/ Prepare
  BY <1>1, CommandStep
<1>2. CASE \E m \in {"RETR", "STOR", "APPE"} : xferFile(m)
  BY <1>2, XferFileStep
<1>3. CASE Connected \/ Broken \/ (\E x \in Upload : PeerSends(x)) \/ PeerEnds
  BY <1>3, ConnectionStep
<1>4. CASE retrieveTransfer
  BY <1>4, RetrieveStep
<1>5. CASE storeTransfer
  BY <1>5, StoreStep
<1>6. CASE Destroy
  BY <1>6, DestroyStep
<1>7. CASE UNCHANGED vars
  <2>1. UNCHANGED <<state, mode, ready, devZero, buffer, pos, pending, exists, disk, upload,
                    coming, ended, sent, at, base, count, flushed, result>>
    BY <1>7 DEF vars, target, peer, history
  <2>2. Control' /\ Data'
    BY <2>1 DEF TransferInv, TypeOK, Control, Data
  <2>3. Idle' /\ ReadersWriteNothing' /\ SentInOrder' /\ StoredInOrder'
    BY <2>1 DEF TransferInv, Idle, ReadersWriteNothing, SentInOrder, StoredInOrder, Busy
  <2> QED BY <1>7, <2>2, <2>3, ControlAndData DEF TransferInv
<1> QED BY <1>1, <1>2, <1>3, <1>4, <1>5, <1>6, <1>7 DEF Next

(* A retrieved file is sent in order from where the transfer began, whatever the buffer *)
(* size and however reads and writes are cut (retrieveTransfer). *)
THEOREM SentBytes == Spec => []SentInOrder
<1>1. TransferInv => SentInOrder
  BY DEF TransferInv
<1>2. TransferInv /\ [Next]_vars => TransferInv'
  BY EveryStep
<1> QED BY <1>1, <1>2, InitialInv, PTL DEF Spec

(* Bytes that are stored are neither lost, doubled nor moved between the data connection, *)
(* m_xferBuffer, the C library and the file (storeTransfer). *)
THEOREM StoredBytes == Spec => [](TypeOK /\ StoredInOrder)
<1>1. TransferInv => TypeOK /\ StoredInOrder
  BY DEF TransferInv
<1>2. TransferInv /\ [Next]_vars => TransferInv'
  BY EveryStep
<1> QED BY <1>1, <1>2, InitialInv, PTL DEF Spec

(* 226 is sent only for a whole file (retrieveTransfer, storeTransfer). *)
THEOREM WholeFiles == Spec => CompleteWhenAcknowledged
<1>1. TransferInv /\ [Next]_vars => TransferInv' /\ [Acknowledged]_vars
  BY EveryStep
<1> QED BY <1>1, InitialInv, PTL DEF Spec, CompleteWhenAcknowledged

(* However a transfer ends, nothing but the uploaded bytes gets into a file, from where the *)
(* transfer began and without a gap in them; a session that is destroyed may spoil those *)
(* that were not written yet (xferFile, setState, storeTransfer, ~FtpSession). *)
THEOREM FilesChangeByUpload == Spec => OnlyUploadedBytes
<1>1. TransferInv /\ [Next]_vars => TransferInv' /\ [Written]_vars
  BY EveryStep
<1> QED BY <1>1, InitialInv, PTL DEF Spec, OnlyUploadedBytes

-----------------------------------------------------------------------------
(* The offset and the place a transfer begins at.                           *)

(* What relates the offset of REST to the place where a transfer goes to. *)
OffsetInv == restart \in Nat /\ BeginsWhereAsked

\* A transfer goes on, or nothing is begun; or there is none any more.
GoesOn == /\ UNCHANGED <<mode, restart, asked, devZero, at>>
          /\ state' # "COMMAND" => state # "COMMAND"

LEMMA OffsetKept ==
  ASSUME OffsetInv, GoesOn \/ ToCommand
  PROVE  OffsetInv'
BY DEF OffsetInv, BeginsWhereAsked, Busy, GoesOn, ToCommand

(* The offset is taken as the client wrote it, or forgotten (REST). *)
LEMMA OffsetTaken ==
  ASSUME OffsetInv, NEW args \in Offsets, REST(args)
  PROVE  OffsetInv'
<1>1. args \in Seq(Digits)
  BY OffsetAssumption DEF Digits
<1>2. Parsed(args) = IF Fits(args) THEN Value(args) ELSE Refused
  BY <1>1, OffsetsAsWritten
<1>3. Value(args) \in Nat
  <2>1. PICK v : /\ Value(args) = v[Len(args)]
                 /\ \A i \in 0..Len(args) : v[i] \in Nat
    BY <1>1, ValueRuns
  <2> QED BY <1>1, <2>1
<1>4. Parsed(args) # Refused => Parsed(args) = Value(args)
  BY <1>2
<1>5. /\ state' = "COMMAND"
      /\ restart' = IF Parsed(args) = Refused THEN 0 ELSE Parsed(args)
      /\ asked' = IF Parsed(args) = Refused THEN 0 ELSE Value(args)
  BY DEF REST
<1> QED BY <1>3, <1>4, <1>5 DEF OffsetInv, BeginsWhereAsked, Busy

(* The file is opened at the offset; "/devZero" has none (xferFile). *)
LEMMA OffsetUsed ==
  ASSUME OffsetInv, NEW m \in {"RETR", "STOR", "APPE"}, xferFile(m)
  PROVE  OffsetInv'
<1>1. state = "COMMAND"
  BY DEF xferFile
<1>2. CASE NotOpened
  BY <1>1, <1>2, OffsetKept DEF NotOpened, GoesOn, history
<1>3. CASE Abandon
  BY <1>3, OffsetKept DEF Abandon
<1>4. CASE Opened(m) /\ Begin(m, Start(m)) /\ devZero' = FALSE
  <2>1. UNCHANGED <<restart, asked>> /\ mode' = m /\ at' = Start(m)
    BY <1>4 DEF Begin
  <2>2. Start(m) \in Nat
    BY <1>4 DEF Opened
  <2>3. m # "APPE" => /\ Start(m) = asked % (2 * (LongMax + 1))
                      /\ Start(m) = asked <=> asked <= LongMax
    BY <2>2, LowerBits DEF Start, OffsetInv, BeginsWhereAsked
  <2> QED BY <2>1, <2>3 DEF OffsetInv, BeginsWhereAsked
<1>5. CASE Begin(m, 0) /\ devZero' = TRUE
  BY <1>5 DEF Begin, OffsetInv, BeginsWhereAsked, Busy
<1> QED BY <1>2, <1>3, <1>4, <1>5 DEF xferFile

LEMMA OffsetStep == OffsetInv /\ [Next]_vars => OffsetInv'
<1> SUFFICES ASSUME OffsetInv, [Next]_vars PROVE OffsetInv'
  OBVIOUS
<1>1. ASSUME Prepare \/ Broken \/ Destroy PROVE ToCommand
  BY <1>1 DEF Prepare, Broken, CloseFile, Finish, Destroy
<1>2. ASSUME Connected \/ PeerEnds \/ \E b \in Upload : PeerSends(b) PROVE GoesOn
  BY <1>2 DEF Connected, PeerEnds, PeerSends, GoesOn, history
<1>3. ASSUME NEW b, NEW p, Write(b, p) PROVE GoesOn \/ ToCommand
  BY <1>3 DEF Write, Finish, GoesOn, history
<1>4. ASSUME retrieveTransfer PROVE GoesOn \/ ToCommand
  BY <1>3, <1>4 DEF retrieveTransfer, Finish
<1>5. ASSUME NEW b, NEW left, Save(b, left) PROVE GoesOn \/ ToCommand
  BY <1>5 DEF Save, CloseFile, Finish, GoesOn, history
<1>6. ASSUME storeTransfer PROVE GoesOn \/ ToCommand
  <2>1. CASE \E b, left : Save(b, left)
    BY <1>5, <2>1
  <2>2. CASE UNCHANGED <<state, mode, restart, asked, devZero, pos, pending, target, peer,
                         history, flushed, result>>
    BY <2>2 DEF GoesOn, history
  <2>3. CASE \E how \in {"226", "failed"} : CloseFile(pending, how)
    BY <2>3 DEF CloseFile, Finish
  <2> QED BY <1>6, <2>1, <2>2, <2>3 DEF storeTransfer
<1>7. ASSUME UNCHANGED vars PROVE GoesOn
  BY <1>7 DEF vars, history, GoesOn
<1> QED BY <1>1, <1>2, <1>4, <1>6, <1>7, OffsetTaken, OffsetUsed, OffsetKept DEF Next

(* For every width of uint64_t and long and every text of digits: a transfer begins at the *)
(* lower bits of the number written, which is that number if and only if a long can hold it *)
(* (REST, xferFile), and an offset is never used for another command but behind a 450.      *)
THEOREM OffsetsNarrowed == Spec => []BeginsWhereAsked
<1>1. Init => OffsetInv
  BY DEF Init, OffsetInv, BeginsWhereAsked, Busy
<1>2. OffsetInv => BeginsWhereAsked
  BY DEF OffsetInv
<1> QED BY <1>1, <1>2, OffsetStep, PTL DEF Spec

(* Every variable has its type. *)
THEOREM TransferTypes == Spec => []TypeOK
<1>1. TransferInv => TypeOK
  BY DEF TransferInv
<1>2. TransferInv /\ [Next]_vars => TransferInv'
  BY EveryStep
<1> QED BY <1>1, <1>2, InitialInv, PTL DEF Spec

=============================================================================
