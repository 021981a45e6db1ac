---------------------------- MODULE Files_proofs ----------------------------
(***************************************************************************)
(* For any sessions, handles, devices and tables: no handle is shared,      *)
(* left open or used when it is gone, a virtual listing is whole, a path    *)
(* with dots is what it means, and clients stand in directories.            *)
(*                                                                          *)
(* Three invariants, each inductive with those before it: ListInv (handles  *)
(* and listings), PathInv (paths and types) and TreeInv (the devices).      *)
(* Between the first and the others: Collapsed, whose loop is unfolded turn *)
(* by turn and compared with Meant.                                         *)
(***************************************************************************)
EXTENDS Files, SequenceTheorems, FiniteSetTheorems, WellFoundedInduction, TLAPS

States == [table : Tables, virtual : [Handle -> VirtualDirectory \cup {None}],
           real : SUBSET Handle, dangling : BOOLEAN]

(* The functions over the clients are that, whatever the paths in them are. *)
Shapes == /\ io \in States
          /\ dir = [c \in Client |-> dir[c]]
          /\ complete = [c \in Client |-> complete[c]]
          /\ shown = [c \in Client |-> shown[c]]

Handles(c) == /\ dir[c].handle \in Handle \cup {None}
              /\ dir[c].handle = None => dir[c] = NoHandle
              /\ dir[c] # NoHandle => c \in sessions

(* How far the listing of c is, in a directory of these names. *)
Progress(c, names) ==
  /\ io.virtual[dir[c].handle].names = Virtual(names).names
  /\ io.virtual[dir[c].handle].next \in 1..(Len(names) + 3)
  /\ shown[c] = SubSeq(Virtual(names).names, 3, io.virtual[dir[c].handle].next - 1)

Listing(c) == dir[c] # NoHandle /\ IsVirtual(c) =>
                /\ dir[c].path \in DOMAIN io.table
                /\ Progress(c, io.table[dir[c].path])

Completed(c) == complete[c].set =>
                  /\ c \in sessions /\ dir[c] = NoHandle
                  /\ complete[c].path \in DOMAIN io.table
                  /\ shown[c] = io.table[complete[c].path]

Apart == \A a \in io.real : io.virtual[a] = None

(* Inductive: what is read is what was opened, and by whom. *)
ListInv == /\ Shapes
           /\ \A c \in Client : Handles(c) /\ Listing(c) /\ Completed(c)
           /\ Apart
           /\ HandlesOpen

-----------------------------------------------------------------------------
(* Virtual directories.                                                     *)

(* What is in one, and what is left to read behind the dots. *)
LEMMA VirtualNames ==
  ASSUME NEW s \in Seq(Name)
  PROVE  /\ Virtual(s) \in VirtualDirectory
         /\ Virtual(s).next = 1
         /\ Virtual(s).names \in Seq(Name \cup Dots)
         /\ Len(Virtual(s).names) = Len(s) + 2
         /\ Virtual(s).names[1] \in Dots /\ Virtual(s).names[2] \in Dots
         /\ \A i \in 3..Len(s) + 2 : Virtual(s).names[i] = s[i - 2] /\ s[i - 2] \notin Dots
<1> DEFINE d == <<".", "..">>
<1>1. d \in Seq(Name \cup Dots) /\ Len(d) = 2 /\ d[1] = "." /\ d[2] = ".."
  <2>1. "." \in Name \cup Dots /\ ".." \in Name \cup Dots
    BY DEF Dots
  <2> QED BY <2>1
<1>2. s \in Seq(Name \cup Dots) /\ Len(s) \in Nat /\ \A i \in 1..Len(s) : s[i] \in Name /\ s[i] \notin Dots
  <2>1. Len(s) \in Nat /\ \A i \in 1..Len(s) : s[i] \in Name /\ s[i] \notin Dots
    BY LenProperties, ElementOfSeq, NameAssumption
  <2>2. s \in Seq(Name \cup Dots)
    BY <2>1, SeqDef
  <2> QED BY <2>1, <2>2
<1> HIDE DEF d
<1>3. /\ d \o s \in Seq(Name \cup Dots) /\ Len(d \o s) = Len(s) + 2
      /\ \A i \in 1..Len(s) + 2 : (d \o s)[i] = IF i <= 2 THEN d[i] ELSE s[i - 2]
  <2>1. /\ d \o s \in Seq(Name \cup Dots) /\ Len(d \o s) = Len(d) + Len(s)
        /\ \A i \in 1..Len(d) + Len(s) :
             (d \o s)[i] = IF i <= Len(d) THEN d[i] ELSE s[i - Len(d)]
    BY <1>1, <1>2, ConcatProperties
  <2> QED BY <2>1, <1>1, <1>2
<1>4. Virtual(s).names = d \o s /\ Virtual(s).next = 1 /\ Virtual(s) \in VirtualDirectory
  BY <1>3 DEF Virtual, VirtualDirectory, d
<1>5. (d \o s)[1] \in Dots /\ (d \o s)[2] \in Dots
  BY <1>1, <1>3 DEF Dots
<1>6. \A i \in 3..Len(s) + 2 : (d \o s)[i] = s[i - 2] /\ s[i - 2] \notin Dots
  BY <1>1, <1>2, <1>3
<1> QED BY <1>3, <1>4, <1>5, <1>6

(* One more name is read: a dot, which is skipped, or a name that is shown. *)
LEMMA OneMore ==
  ASSUME NEW s \in Seq(Name), NEW n \in 1..Len(s) + 2
  PROVE  LET names == Virtual(s).names
         IN  SubSeq(names, 3, n) = IF names[n] \in Dots THEN SubSeq(names, 3, n - 1)
                                   ELSE Append(SubSeq(names, 3, n - 1), names[n])
<1> DEFINE names == Virtual(s).names
<1>1. /\ names \in Seq(Name \cup Dots) /\ Len(names) = Len(s) + 2 /\ Len(s) \in Nat
      /\ names[1] \in Dots /\ names[2] \in Dots
      /\ \A i \in 3..Len(s) + 2 : names[i] \notin Dots
  BY VirtualNames, LenProperties
<1> HIDE DEF names
<1>2. CASE n <= 2
  <2>1. names[n] \in Dots
    BY <1>1, <1>2
  <2>2. SubSeq(names, 3, n) = <<>> /\ SubSeq(names, 3, n - 1) = <<>>
    BY <1>1, <1>2, SubSeqEmpty
  <2> QED BY <2>1, <2>2 DEF names
<1>3. CASE n > 2
  <2>1. names[n] \notin Dots /\ n \in 3..Len(names)
    BY <1>1, <1>3
  <2>2. SubSeq(names, 3, n) = Append(SubSeq(names, 3, n - 1), names[n])
    <3> DEFINE l == SubSeq(names, 3, n)
               r == SubSeq(names, 3, n - 1)
    <3>1. /\ l \in Seq(Name \cup Dots) /\ Len(l) = n - 2 /\ \A i \in 1..n - 2 : l[i] = names[2 + i]
      BY <1>1, <2>1, SubSeqProperties
    <3>2. /\ r \in Seq(Name \cup Dots) /\ Len(r) = n - 3 /\ \A i \in 1..n - 3 : r[i] = names[2 + i]
      BY <1>1, <2>1, SubSeqProperties
    <3>3. names[n] \in Name \cup Dots
      BY <1>1, <2>1, ElementOfSeq
    <3> HIDE DEF l, r
    <3>4. /\ Append(r, names[n]) \in Seq(Name \cup Dots) /\ Len(Append(r, names[n])) = n - 2
          /\ \A i \in 1..n - 3 : Append(r, names[n])[i] = r[i]
          /\ Append(r, names[n])[n - 2] = names[n]
      BY <3>2, <3>3, <2>1, AppendProperties
    <3>5. \A i \in 1..n - 2 : l[i] = Append(r, names[n])[i]
      BY <3>1, <3>2, <3>4, <2>1
    <3> QED BY <3>1, <3>4, <3>5, SeqEqual DEF l, r
  <2> QED BY <2>1, <2>2 DEF names
<1> QED BY <1>1, <1>2, <1>3

(* At the end all of them are. *)
LEMMA AllOfThem ==
  ASSUME NEW s \in Seq(Name)
  PROVE  SubSeq(Virtual(s).names, 3, Len(s) + 2) = s
<1> DEFINE names == Virtual(s).names
<1>1. /\ names \in Seq(Name \cup Dots) /\ Len(names) = Len(s) + 2 /\ Len(s) \in Nat
      /\ \A i \in 3..Len(s) + 2 : names[i] = s[i - 2]
  BY VirtualNames, LenProperties
<1> HIDE DEF names
<1>2. /\ SubSeq(names, 3, Len(s) + 2) \in Seq(Name \cup Dots)
      /\ Len(SubSeq(names, 3, Len(s) + 2)) = Len(s)
      /\ \A i \in 1..Len(s) : SubSeq(names, 3, Len(s) + 2)[i] = names[2 + i]
  BY <1>1, SubSeqProperties
<1>3. \A i \in 1..Len(s) : SubSeq(names, 3, Len(s) + 2)[i] = s[i]
  BY <1>1, <1>2
<1>4. s \in Seq(Name \cup Dots)
  BY LenProperties, ElementOfSeq, SeqDef
<1> QED BY <1>2, <1>3, <1>4, SeqEqual DEF names

(* Such names are in every table there can be. *)
LEMMA TableNames ==
  ASSUME NEW t \in Tables, NEW p \in DOMAIN t
  PROVE  t[p] \in Seq(Name)
BY TablesAssumption

-----------------------------------------------------------------------------
(* Steps.                                                                   *)

LEMMA InitHolds == Init => ListInv
<1> SUFFICES ASSUME Init PROVE ListInv
  OBVIOUS
<1>1. PICK t \in Tables : io = clear(NewState, t)
  BY DEF Init
<1>2. io = [table |-> t, virtual |-> NoHandles, real |-> {}, dangling |-> FALSE]
  BY <1>1 DEF clear, NewState
<1>3. io \in States
  BY <1>2 DEF States, NoHandles
<1>4. dir = [c \in Client |-> NoHandle] /\ complete = [c \in Client |-> Nowhere]
      /\ shown = [c \in Client |-> <<>>]
  BY DEF Init
<1>5. Shapes
  BY <1>3, <1>4 DEF Shapes
<1>6. \A c \in Client : Handles(c) /\ Listing(c) /\ Completed(c)
  BY <1>4 DEF Handles, Listing, Completed, NoHandle, Nowhere
<1>7. Apart
  BY <1>2 DEF Apart
<1>8. Used(io) = {}
  BY <1>2 DEF Used, NoHandles
<1>9. HandlesOpen
  BY <1>2, <1>4, <1>8 DEF HandlesOpen
<1> QED BY <1>5, <1>6, <1>7, <1>9 DEF ListInv

(* Commands begin without a listing and only forget what was shown. *)
LEMMA SettledKeeps ==
  ASSUME ListInv, NEW c \in Client, Ready(c), Settled(c)
  PROVE  ListInv'
<1>1. io' = io /\ dir' = dir /\ sessions' = sessions
  BY DEF Settled
<1>2. Shapes' /\ Apart' /\ HandlesOpen'
  <2>1. Shapes'
    BY <1>1 DEF ListInv, Shapes, Settled
  <2>2. Apart' /\ HandlesOpen'
    BY <1>1 DEF ListInv, Apart, HandlesOpen, Used, NoHandle
  <2> QED BY <2>1, <2>2
<1>3. ASSUME NEW d \in Client PROVE (Handles(d) /\ Listing(d) /\ Completed(d))'
  <2>1. Handles(d)'
    BY <1>1 DEF ListInv, Handles, NoHandle
  <2>2. CASE d = c
    <3>1. dir'[d] = NoHandle /\ ~complete'[d].set
      BY <1>1, <2>2 DEF Settled, Ready, ListInv, Shapes, Nowhere
    <3> QED BY <2>1, <3>1 DEF Listing, Completed, NoHandle
  <2>3. CASE d # c
    <3>1. shown'[d] = shown[d] /\ complete'[d] = complete[d]
      BY <2>3 DEF Settled, ListInv, Shapes
    <3> QED BY <1>1, <2>1, <3>1 DEF ListInv, Listing, Progress, IsVirtual, Completed, NoHandle
  <2> QED BY <2>2, <2>3
<1> QED BY <1>2, <1>3 DEF ListInv

LEMMA UnchangedKeeps ==
  ASSUME ListInv, UNCHANGED <<listings>>, sessions \subseteq sessions'
  PROVE  ListInv'
<1>1. io' = io /\ dir' = dir /\ shown' = shown /\ complete' = complete
  BY DEF listings
<1>2. Shapes' /\ Apart' /\ HandlesOpen'
  BY <1>1 DEF ListInv, Shapes, Apart, HandlesOpen, Used, NoHandle
<1>3. ASSUME NEW d \in Client PROVE (Handles(d) /\ Listing(d) /\ Completed(d))'
  BY <1>1 DEF ListInv, Handles, Listing, Progress, IsVirtual, Completed, NoHandle
<1> QED BY <1>2, <1>3 DEF ListInv

(* A new handle is at an address nobody has. *)
LEMMA OpenKeeps ==
  ASSUME ListInv, NEW c \in Client, Ready(c), NEW path, NEW isDirectory \in BOOLEAN,
         NEW opened \in opendir(io, path, isDirectory), Listed(c, path, opened)
  PROVE  ListInv'
<1> DEFINE a == opened.handle
<1>1. /\ a \in Handle \ Used(io)
      /\ \/ io' = [io EXCEPT !.real = @ \cup {a}]
         \/ io' = [io EXCEPT !.virtual[a] = Virtual(io.table[path])] /\ path \in DOMAIN io.table
  <2>0. io' = opened.io
    BY DEF Listed
  <2>1. CASE opened \in { [handle |-> b, io |-> [io EXCEPT !.real = @ \cup {b}]]
                          : b \in IF isDirectory THEN Handle \ Used(io) ELSE {} }
    BY <2>0, <2>1
  <2>2. CASE opened \in { [handle |-> b, io |-> [io EXCEPT !.virtual[b] = Virtual(io.table[path])]]
                          : b \in IF path \in DOMAIN io.table THEN Handle \ Used(io) ELSE {} }
    BY <2>0, <2>2
  <2> QED BY <2>1, <2>2 DEF opendir
<1> HIDE DEF a
<1>2. io \in States /\ io.real \subseteq Handle
  BY DEF ListInv, Shapes, States
<1>3. io.virtual[a] = None /\ a \notin io.real
  BY <1>1 DEF Used
<1>4. /\ dir' = [dir EXCEPT ![c] = [handle |-> a, path |-> path]]
      /\ shown' = [shown EXCEPT ![c] = <<>>] /\ complete' = [complete EXCEPT ![c] = Nowhere]
      /\ sessions' = sessions
  BY DEF Listed, a
<1>5. /\ dir'[c] = [handle |-> a, path |-> path] /\ dir'[c] # NoHandle /\ dir'[c].handle = a
      /\ dir'[c].path = path /\ shown'[c] = <<>> /\ ~complete'[c].set
      /\ \A d \in Client \ {c} : /\ dir'[d] = dir[d] /\ shown'[d] = shown[d]
                                 /\ complete'[d] = complete[d]
  BY <1>1, <1>4, NoneAssumption DEF ListInv, Shapes, NoHandle, Nowhere
<1>6. ASSUME NEW d \in Client \ {c} PROVE dir[d].handle # a
  BY <1>1, <1>6, NoneAssumption DEF ListInv, HandlesOpen, Used, Handles, NoHandle
<1>7. /\ io'.table = io.table /\ io'.dangling = io.dangling
      /\ \A b \in Handle \ {a} : io'.virtual[b] = io.virtual[b] /\ (b \in io'.real <=> b \in io.real)
      /\ io' \in States
      /\ Used(io') = Used(io) \cup {a}
      /\ io'.virtual[a] = None <=> a \in io'.real
  <2>1. CASE io' = [io EXCEPT !.real = @ \cup {a}]
    BY <2>1, <1>1, <1>2, <1>3 DEF States, Used
  <2>2. CASE io' = [io EXCEPT !.virtual[a] = Virtual(io.table[path])] /\ path \in DOMAIN io.table
    <3>1. Virtual(io.table[path]) \in VirtualDirectory
      BY <1>2, <2>2, TableNames, VirtualNames DEF States
    <3> QED BY <3>1, <2>2, <1>1, <1>2, <1>3, NoneAssumption DEF States, Used
  <2> QED BY <1>1, <2>1, <2>2
<1>8. Shapes'
  BY <1>4, <1>7 DEF ListInv, Shapes
<1>9. Apart'
  BY <1>1, <1>2, <1>7 DEF ListInv, Apart, States
<1>10. HandlesOpen'
  <2>1. { d \in Client : dir'[d] # NoHandle } = { d \in Client : dir[d] # NoHandle } \cup {c}
    BY <1>5
  <2>2. dir[c] = NoHandle
    BY DEF Ready
  <2>3. Used(io') = { dir'[d].handle : d \in { e \in Client : dir'[e] # NoHandle } }
    BY <1>5, <1>7, <2>1, <2>2 DEF ListInv, HandlesOpen
  <2>4. \A d, e \in Client : dir'[d].handle = dir'[e].handle => d = e \/ dir'[d] = NoHandle
    BY <1>5, <1>6 DEF ListInv, HandlesOpen
  <2> QED BY <1>7, <2>3, <2>4 DEF ListInv, HandlesOpen, NoHandle
<1>11. ASSUME NEW d \in Client PROVE (Handles(d) /\ Listing(d) /\ Completed(d))'
  <2>1. CASE d = c
    <3>1. Handles(d)' /\ Completed(d)'
      <4>1. a \in Handle /\ a # None
        BY <1>1, NoneAssumption
      <4>2. c \in sessions'
        BY <1>4 DEF Ready
      <4>3. Handles(c)'
        BY <4>1, <4>2, <1>5 DEF Handles
      <4>4. Completed(c)'
        BY <1>5 DEF Completed
      <4> QED BY <4>3, <4>4, <2>1
    <3>2. ASSUME io'.virtual[a] # None
          PROVE  path \in DOMAIN io'.table /\ Progress(c, io.table[path])'
      <4>1. io' = [io EXCEPT !.virtual[a] = Virtual(io.table[path])] /\ path \in DOMAIN io.table
        BY <1>1, <1>2, <1>3, <3>2 DEF States
      <4>2. io'.virtual[a] = Virtual(io.table[path]) /\ io.table[path] \in Seq(Name)
        BY <4>1, <1>1, <1>2, TableNames DEF States
      <4>3. Virtual(io.table[path]).next = 1 /\ Len(io.table[path]) \in Nat
        BY <4>2, VirtualNames, LenProperties
      <4>4. SubSeq(Virtual(io.table[path]).names, 3, 1 - 1) = <<>>
        BY SubSeqEmpty
      <4> QED BY <1>5, <1>7, <4>1, <4>2, <4>3, <4>4 DEF Progress
    <3> QED BY <1>5, <1>7, <2>1, <3>1, <3>2 DEF Listing, IsVirtual, Progress, NoHandle
  <2>2. CASE d # c
    <3>1. Handles(d)' /\ Completed(d)'
      BY <1>4, <1>5, <1>7, <2>2 DEF ListInv, Handles, Completed, NoHandle
    <3>2. dir[d] # NoHandle => dir[d].handle \in Handle \ {a}
      BY <1>6, <2>2, SMTT(60) DEF ListInv, Handles
    <3>3. Listing(d)'
      <4>1. dir'[d] = dir[d] /\ shown'[d] = shown[d] /\ Listing(d)
        BY <1>5, <2>2 DEF ListInv
      <4>2. dir[d] # NoHandle => io'.virtual[dir[d].handle] = io.virtual[dir[d].handle]
        BY <1>7, <3>2
      <4> QED BY <4>1, <4>2, <1>7 DEF Listing, Progress, IsVirtual, NoHandle
    <3> QED BY <3>1, <3>3
  <2> QED BY <2>1, <2>2
<1> QED BY <1>8, <1>9, <1>10, <1>11 DEF ListInv

(* The session whose directory is closed has no other, and no one else has it. *)
LEMMA CloseKeeps ==
  ASSUME ListInv, NEW c \in Client, dir[c] # NoHandle, NEW all, CloseDir(c, all),
         shown'[c] = shown[c] \/ ~all.set,
         shown' = [d \in Client |-> shown'[d]], \A d \in Client \ {c} : shown'[d] = shown[d],
         c \in sessions' \/ ~all.set, \A d \in Client \ {c} : d \in sessions' <=> d \in sessions,
         all.set => all.path \in DOMAIN io.table /\ shown[c] = io.table[all.path]
  PROVE  ListInv'
<1> DEFINE a == dir[c].handle
<1>1. a \in Used(io) /\ a \in Handle /\ a # None
  BY NoneAssumption DEF ListInv, HandlesOpen, Handles
<1>2. io \in States /\ io.real \subseteq Handle
  BY DEF ListInv, Shapes, States
<1>3. io' = closedir(io, a)
  BY DEF CloseDir
<1>4. /\ dir' = [dir EXCEPT ![c] = NoHandle]
      /\ complete' = [complete EXCEPT ![c] = all]
  BY DEF CloseDir
<1>5. /\ dir'[c] = NoHandle /\ complete'[c] = all
      /\ \A d \in Client \ {c} : dir'[d] = dir[d] /\ complete'[d] = complete[d]
  BY <1>4 DEF ListInv, Shapes
<1>6. ASSUME NEW d \in Client \ {c} PROVE dir[d].handle # a
  BY <1>6, NoneAssumption DEF ListInv, HandlesOpen
<1> HIDE DEF a
<1>7. /\ io'.table = io.table /\ io'.dangling = io.dangling
      /\ \A b \in Handle \ {a} : io'.virtual[b] = io.virtual[b] /\ (b \in io'.real <=> b \in io.real)
      /\ io' \in States
      /\ io'.virtual[a] = None /\ a \notin io'.real
  <2>1. CASE io.virtual[a] # None
    <3>1. io' = [io EXCEPT !.virtual[a] = None]
      BY <1>3, <2>1 DEF closedir
    <3>2. a \notin io.real
      BY <2>1 DEF ListInv, Apart
    <3> QED BY <3>1, <3>2, <1>1, <1>2 DEF States
  <2>2. CASE io.virtual[a] = None
    <3>1. a \in io.real
      BY <1>1, <2>2 DEF Used
    <3>2. io' = [io EXCEPT !.real = @ \ {a}]
      BY <1>3, <2>2, <3>1 DEF closedir
    <3> QED BY <3>2, <2>2, <1>1, <1>2 DEF States
  <2> QED BY <2>1, <2>2
<1>8. Shapes'
  BY <1>4, <1>7 DEF ListInv, Shapes
<1>9. Apart'
  BY <1>1, <1>2, <1>7 DEF ListInv, Apart, States
<1>10. HandlesOpen'
  <2>1. { d \in Client : dir'[d] # NoHandle } = { d \in Client : dir[d] # NoHandle } \ {c}
    BY <1>5
  <2>2. Used(io') = Used(io) \ {a}
    BY <1>1, <1>2, <1>7 DEF Used, States
  <2>3. Used(io') = { dir'[d].handle : d \in { e \in Client : dir'[e] # NoHandle } }
    BY <1>5, <1>6, <2>1, <2>2 DEF ListInv, HandlesOpen, a
  <2>4. \A d, e \in Client : dir'[d].handle = dir'[e].handle => d = e \/ dir'[d] = NoHandle
    <3>1. \A d \in Client : dir'[d].handle = None => dir'[d] = NoHandle
      BY <1>5 DEF ListInv, Handles
    <3>2. NoHandle.handle = None
      BY DEF NoHandle
    <3> QED BY <1>5, <3>1, <3>2 DEF ListInv, HandlesOpen
  <2> QED BY <1>7, <2>3, <2>4 DEF ListInv, HandlesOpen, NoHandle
<1>11. ASSUME NEW d \in Client PROVE (Handles(d) /\ Listing(d) /\ Completed(d))'
  <2>1. CASE d = c
    BY <1>5, <1>7, <2>1 DEF Handles, Listing, Completed, NoHandle
  <2>2. CASE d # c
    <3>1. Handles(d)' /\ Completed(d)'
      BY <1>5, <1>7, <2>2 DEF ListInv, Handles, Completed, NoHandle
    <3>2. dir[d] # NoHandle => dir[d].handle \in Handle \ {a}
      BY <1>6, <2>2, SMTT(60) DEF ListInv, Handles
    <3>3. Listing(d)'
      <4>1. dir'[d] = dir[d] /\ shown'[d] = shown[d] /\ Listing(d)
        BY <1>5, <2>2 DEF ListInv
      <4>2. dir[d] # NoHandle => io'.virtual[dir[d].handle] = io.virtual[dir[d].handle]
        BY <1>7, <3>2
      <4> QED BY <4>1, <4>2, <1>7 DEF Listing, Progress, IsVirtual, NoHandle
    <3> QED BY <3>1, <3>3
  <2> QED BY <2>1, <2>2
<1> QED BY <1>8, <1>9, <1>10, <1>11 DEF ListInv

(* One entry: at most one more name is shown.                               *)
LEMMA EntryKeeps ==
  ASSUME ListInv, NEW c \in Client, listEntry(c), UNCHANGED sessions
  PROVE  ListInv'
<1> DEFINE a == dir[c].handle
           n == io.virtual[a].next
           names == io.virtual[a].names
<1>1. a \in Handle /\ a # None /\ dir[c] # NoHandle /\ io.virtual[a] # None /\ io \in States
  BY DEF ListInv, Shapes, Handles, listEntry, Sending, IsVirtual
<1>2. io.virtual[a] \in VirtualDirectory
  BY <1>1 DEF States
<1>3. /\ dir[c].path \in DOMAIN io.table
      /\ Progress(c, io.table[dir[c].path])
  BY <1>1 DEF ListInv, Listing, IsVirtual
<1> DEFINE s == io.table[dir[c].path]
<1>4. s \in Seq(Name)
  BY <1>1, <1>3, TableNames, SMTT(60) DEF States
<1>5. /\ names = Virtual(s).names /\ n \in 1..Len(s) + 2 /\ shown[c] = SubSeq(names, 3, n - 1)
      /\ Len(s) \in Nat
  <2>1. /\ names = Virtual(s).names /\ n \in 1..Len(s) + 3 /\ shown[c] = SubSeq(names, 3, n - 1)
    BY <1>3 DEF Progress
  <2>2. n <= Len(names)
    BY SMTT(60) DEF listEntry, MoreToRead
  <2>3. Len(names) = Len(s) + 2 /\ Len(s) \in Nat
    BY <1>4, <2>1, VirtualNames, LenProperties
  <2> QED BY <2>1, <2>2, <2>3, SMTT(60)
<1>6. io' = [io EXCEPT !.virtual[a].next = @ + 1]
  BY DEF listEntry, readdir
<1>7. /\ io' \in States /\ io'.table = io.table /\ io'.real = io.real /\ io'.dangling = io.dangling
      /\ io'.virtual[a] \in VirtualDirectory
      /\ io'.virtual[a].names = names /\ io'.virtual[a].next = n + 1
      /\ \A b \in Handle \ {a} : io'.virtual[b] = io.virtual[b]
  <2>1. [io.virtual[a] EXCEPT !.next = @ + 1] \in VirtualDirectory
    BY <1>2 DEF VirtualDirectory
  <2> QED BY <1>1, <1>2, <1>6, <2>1 DEF States, VirtualDirectory
<1> HIDE DEF a, n, names, s
<1>8. /\ dir' = dir /\ complete' = complete
      /\ shown' = [shown EXCEPT ![c] = SubSeq(names, 3, n)]
  <2>1. shown' = [shown EXCEPT ![c] = IF names[n] \in Dots THEN @ ELSE Append(@, names[n])]
    BY DEF listEntry, Entry, a, n, names
  <2>2. (IF names[n] \in Dots THEN shown[c] ELSE Append(shown[c], names[n])) = SubSeq(names, 3, n)
    BY <1>4, <1>5, OneMore
  <2> QED BY <2>1, <2>2 DEF listEntry, ListInv, Shapes
<1>9. ASSUME NEW d \in Client \ {c} PROVE dir[d].handle # a
  BY <1>1, NoneAssumption DEF ListInv, HandlesOpen, Handles, a, NoHandle
<1>10. /\ shown'[c] = SubSeq(names, 3, n)
       /\ \A d \in Client \ {c} : shown'[d] = shown[d]
  BY <1>8 DEF ListInv, Shapes
<1>11. Shapes'
  BY <1>7, <1>8 DEF ListInv, Shapes
<1>12. Apart' /\ HandlesOpen'
  <2>1. \A b \in Handle : io'.virtual[b] = None <=> io.virtual[b] = None
    BY <1>1, <1>7, NoneAssumption DEF a
  <2>2. Used(io') = Used(io)
    BY <2>1, <1>7 DEF Used
  <2>3. HandlesOpen'
    BY <2>2, <1>7, <1>8 DEF ListInv, HandlesOpen, NoHandle
  <2>4. Apart'
    BY <2>1, <1>1, <1>7 DEF ListInv, Apart, States
  <2> QED BY <2>3, <2>4
<1>13. ASSUME NEW d \in Client PROVE (Handles(d) /\ Listing(d) /\ Completed(d))'
  <2>1. Handles(d)'
    BY <1>8 DEF ListInv, Handles, NoHandle
  <2>2. CASE d = c
    <3>1. Progress(c, s)'
      <4>1. n + 1 \in 1..Len(s) + 3 /\ (n + 1) - 1 = n
        BY <1>5
      <4>2. /\ io'.virtual[dir'[c].handle].names = Virtual(s).names
            /\ io'.virtual[dir'[c].handle].next = n + 1
        BY <1>5, <1>7, <1>8 DEF a
      <4>3. shown'[c] = SubSeq(Virtual(s).names, 3, n)
        BY <1>5, <1>10
      <4>4. s' = s
        BY <1>7, <1>8 DEF s
      <4> QED BY <4>1, <4>2, <4>3, <4>4 DEF Progress
    <3>2. Listing(d)'
      BY <1>3, <1>7, <1>8, <2>2, <3>1 DEF Listing, s
    <3>3. ~complete[c].set
      BY <1>1 DEF ListInv, Completed
    <3>4. Completed(d)'
      BY <1>8, <2>2, <3>3 DEF Completed
    <3> QED BY <2>1, <3>2, <3>4
  <2>3. CASE d # c
    <3>1. Completed(d)'
      BY <1>7, <1>8, <1>10, <2>3 DEF ListInv, Completed
    <3>2. dir[d] # NoHandle => dir[d].handle \in Handle \ {a}
      BY <1>9, <2>3, NoneAssumption, SMTT(60) DEF ListInv, Handles
    <3>3. Listing(d)'
      <4>1. dir'[d] = dir[d] /\ shown'[d] = shown[d] /\ Listing(d)
        BY <1>8, <1>10, <2>3 DEF ListInv
      <4>2. dir[d] # NoHandle => io'.virtual[dir[d].handle] = io.virtual[dir[d].handle]
        BY <1>7, <3>2
      <4> QED BY <4>1, <4>2, <1>7 DEF Listing, Progress, IsVirtual, NoHandle
    <3> QED BY <2>1, <3>1, <3>3
  <2> QED BY <2>2, <2>3
<1> QED BY <1>11, <1>12, <1>13 DEF ListInv

(* The end: what was shown is all of it.                                    *)
LEMMA EndKeeps ==
  ASSUME ListInv, NEW c \in Client, listEnd(c), UNCHANGED sessions
  PROVE  ListInv'
<1> DEFINE a == dir[c].handle
           all == IF IsVirtual(c) THEN At(dir[c].path) ELSE Nowhere
<1>1. dir[c] # NoHandle /\ CloseDir(c, all) /\ shown' = shown /\ c \in sessions'
  BY DEF listEnd, Sending
<1>2. all.set => all.path \in DOMAIN io.table /\ shown[c] = io.table[all.path]
  <2>1. CASE IsVirtual(c)
    <3> DEFINE s == io.table[dir[c].path]
    <3>1. /\ dir[c].path \in DOMAIN io.table
          /\ Progress(c, s)
      BY <1>1, <2>1 DEF ListInv, Listing
    <3>2. s \in Seq(Name)
      BY <3>1, TableNames, SMTT(60) DEF ListInv, Shapes, States
    <3>3. /\ io.virtual[a].names = Virtual(s).names /\ io.virtual[a].next \in 1..Len(s) + 3
          /\ shown[c] = SubSeq(Virtual(s).names, 3, io.virtual[a].next - 1)
      BY <3>1 DEF Progress
    <3>4. ~(io.virtual[a].next <= Len(io.virtual[a].names))
      BY <2>1 DEF listEnd, MoreToRead
    <3>5. Len(Virtual(s).names) = Len(s) + 2 /\ Len(s) \in Nat
      BY <3>2, VirtualNames, LenProperties
    <3> HIDE DEF s
    <3>6. io.virtual[a].next - 1 = Len(s) + 2
      BY <3>3, <3>4, <3>5
    <3>7. shown[c] = s
      BY <3>2, <3>3, <3>6, AllOfThem
    <3>8. all = [path |-> dir[c].path, set |-> TRUE]
      BY <2>1 DEF At
    <3> QED BY <3>1, <3>7, <3>8 DEF s
  <2>2. CASE ~IsVirtual(c)
    BY <2>2 DEF Nowhere
  <2> QED BY <2>1, <2>2
<1> HIDE DEF all
<1>3. shown' = [d \in Client |-> shown'[d]]
  BY <1>1 DEF ListInv, Shapes
<1> QED BY <1>1, <1>2, <1>3, CloseKeeps

(* A listing that is given up, and a session that is destroyed.             *)
LEMMA FailsKeeps ==
  ASSUME ListInv, NEW c \in Client, listFails(c), UNCHANGED sessions
  PROVE  ListInv'
<1>1. dir[c] # NoHandle /\ CloseDir(c, Nowhere) /\ shown' = shown
  BY DEF listFails, Sending
<1>2. shown' = [d \in Client |-> shown'[d]] /\ ~Nowhere.set
  BY <1>1 DEF ListInv, Shapes, Nowhere
<1> QED BY <1>1, <1>2, CloseKeeps

LEMMA DestroyKeeps ==
  ASSUME ListInv, NEW c \in Client, Destroy(c)
  PROVE  ListInv'
<1>1. /\ \A d \in Client \ {c} : (d \in sessions' <=> d \in sessions) /\ shown'[d] = shown[d]
      /\ shown' = [d \in Client |-> shown'[d]] /\ shown'[c] = <<>>
      /\ ~Nowhere.set
  BY DEF Destroy, ListInv, Shapes, Nowhere
<1>2. CASE dir[c] # NoHandle
  <2>1. CloseDir(c, Nowhere)
    BY <1>2 DEF Destroy
  <2> QED BY <1>1, <1>2, <2>1, CloseKeeps
<1>3. CASE dir[c] = NoHandle
  <2>1. io' = io /\ dir' = dir /\ complete' = [complete EXCEPT ![c] = Nowhere]
    BY <1>3 DEF Destroy
  <2>2. Shapes' /\ Apart' /\ HandlesOpen'
    <3>1. complete' = [d \in Client |-> complete'[d]]
      BY <2>1 DEF ListInv, Shapes
    <3>2. Shapes'
      BY <1>1, <2>1, <3>1 DEF ListInv, Shapes
    <3>3. Apart' /\ HandlesOpen'
      BY <2>1 DEF ListInv, Apart, HandlesOpen, Used, NoHandle
    <3> QED BY <3>2, <3>3
  <2>3. ASSUME NEW d \in Client PROVE (Handles(d) /\ Listing(d) /\ Completed(d))'
    <3>1. CASE d = c
      <4>1. dir'[c] = NoHandle /\ ~complete'[c].set
        BY <1>3, <2>1 DEF ListInv, Shapes, Nowhere
      <4> QED BY <3>1, <4>1 DEF Handles, Listing, Completed, NoHandle
    <3>2. CASE d # c
      <4>1. /\ shown'[d] = shown[d] /\ complete'[d] = complete[d] /\ dir'[d] = dir[d]
            /\ d \in sessions' <=> d \in sessions
        BY <1>1, <2>1, <3>2 DEF ListInv, Shapes
      <4> QED BY <2>1, <4>1 DEF ListInv, Handles, Listing, Progress, IsVirtual, Completed, NoHandle
    <3> QED BY <3>1, <3>2
  <2> QED BY <2>2, <2>3 DEF ListInv
<1> QED BY <1>2, <1>3

(* Nobody lists when the table is filled again.                             *)
LEMMA RestartKeeps ==
  ASSUME ListInv, NEW t \in Tables, Restart(t)
  PROVE  ListInv'
<1>1. /\ io' = [io EXCEPT !.virtual = NoHandles, !.table = t]
      /\ dir' = dir /\ shown' = shown /\ complete' = complete /\ sessions' = {}
  BY DEF Restart, clear
<1>2. \A c \in Client : dir[c] = NoHandle /\ ~complete[c].set
  BY DEF ListInv, Handles, Completed, Restart
<1>3. Used(io) = {}
  BY <1>2 DEF ListInv, HandlesOpen
<1>4. /\ io'.virtual = NoHandles /\ io'.real = io.real /\ io'.dangling = io.dangling
      /\ io' \in States
  BY <1>1 DEF ListInv, Shapes, States, NoHandles
<1>5. io.real = {}
  BY <1>3 DEF Used
<1>6. Used(io') = {}
  BY <1>4, <1>5 DEF Used, NoHandles
<1>7. Shapes' /\ Apart'
  BY <1>1, <1>4, <1>5 DEF ListInv, Shapes, Apart
<1>8. HandlesOpen'
  BY <1>1, <1>2, <1>4, <1>6 DEF ListInv, HandlesOpen, NoHandle
<1>9. \A c \in Client : (Handles(c) /\ Listing(c) /\ Completed(c))'
  BY <1>1, <1>2 DEF Handles, Listing, Completed, NoHandle
<1> QED BY <1>7, <1>8, <1>9 DEF ListInv

-----------------------------------------------------------------------------
(* Every step.                                                              *)

LEMMA CommandKeeps ==
  ASSUME ListInv, NEW c \in Client, Command(c)
  PROVE  ListInv'
<1>1. CASE Ready(c) /\ Settled(c)
  BY <1>1, SettledKeeps
<1>2. ASSUME NEW args \in Args, xferDir(c, args) PROVE ListInv'
  <2>1. PICK r : \E opened \in opendir(io, r.path, OnDevice(r.path) = "dir") :
                   Listed(c, r.path, opened)
    BY <1>2 DEF xferDir
  <2>2. Ready(c) /\ (OnDevice(r.path) = "dir") \in BOOLEAN
    BY <1>2 DEF xferDir
  <2> QED BY <2>1, <2>2, OpenKeeps
<1>3. \/ Ready(c) /\ Settled(c)
      \/ \E args \in Args : xferDir(c, args)
  BY DEF Command, CDUP, RNTOFails, RenameOver, Other, CWD, MKD, RMD, DELE, STOR, RNFR, RNTO
<1> QED BY <1>1, <1>2, <1>3

LEMMA NextKeeps == ListInv /\ [Next]_vars => ListInv'
<1> SUFFICES ASSUME ListInv, [Next]_vars PROVE ListInv'
  OBVIOUS
<1>1. ASSUME NEW c \in Client, Connect(c) PROVE ListInv'
  <2>1. sessions \subseteq sessions' /\ UNCHANGED <<listings>>
    BY <1>1 DEF Connect
  <2> QED BY <2>1, UnchangedKeeps
<1>2. ASSUME NEW c \in Client, Command(c) PROVE ListInv'
  BY <1>2, CommandKeeps
<1>3. ASSUME NEW c \in Client, listTransfer(c) PROVE ListInv'
  BY <1>3, EntryKeeps, EndKeeps, FailsKeeps DEF listTransfer
<1>4. ASSUME NEW c \in Client, Destroy(c) PROVE ListInv'
  BY <1>4, DestroyKeeps
<1>5. ASSUME NEW t \in Tables, Restart(t) PROVE ListInv'
  BY <1>5, RestartKeeps
<1>6. CASE UNCHANGED vars
  <2>1. sessions \subseteq sessions' /\ UNCHANGED <<listings>>
    BY <1>6 DEF vars
  <2> QED BY <2>1, UnchangedKeeps
<1> QED BY <1>1, <1>2, <1>3, <1>4, <1>5, <1>6 DEF Next

LEMMA ListInvHolds == Spec => []ListInv
BY InitHolds, NextKeeps, PTL DEF Spec

(* Whatever sessions open, list, give up and leave behind, and however often *)
(* the server is stopped: opendir and closedir pair up, and nobody's handle  *)
(* is anybody else's.                                                        *)
THEOREM HandlesKept == Spec => []HandlesOpen
<1>1. ListInv => HandlesOpen
  BY DEF ListInv
<1> QED BY <1>1, ListInvHolds, PTL

(* A virtual directory is listed name by name to the end, whoever lists it   *)
(* at the same time.                                                         *)
THEOREM WholeListings == Spec => []ListedWhole
<1>1. ListInv => ListedWhole
  <2> SUFFICES ASSUME ListInv, NEW c \in Client
               PROVE  /\ Sending(c) /\ IsVirtual(c) =>
                           LET open == io.virtual[dir[c].handle]
                           IN  /\ open.names = Virtual(io.table[dir[c].path]).names
                               /\ shown[c] = SubSeq(open.names, 3, open.next - 1)
                      /\ complete[c].set => shown[c] = io.table[complete[c].path]
    BY DEF ListedWhole
  <2> QED BY DEF ListInv, Listing, Completed, Progress, Sending
<1> QED BY <1>1, ListInvHolds, PTL

-----------------------------------------------------------------------------
(* Loops over the characters of an argument.  The induction is over a set.  *)

LEMMA NaturalsUpwards ==
  ASSUME NEW T, 0 \in T, \A n \in Nat : n \in T => n + 1 \in T
  PROVE  Nat \subseteq T
<1> DEFINE U == { n \in Nat : n \notin T }
<1> SUFFICES ASSUME U # {} PROVE FALSE
  OBVIOUS
<1>1. IsWellFoundedOn(OpToRel(<, Nat), Nat)
  BY NatLessThanWellFounded
<1>2. PICK x \in U : \A y \in U : <<y, x>> \notin OpToRel(<, Nat)
  BY <1>1, WFMin, Zenon
<1>3. \A y \in U : ~(y < x)
  BY <1>2 DEF OpToRel
<1>4. x # 0 /\ x \in Nat /\ x - 1 \in Nat /\ x - 1 < x
  BY <1>3
<1>5. x - 1 \in T
  BY <1>3, <1>4
<1>6. (x - 1) + 1 \in T
  BY <1>4, <1>5
<1> QED BY <1>4, <1>6

(* A loop that starts from c, and whose turn i makes step[i][r] of r, and its run. *)
IsLoop(c, step, N, S) == c \in S /\ step \in [1..N -> [S -> S]]
IsRun(g, c, step, N)  == g[0] = c /\ \A i \in 1..N : g[i] = step[i][g[i - 1]]

LEMMA LoopRuns ==
  ASSUME NEW N \in Nat, NEW S, NEW c, NEW step, IsLoop(c, step, N, S)
  PROVE  \E g \in [0..N -> S] : IsRun(g, c, step, N)
<1> USE DEF IsLoop
<1> DEFINE Good(g, n) == g \in [0..N -> S] /\ g[0] = c
                           /\ \A i \in 1..n : g[i] = step[i][g[i - 1]]
           T == { n \in Nat : n <= N => \E g \in [0..N -> S] : Good(g, n) }
<1>1. 0 \in T
  <2>1. Good([i \in 0..N |-> c], 0)
    OBVIOUS
  <2> QED BY <2>1
<1>2. ASSUME NEW n \in Nat, n \in T PROVE n + 1 \in T
  <2> SUFFICES ASSUME n + 1 <= N PROVE \E g \in [0..N -> S] : Good(g, n + 1)
    OBVIOUS
  <2>1. PICK g \in [0..N -> S] : Good(g, n)
    BY <1>2
  <2> DEFINE h == [g EXCEPT ![n + 1] = step[n + 1][g[n]]]
  <2>2. n + 1 \in 1..N /\ step[n + 1] \in [S -> S] /\ step[n + 1][g[n]] \in S
    OBVIOUS
  <2>3. h \in [0..N -> S]
    BY <2>2
  <2>4. h[0] = c /\ h[n + 1] = step[n + 1][g[n]] /\ \A i \in 0..n : h[i] = g[i]
    BY <2>1, <2>2
  <2> HIDE DEF h
  <2>5. ASSUME NEW i \in 1..n + 1 PROVE h[i] = step[i][h[i - 1]]
    <3>1. CASE i = n + 1
      <4>1. i - 1 = n /\ h[n] = g[n]
        BY <2>4, <3>1
      <4> QED BY <2>4, <3>1, <4>1
    <3>2. CASE i \in 1..n
      BY <2>1, <2>4, <3>2
    <3> QED BY <3>1, <3>2
  <2> QED BY <2>3, <2>4, <2>5
<1>3. N \in T
  <2> HIDE DEF T
  <2> QED BY <1>1, <1>2, NaturalsUpwards
<1> QED BY <1>3 DEF IsRun

(* What holds before a loop and is kept by each turn holds throughout. *)
IsKept(S, f, N) == f[0] \in S /\ \A i \in 1..N : f[i - 1] \in S => f[i] \in S

LEMMA LoopKeeps ==
  ASSUME NEW N \in Nat, NEW S, NEW f, IsKept(S, f, N)
  PROVE  \A i \in 0..N : f[i] \in S
<1> USE DEF IsKept
<1> DEFINE T == { n \in Nat : n <= N => f[n] \in S }
<1>1. 0 \in T
  OBVIOUS
<1>2. ASSUME NEW n \in Nat, n \in T PROVE n + 1 \in T
  <2>1. n + 1 <= N => (n + 1) - 1 = n /\ n + 1 \in 1..N /\ n <= N
    OBVIOUS
  <2> QED BY <1>2, <2>1
<1>3. Nat \subseteq T
  <2> HIDE DEF T
  <2> QED BY <1>1, <1>2, NaturalsUpwards
<1> QED BY <1>3


-----------------------------------------------------------------------------
(* Paths.                                                                   *)

(* What Collapsed keeps of the components before, with the next. *)
Turned(r, x) == CASE x = "."  -> r
                  [] x = ".." -> IF r = <<>> THEN <<>> ELSE parent(r)
                  [] OTHER    -> Append(r, x)

LEMMA TurnedCases ==
  ASSUME NEW r, NEW x
  PROVE  /\ x = "." => Turned(r, x) = r
         /\ x = ".." => Turned(r, x) = IF r = <<>> THEN <<>> ELSE parent(r)
         /\ x \notin Dots => Turned(r, x) = Append(r, x)
<1>1. "." # ".." /\ Dots = {".", ".."}
  BY DEF Dots
<1> QED BY <1>1, Zenon DEF Turned

LEMMA TurnedPath ==
  ASSUME NEW r \in Seq(Name), NEW x \in Name \cup Dots
  PROVE  Turned(r, x) \in Seq(Name)
<1>1. parent(r) \in Seq(Name) /\ <<>> \in Seq(Name)
  BY DEF parent
<1>2. CASE x \notin Dots
  BY <1>2, TurnedCases
<1>3. CASE x \in Dots
  BY <1>1, <1>3, TurnedCases DEF Dots
<1> QED BY <1>2, <1>3

(* The loop, component by component. *)
IsCollapse(u, parts) ==
  /\ u[0] = <<>> /\ \A i \in 1..Len(parts) : u[i] = Turned(u[i - 1], parts[i])
  /\ \A i \in 0..Len(parts) : u[i] \in Seq(Name)

LEMMA CollapsedRuns ==
  ASSUME NEW parts \in Seq(Name \cup Dots)
  PROVE  \E u : IsCollapse(u, parts) /\ Collapsed(parts) = u[Len(parts)]
<1> DEFINE n == Len(parts)
           step == [i \in 1..n |-> [r \in Seq(Name) |-> Turned(r, parts[i])]]
<1>1. n \in Nat /\ \A i \in 1..n : parts[i] \in Name \cup Dots
  OBVIOUS
<1>2. step \in [1..n -> [Seq(Name) -> Seq(Name)]]
  BY <1>1, TurnedPath
<1>3. \A r \in Seq(Name), i \in 1..n : step[i][r] = Turned(r, parts[i])
  OBVIOUS
<1> HIDE DEF step
<1>4. PICK g \in [0..n -> Seq(Name)] : IsRun(g, <<>>, step, n)
  <2>1. <<>> \in Seq(Name)
    OBVIOUS
  <2>2. IsLoop(<<>>, step, n, Seq(Name)) /\ n \in Nat
    BY <1>1, <1>2, <2>1 DEF IsLoop
  <2> HIDE DEF n
  <2> QED BY <2>2, LoopRuns
<1> HIDE DEF n
<1>5. ASSUME NEW i \in 1..n PROVE g[i] = Turned(g[i - 1], parts[i])
  <2>1. g[i - 1] \in Seq(Name)
    BY <1>1, <1>4
  <2> QED BY <1>3, <1>4, <2>1 DEF IsRun
<1> DEFINE u == CHOOSE f : f = [i \in 0..n |-> IF i = 0 THEN <<>> ELSE Turned(f[i - 1], parts[i])]
<1>6. g = [i \in 0..n |-> IF i = 0 THEN <<>> ELSE Turned(g[i - 1], parts[i])]
  BY <1>1, <1>4, <1>5 DEF IsRun
<1>7. u = [i \in 0..n |-> IF i = 0 THEN <<>> ELSE Turned(u[i - 1], parts[i])]
  BY <1>6
<1>8. Collapsed(parts) = u[n]
  BY Zenon DEF Collapsed, Turned, n
<1> HIDE DEF u
<1>9. u[0] = <<>> /\ \A i \in 1..n : u[i] = Turned(u[i - 1], parts[i])
  BY <1>1, <1>7
<1>10. \A i \in 0..n : u[i] \in Seq(Name)
  <2>1. \A i \in 1..n : u[i - 1] \in Seq(Name) => Turned(u[i - 1], parts[i]) \in Seq(Name)
    BY <1>1, TurnedPath
  <2>2. <<>> \in Seq(Name)
    OBVIOUS
  <2>3. IsKept(Seq(Name), u, n)
    BY <1>9, <2>1, <2>2, Zenon DEF IsKept
  <2> QED BY <1>1, <2>3, LoopKeeps
<1> QED BY <1>8, <1>9, <1>10 DEF n, IsCollapse

(* How far up the components lead: a name opens a directory, ".." leaves one. *)
Names(parts, i, j) == { k \in i + 1..j : parts[k] \notin Dots }
Ups(parts, i, j)   == { k \in i + 1..j : parts[k] = ".." }
Depth(x) == IF x = ".." THEN -1 ELSE IF x = "." THEN 0 ELSE 1

IsDepth(h, parts) == /\ h \in [0..Len(parts) -> Int]
                     /\ h[0] = 0 /\ \A i \in 1..Len(parts) : h[i] = h[i - 1] + Depth(parts[i])

LEMMA DepthRuns ==
  ASSUME NEW parts \in Seq(Name \cup Dots)
  PROVE  \E h : IsDepth(h, parts)
<1> DEFINE n == Len(parts)
           step == [i \in 1..n |-> [r \in Int |-> r + Depth(parts[i])]]
<1>1. n \in Nat /\ \A i \in 1..n : Depth(parts[i]) \in Int
  BY DEF Depth
<1>2. step \in [1..n -> [Int -> Int]] /\ \A r \in Int, i \in 1..n : step[i][r] = r + Depth(parts[i])
  BY <1>1
<1> HIDE DEF step
<1>3. PICK h \in [0..n -> Int] : IsRun(h, 0, step, n)
  <2>1. IsLoop(0, step, n, Int) /\ n \in Nat
    BY <1>1, <1>2 DEF IsLoop
  <2> HIDE DEF n
  <2> QED BY <2>1, LoopRuns
<1> HIDE DEF n
<1>4. ASSUME NEW i \in 1..n PROVE h[i] = h[i - 1] + Depth(parts[i])
  <2>1. h[i - 1] \in Int
    BY <1>1, <1>3
  <2> QED BY <1>2, <1>3, <2>1 DEF IsRun
<1> QED BY <1>3, <1>4 DEF IsRun, IsDepth, n

(* One more component: one more name, or one more "..", or neither. *)
LEMMA OneMoreCounted ==
  ASSUME NEW parts \in Seq(Name \cup Dots), NEW i \in Nat, NEW j \in Nat, i <= j
  PROVE  /\ IsFiniteSet(Names(parts, i, j)) /\ IsFiniteSet(Ups(parts, i, j))
         /\ Cardinality(Names(parts, i, j)) \in Nat /\ Cardinality(Ups(parts, i, j)) \in Nat
         /\ Cardinality(Names(parts, i, j + 1)) = IF parts[j + 1] \notin Dots
                                                 THEN Cardinality(Names(parts, i, j)) + 1
                                                 ELSE Cardinality(Names(parts, i, j))
         /\ Cardinality(Ups(parts, i, j + 1)) = IF parts[j + 1] = ".."
                                               THEN Cardinality(Ups(parts, i, j)) + 1
                                               ELSE Cardinality(Ups(parts, i, j))
<1>1. /\ IsFiniteSet(Names(parts, i, j)) /\ IsFiniteSet(Ups(parts, i, j))
      /\ j + 1 \notin Names(parts, i, j) /\ j + 1 \notin Ups(parts, i, j)
  <2>1. IsFiniteSet(i + 1..j)
    BY FS_Interval
  <2>2. Names(parts, i, j) \subseteq i + 1..j /\ Ups(parts, i, j) \subseteq i + 1..j
    BY DEF Names, Ups
  <2>3. j + 1 \notin i + 1..j
    OBVIOUS
  <2> QED BY <2>1, <2>2, <2>3, FS_Subset
<1>2. i + 1..j + 1 = (i + 1..j) \cup {j + 1}
  OBVIOUS
<1>3. Names(parts, i, j + 1) = Names(parts, i, j) \cup IF parts[j + 1] \notin Dots THEN {j + 1} ELSE {}
  BY <1>2 DEF Names
<1>4. Ups(parts, i, j + 1) = Ups(parts, i, j) \cup IF parts[j + 1] = ".." THEN {j + 1} ELSE {}
  BY <1>2 DEF Ups
<1>5. /\ Cardinality(Names(parts, i, j)) \in Nat
      /\ Cardinality(Names(parts, i, j) \cup {j + 1}) = Cardinality(Names(parts, i, j)) + 1
      /\ Names(parts, i, j) \cup {} = Names(parts, i, j)
  BY <1>1, FS_AddElement, FS_CardinalityType
<1>6. /\ Cardinality(Ups(parts, i, j)) \in Nat
      /\ Cardinality(Ups(parts, i, j) \cup {j + 1}) = Cardinality(Ups(parts, i, j)) + 1
      /\ Ups(parts, i, j) \cup {} = Ups(parts, i, j)
  BY <1>1, FS_AddElement, FS_CardinalityType
<1> HIDE DEF Names, Ups
<1>7. CASE parts[j + 1] \notin Dots
  BY <1>1, <1>3, <1>4, <1>5, <1>6, <1>7 DEF Dots
<1>8. CASE parts[j + 1] \in Dots
  BY <1>1, <1>3, <1>4, <1>5, <1>6, <1>8
<1> QED BY <1>7, <1>8

(* The names less the ".." of a stretch are what it leads deeper. *)
LEMMA DepthCounts ==
  ASSUME NEW parts \in Seq(Name \cup Dots), NEW h, IsDepth(h, parts),
         NEW i \in 0..Len(parts), NEW j \in i..Len(parts)
  PROVE  /\ Cardinality(Names(parts, i, j)) \in Nat /\ Cardinality(Ups(parts, i, j)) \in Nat
         /\ Cardinality(Names(parts, i, j)) - Cardinality(Ups(parts, i, j)) = h[j] - h[i]
<1> DEFINE n == Len(parts)
           Good(m) == /\ Cardinality(Names(parts, i, m)) \in Nat
                      /\ Cardinality(Ups(parts, i, m)) \in Nat
                      /\ Cardinality(Names(parts, i, m)) - Cardinality(Ups(parts, i, m)) = h[m] - h[i]
           T == { m \in Nat : m \in i..n => Good(m) }
<1>1. n \in Nat /\ h \in [0..n -> Int]
  BY DEF IsDepth
<1>2. Good(i)
  <2>1. Names(parts, i, i) = {} /\ Ups(parts, i, i) = {} /\ h[i] \in Int
    BY <1>1 DEF Names, Ups
  <2>2. Cardinality({}) = 0
    BY FS_EmptySet
  <2> QED BY <2>1, <2>2
<1>3. 0 \in T
  BY <1>2
<1>4. ASSUME NEW m \in Nat, m \in T PROVE m + 1 \in T
  <2> SUFFICES ASSUME m + 1 \in i..n PROVE Good(m + 1)
    OBVIOUS
  <2>1. CASE m + 1 = i
    BY <1>2, <2>1
  <2>2. CASE m + 1 # i
    <3> DEFINE N(k) == Cardinality(Names(parts, i, k))
               U(k) == Cardinality(Ups(parts, i, k))
               x == parts[m + 1]
    <3>1. m \in i..n /\ m + 1 \in 1..n /\ (m + 1) - 1 = m /\ i <= m /\ i \in Nat
      BY <1>1, <2>2
    <3>2. Good(m)
      BY <1>4, <3>1
    <3>3. h[m + 1] = h[m] + Depth(x) /\ h[m] \in Int /\ h[i] \in Int
      <4>1. h[m + 1] = h[(m + 1) - 1] + Depth(x)
        BY <3>1, Zenon DEF IsDepth
      <4>2. m \in 0..n /\ i \in 0..n
        BY <1>1, <3>1
      <4>3. h[m] \in Int /\ h[i] \in Int
        BY <1>1, <4>2, Zenon
      <4> QED BY <3>1, <4>1, <4>3, Zenon
    <3>4. /\ N(m + 1) = IF x \notin Dots THEN N(m) + 1 ELSE N(m)
          /\ U(m + 1) = IF x = ".." THEN U(m) + 1 ELSE U(m)
      BY <3>1, OneMoreCounted
    <3>5. N(m) \in Nat /\ U(m) \in Nat /\ N(m) - U(m) = h[m] - h[i]
      BY <3>2
    <3>6. /\ x \notin Dots => Depth(x) = 1 /\ x # ".."
          /\ x \in Dots /\ x # ".." => Depth(x) = 0
          /\ x = ".." => Depth(x) = -1 /\ x \in Dots
      BY DEF Depth, Dots
    <3>7. h[m + 1] - h[i] = (h[m] - h[i]) + Depth(x)
      BY <3>3, <3>6
    <3> HIDE DEF N, U, x
    <3>8. /\ N(m + 1) \in Nat /\ U(m + 1) \in Nat
          /\ N(m + 1) - U(m + 1) = (N(m) - U(m)) + Depth(x)
      <4>1. CASE x \notin Dots
        BY <3>4, <3>5, <3>6, <4>1
      <4>2. CASE x = ".."
        BY <3>4, <3>5, <3>6, <4>2
      <4>3. CASE x \in Dots /\ x # ".."
        BY <3>4, <3>5, <3>6, <4>3
      <4> QED BY <4>1, <4>2, <4>3
    <3> QED BY <3>5, <3>7, <3>8 DEF N, U
  <2> QED BY <2>1, <2>2
<1>5. j \in T
  <2> HIDE DEF T, Good
  <2>1. j \in Nat
    OBVIOUS
  <2> QED BY <2>1, <1>3, <1>4, NaturalsUpwards
<1> QED BY <1>5

(* The names that are left after n components, by their places st in them. *)
Survives(parts, h, i, n) == parts[i] \notin Dots /\ \A j \in i..n : h[i] <= h[j]

IsStack(st, u, parts, h, n) ==
  /\ \A a \in 1..Len(st) : st[a] \in 1..n
  /\ \A a, b \in 1..Len(st) : a < b => st[a] < st[b]
  /\ \A a \in 1..Len(st) : h[n] - h[st[a]] = Len(st) - a
  /\ \A i \in 1..n : Survives(parts, h, i, n) <=> \E a \in 1..Len(st) : st[a] = i
  /\ Len(u) = Len(st) /\ \A a \in 1..Len(st) : u[a] = parts[st[a]]

LEMMA ParentProperties ==
  ASSUME NEW S, NEW s \in Seq(S)
  PROVE  /\ parent(s) \in Seq(S)
         /\ s = <<>> => parent(s) = <<>>
         /\ s # <<>> => Len(parent(s)) = Len(s) - 1 /\ Len(s) > 0
         /\ \A a \in 1..Len(s) - 1 : parent(s)[a] = s[a]
<1>1. Len(s) \in Nat /\ (s # <<>> => Len(s) > 0)
  BY EmptySeq, LenProperties
<1>2. CASE s = <<>>
  <2>1. SubSeq(s, 1, Len(s) - 1) = <<>> /\ Len(s) = 0
    BY <1>2, SubSeqEmpty
  <2> QED BY <1>2, <2>1 DEF parent
<1>3. CASE s # <<>>
  <2>1. /\ SubSeq(s, 1, Len(s) - 1) \in Seq(S) /\ Len(SubSeq(s, 1, Len(s) - 1)) = Len(s) - 1
        /\ \A a \in 1..Len(s) - 1 : SubSeq(s, 1, Len(s) - 1)[a] = s[1 + a - 1]
    <3>1. 1 \in 1..Len(s) + 1 /\ Len(s) - 1 \in 1 - 1..Len(s) /\ (Len(s) - 1) - 1 + 1 = Len(s) - 1
      BY <1>1, <1>3
    <3> QED BY <3>1, SubSeqProperties
  <2>2. \A a \in 1..Len(s) - 1 : 1 + a - 1 = a
    BY <1>1
  <2> QED BY <1>1, <1>3, <2>1, <2>2 DEF parent
<1> QED BY <1>2, <1>3

(* The positions up to the next one. *)
LEMMA OneFurther ==
  ASSUME NEW n \in Nat, NEW i \in 1..n
  PROVE  i..n + 1 = (i..n) \cup {n + 1}
OBVIOUS

(* The next component: "." leaves them, a name is one more, ".." takes the last. *)
LEMMA StackStep ==
  ASSUME NEW parts \in Seq(Name \cup Dots), NEW h, IsDepth(h, parts),
         NEW n \in Nat, n < Len(parts),
         NEW st \in Seq(Nat), NEW u \in Seq(Name), IsStack(st, u, parts, h, n)
  PROVE  \E t \in Seq(Nat) : IsStack(t, Turned(u, parts[n + 1]), parts, h, n + 1)
<1> DEFINE x == parts[n + 1]
<1>1. /\ h[n + 1] = h[n] + Depth(x) /\ h[n] \in Int /\ h[n + 1] \in Int
      /\ n + 1 \in 1..Len(parts) /\ Len(parts) \in Nat
  <2>1. n + 1 \in 1..Len(parts) /\ Len(parts) \in Nat /\ (n + 1) - 1 = n /\ n \in 0..Len(parts)
    OBVIOUS
  <2>2. h[n + 1] = h[(n + 1) - 1] + Depth(x)
    BY <2>1, Zenon DEF IsDepth
  <2>3. h[n] \in Int /\ h[n + 1] \in Int
    <3>1. n + 1 \in 0..Len(parts)
      BY <2>1
    <3> QED BY <2>1, <3>1, Zenon DEF IsDepth
  <2> QED BY <2>1, <2>2, <2>3
<1>2. \A i \in 0..Len(parts) : h[i] \in Int
  BY DEF IsDepth
<1>3. x \in Name \cup Dots
  BY <1>1
<1> HIDE DEF x
<1>4. ASSUME NEW i \in 1..n
      PROVE  Survives(parts, h, i, n + 1) <=> Survives(parts, h, i, n) /\ h[i] <= h[n + 1]
  <2>1. i..n + 1 = (i..n) \cup {n + 1}
    BY OneFurther
  <2> QED BY <2>1 DEF Survives
<1>5. Survives(parts, h, n + 1, n + 1) <=> x \notin Dots
  BY <1>1 DEF Survives, x
<1>6. Len(st) \in Nat /\ \A a \in 1..Len(st) : st[a] \in 1..n
  BY DEF IsStack
<1>7. \A i \in 1..n + 1 : i \in 1..n \/ i = n + 1
  OBVIOUS
<1>8. CASE x = "."
  <2>1. h[n + 1] = h[n] /\ Turned(u, x) = u /\ x \in Dots
    BY <1>1, <1>8, TurnedCases DEF Depth, Dots
  <2>2. \A i \in 1..n : Survives(parts, h, i, n + 1) <=> Survives(parts, h, i, n)
    BY <1>4, <2>1 DEF Survives
  <2>3. \A i \in 1..n + 1 : Survives(parts, h, i, n + 1) <=> \E a \in 1..Len(st) : st[a] = i
    <3>1. ASSUME NEW i \in 1..n
          PROVE  Survives(parts, h, i, n + 1) <=> \E a \in 1..Len(st) : st[a] = i
      BY <2>2 DEF IsStack
    <3>2. Survives(parts, h, n + 1, n + 1) <=> \E a \in 1..Len(st) : st[a] = n + 1
      BY <1>5, <1>6, <2>1
    <3> QED BY <1>7, <3>1, <3>2
  <2>4. \A a \in 1..Len(st) : st[a] \in 1..n + 1
    BY <1>6
  <2>5. IsStack(st, u, parts, h, n + 1)
    BY <2>1, <2>3, <2>4 DEF IsStack
  <2> QED BY <2>1, <2>5 DEF x
<1>9. CASE x \notin Dots
  <2> DEFINE t == Append(st, n + 1)
             v == Append(u, x)
  <2>1. h[n + 1] = h[n] + 1 /\ Turned(u, x) = v
    BY <1>1, <1>9, TurnedCases DEF Depth, Dots
  <2>2. /\ t \in Seq(Nat) /\ Len(t) = Len(st) + 1 /\ t[Len(st) + 1] = n + 1
        /\ \A a \in 1..Len(st) : t[a] = st[a]
    BY AppendProperties
  <2>3. /\ Len(v) = Len(st) + 1 /\ v[Len(st) + 1] = x
        /\ \A a \in 1..Len(st) : v[a] = u[a]
    <3>1. Len(u) = Len(st) /\ x \in Name
      BY <1>3, <1>9 DEF IsStack
    <3>2. /\ Len(v) = Len(u) + 1 /\ v[Len(u) + 1] = x
          /\ \A a \in 1..Len(u) : v[a] = u[a]
      BY <3>1, AppendProperties
    <3> QED BY <3>1, <3>2
  <2> HIDE DEF t, v
  <2>4. \A a \in 1..Len(t) : a \in 1..Len(st) \/ a = Len(st) + 1
    BY <1>6, <2>2
  <2>5. \A a \in 1..Len(t) : t[a] \in 1..n + 1
    <3>1. \A i \in 1..n : i \in 1..n + 1
      OBVIOUS
    <3>2. n + 1 \in 1..n + 1
      OBVIOUS
    <3> QED BY <1>6, <2>2, <2>4, <3>1, <3>2, Zenon
  <2>6. \A a, b \in 1..Len(t) : a < b => t[a] < t[b]
    <3> SUFFICES ASSUME NEW a \in 1..Len(t), NEW b \in 1..Len(t), a < b PROVE t[a] < t[b]
      OBVIOUS
    <3>1. a \in 1..Len(st)
      BY <1>6, <2>2
    <3>2. CASE b \in 1..Len(st)
      BY <2>2, <3>1, <3>2 DEF IsStack
    <3>3. CASE b = Len(st) + 1
      <4>1. t[a] \in 1..n /\ t[b] = n + 1
        BY <1>6, <2>2, <3>1, <3>3
      <4> QED BY <4>1
    <3> QED BY <2>4, <3>2, <3>3
  <2>7. \A a \in 1..Len(t) : h[n + 1] - h[t[a]] = Len(t) - a
    <3>1. ASSUME NEW a \in 1..Len(st) PROVE h[n + 1] - h[t[a]] = Len(t) - a
      <4>1. h[n] - h[st[a]] = Len(st) - a /\ t[a] = st[a]
        BY <2>2 DEF IsStack
      <4>2. h[st[a]] \in Int
        BY <1>1, <1>2, <1>6
      <4>3. (h[n] + 1) - h[st[a]] = (Len(st) + 1) - a
        <5> DEFINE p == h[n]
                   q == h[st[a]]
                   l == Len(st)
        <5>1. p - q = l - a /\ q \in Int /\ a \in Int /\ l \in Int /\ p \in Int
          BY <1>1, <1>6, <4>1, <4>2
        <5> HIDE DEF p, q, l
        <5>2. (p + 1) - q = (l + 1) - a
          BY <5>1
        <5> QED BY <5>2 DEF p, q, l
      <4> QED BY <2>1, <2>2, <4>1, <4>3
    <3>2. h[n + 1] - h[t[Len(st) + 1]] = Len(t) - (Len(st) + 1)
      BY <1>1, <1>6, <2>2
    <3> QED BY <2>4, <3>1, <3>2
  <2>8. \A i \in 1..n + 1 : Survives(parts, h, i, n + 1) <=> \E a \in 1..Len(t) : t[a] = i
    <3>1. ASSUME NEW i \in 1..n
          PROVE  Survives(parts, h, i, n + 1) <=> \E a \in 1..Len(t) : t[a] = i
      <4>1. Survives(parts, h, i, n) => h[i] <= h[n]
        BY DEF Survives
      <4>2. Survives(parts, h, i, n + 1) <=> Survives(parts, h, i, n)
        <5>1. h[i] \in Int
          BY <1>1, <1>2
        <5> QED BY <1>1, <1>4, <2>1, <4>1, <5>1
      <4>3. Survives(parts, h, i, n) <=> \E a \in 1..Len(st) : st[a] = i
        BY DEF IsStack
      <4>4. (\E a \in 1..Len(st) : st[a] = i) <=> \E a \in 1..Len(t) : t[a] = i
        <5>1. \A a \in 1..Len(st) : a \in 1..Len(t) /\ t[a] = st[a]
          BY <1>6, <2>2
        <5>2. t[Len(st) + 1] # i
          BY <2>2
        <5> QED BY <2>4, <5>1, <5>2
      <4> QED BY <4>2, <4>3, <4>4
    <3>2. Survives(parts, h, n + 1, n + 1) /\ \E a \in 1..Len(t) : t[a] = n + 1
      <4>1. Len(st) + 1 \in 1..Len(t)
        BY <1>6, <2>2
      <4> QED BY <1>5, <1>9, <2>2, <4>1
    <3> QED BY <1>7, <3>1, <3>2
  <2>9. Len(v) = Len(t) /\ \A a \in 1..Len(t) : v[a] = parts[t[a]]
    <3>1. \A a \in 1..Len(st) : v[a] = parts[t[a]]
      BY <2>2, <2>3 DEF IsStack
    <3>2. v[Len(st) + 1] = parts[t[Len(st) + 1]]
      BY <2>2, <2>3 DEF x
    <3> QED BY <2>2, <2>3, <2>4, <3>1, <3>2
  <2>10. IsStack(t, v, parts, h, n + 1)
    BY <2>5, <2>6, <2>7, <2>8, <2>9 DEF IsStack
  <2> QED BY <2>1, <2>2, <2>10 DEF x
<1>10. CASE x = ".."
  <2> DEFINE t == parent(st)
             v == parent(u)
  <2>1. h[n + 1] = h[n] - 1 /\ x \in Dots
    <3>1. Depth(x) = -1
      BY <1>10 DEF Depth
    <3> QED BY <1>1, <1>10, <3>1 DEF Dots
  <2>2. Turned(u, x) = v
    BY <1>10, TurnedCases, ParentProperties
  <2>3. /\ t \in Seq(Nat) /\ \A a \in 1..Len(st) - 1 : t[a] = st[a]
        /\ Len(t) = IF st = <<>> THEN 0 ELSE Len(st) - 1
        /\ Len(st) = 0 <=> st = <<>>
    BY ParentProperties, EmptySeq
  <2>4. /\ \A a \in 1..Len(st) - 1 : v[a] = u[a]
        /\ Len(v) = Len(t)
    <3>1. Len(u) = Len(st)
      BY DEF IsStack
    <3>2. /\ \A a \in 1..Len(u) - 1 : v[a] = u[a]
          /\ Len(v) = IF u = <<>> THEN 0 ELSE Len(u) - 1
          /\ Len(u) = 0 <=> u = <<>>
      BY ParentProperties, EmptySeq
    <3> QED BY <2>3, <3>1, <3>2
  <2> HIDE DEF t, v
  <2>5. \A a \in 1..Len(t) : a \in 1..Len(st) - 1 /\ a \in 1..Len(st) /\ t[a] = st[a]
    BY <1>6, <2>3
  <2>6. \A a \in 1..Len(st) : a \in 1..Len(t) \/ a = Len(st)
    BY <1>6, <2>3
  <2>7. \A a \in 1..Len(t) : t[a] \in 1..n + 1
    BY <1>6, <2>5, SMTT(60)
  <2>8. \A a, b \in 1..Len(t) : a < b => t[a] < t[b]
    <3>1. \A a, b \in 1..Len(st) : a < b => st[a] < st[b]
      BY Zenon DEF IsStack
    <3> QED BY <2>5, <3>1, Zenon
  <2>9. \A a \in 1..Len(t) : h[n + 1] - h[t[a]] = Len(t) - a
    <3> SUFFICES ASSUME NEW a \in 1..Len(t) PROVE h[n + 1] - h[t[a]] = Len(t) - a
      OBVIOUS
    <3>1. h[n] - h[st[a]] = Len(st) - a /\ t[a] = st[a] /\ h[st[a]] \in Int
      <4>1. a \in 1..Len(st) /\ t[a] = st[a]
        BY <2>5, Zenon
      <4>2. h[n] - h[st[a]] = Len(st) - a
        BY <4>1, Zenon DEF IsStack
      <4>3. st[a] \in 1..n
        BY <1>6, <4>1, Zenon
      <4>4. 1..n \subseteq 0..Len(parts)
        BY <1>1
      <4>5. h[st[a]] \in Int
        BY <1>2, <4>3, <4>4, Zenon
      <4> QED BY <4>1, <4>2, <4>5, Zenon
    <3>2. Len(t) = Len(st) - 1
      BY <2>3, <2>5
    <3>3. h[n] - 1 - h[st[a]] = Len(st) - 1 - a
      <4> DEFINE p == h[n]
                 q == h[st[a]]
                 l == Len(st)
      <4>1. p - q = l - a /\ q \in Int /\ a \in Int /\ l \in Int /\ p \in Int
        BY <1>1, <1>6, <3>1
      <4> HIDE DEF p, q, l
      <4>2. p - 1 - q = l - 1 - a
        BY <4>1
      <4> QED BY <4>2 DEF p, q, l
    <3> QED BY <2>1, <3>1, <3>2, <3>3
  <2>10. \A i \in 1..n + 1 : Survives(parts, h, i, n + 1) <=> \E a \in 1..Len(t) : t[a] = i
    <3>1. ASSUME NEW i \in 1..n
          PROVE  Survives(parts, h, i, n + 1) <=> \E a \in 1..Len(t) : t[a] = i
      <4>1. Survives(parts, h, i, n) <=> \E a \in 1..Len(st) : st[a] = i
        BY DEF IsStack
      <4>2. ASSUME NEW a \in 1..Len(st), st[a] = i
            PROVE  h[i] <= h[n + 1] <=> a # Len(st)
        <5>1. h[n] - h[i] = Len(st) - a /\ h[i] \in Int
          BY <1>1, <1>2, <4>2 DEF IsStack
        <5>2. a \in Int /\ Len(st) \in Int /\ a <= Len(st) /\ h[n] \in Int
          BY <1>1, <1>6
        <5> DEFINE p == h[n]
                   q == h[i]
                   l == Len(st)
        <5>3. p - q = l - a /\ q \in Int /\ a \in Int /\ l \in Int /\ a <= l /\ p \in Int
          BY <5>1, <5>2
        <5> HIDE DEF p, q, l
        <5>4. q <= p - 1 <=> a # l
          BY <5>3
        <5> QED BY <2>1, <5>4 DEF p, q, l
      <4>3. ASSUME Survives(parts, h, i, n + 1) PROVE \E a \in 1..Len(t) : t[a] = i
        <5>1. PICK a \in 1..Len(st) : st[a] = i
          BY <1>4, <4>1, <4>3
        <5>2. a # Len(st)
          BY <1>4, <4>2, <4>3, <5>1
        <5> QED BY <2>5, <2>6, <5>1, <5>2
      <4>4. ASSUME NEW a \in 1..Len(t), t[a] = i PROVE Survives(parts, h, i, n + 1)
        <5>1. a \in 1..Len(st) /\ st[a] = i /\ a # Len(st)
          BY <1>6, <2>5, <4>4, SMTT(60)
        <5> QED BY <1>4, <4>1, <4>2, <5>1
      <4> QED BY <4>3, <4>4
    <3>2. ~Survives(parts, h, n + 1, n + 1)
      BY <1>5, <2>1
    <3>3. ASSUME NEW a \in 1..Len(t) PROVE t[a] # n + 1
      <4>1. t[a] \in 1..n
        BY <1>6, <2>5, Zenon
      <4> QED BY <4>1
    <3> QED BY <1>7, <3>1, <3>2, <3>3
  <2>11. \A a \in 1..Len(t) : v[a] = parts[t[a]]
    BY <2>4, <2>5 DEF IsStack
  <2>12. IsStack(t, v, parts, h, n + 1)
    BY <2>4, <2>7, <2>8, <2>9, <2>10, <2>11 DEF IsStack
  <2> QED BY <2>2, <2>3, <2>12 DEF x
<1> QED BY <1>8, <1>9, <1>10 DEF Dots

LEMMA StackHolds ==
  ASSUME NEW parts \in Seq(Name \cup Dots), NEW h, IsDepth(h, parts)
  PROVE  /\ Collapsed(parts) \in Seq(Name)
         /\ \E st \in Seq(Nat) : IsStack(st, Collapsed(parts), parts, h, Len(parts))
<1>1. PICK u : IsCollapse(u, parts) /\ Collapsed(parts) = u[Len(parts)]
  BY CollapsedRuns
<1> DEFINE n == Len(parts)
           T == { m \in Nat : m <= n => \E st \in Seq(Nat) : IsStack(st, u[m], parts, h, m) }
<1>2. n \in Nat
  OBVIOUS
<1>3. 0 \in T
  <2>1. <<>> \in Seq(Nat) /\ Len(<<>>) = 0 /\ u[0] = <<>>
    BY <1>1, EmptySeq DEF IsCollapse
  <2>2. 1..0 = {}
    OBVIOUS
  <2>3. IsStack(<<>>, u[0], parts, h, 0)
    BY <2>1, <2>2 DEF IsStack
  <2> QED BY <2>1, <2>3
<1>4. ASSUME NEW m \in Nat, m \in T PROVE m + 1 \in T
  <2> SUFFICES ASSUME m + 1 <= n PROVE \E st \in Seq(Nat) : IsStack(st, u[m + 1], parts, h, m + 1)
    OBVIOUS
  <2>1. m < Len(parts) /\ m + 1 \in 1..Len(parts) /\ (m + 1) - 1 = m /\ m \in 0..Len(parts)
    BY <1>2
  <2>2. PICK st \in Seq(Nat) : IsStack(st, u[m], parts, h, m)
    BY <1>4, <2>1
  <2>3. u[m] \in Seq(Name) /\ u[m + 1] = Turned(u[m], parts[m + 1])
    BY <1>1, <2>1 DEF IsCollapse
  <2> QED BY <2>1, <2>2, <2>3, StackStep
<1>5. n \in T
  <2> HIDE DEF T, n
  <2> QED BY <1>2, <1>3, <1>4, NaturalsUpwards
<1>6. Collapsed(parts) \in Seq(Name)
  BY <1>1, <1>2 DEF IsCollapse
<1> QED BY <1>1, <1>2, <1>5, <1>6

(* Counting upwards along st: the a-th of the places is the one with a of them up to it. *)
LEMMA RankInStack ==
  ASSUME NEW st \in Seq(Nat), \A a, b \in 1..Len(st) : a < b => st[a] < st[b],
         NEW stay, stay = { st[a] : a \in 1..Len(st) }
  PROVE  /\ Cardinality(stay) = Len(st)
         /\ \A a \in 1..Len(st) : Cardinality({ k \in stay : k <= st[a] }) = a
<1> DEFINE upTo(m) == { st[a] : a \in 1..m }
           T == { m \in Nat : m <= Len(st) => /\ IsFiniteSet(upTo(m))
                                              /\ Cardinality(upTo(m)) = m }
<1>1. Len(st) \in Nat /\ \A a \in 1..Len(st) : st[a] \in Nat
  OBVIOUS
<1>2. 0 \in T
  <2>1. upTo(0) = {}
    OBVIOUS
  <2> QED BY <2>1, FS_EmptySet
<1>3. ASSUME NEW m \in Nat, m \in T PROVE m + 1 \in T
  <2> SUFFICES ASSUME m + 1 <= Len(st)
               PROVE  IsFiniteSet(upTo(m + 1)) /\ Cardinality(upTo(m + 1)) = m + 1
    OBVIOUS
  <2>1. IsFiniteSet(upTo(m)) /\ Cardinality(upTo(m)) = m
    BY <1>1, <1>3
  <2>2. upTo(m + 1) = upTo(m) \cup {st[m + 1]}
    <3>1. 1..m + 1 = (1..m) \cup {m + 1}
      OBVIOUS
    <3> QED BY <3>1
  <2>3. st[m + 1] \notin upTo(m)
    <3>1. \A a \in 1..m : a \in 1..Len(st) /\ a < m + 1 /\ m + 1 \in 1..Len(st)
      BY <1>1
    <3>2. \A a \in 1..m : st[a] < st[m + 1] /\ st[a] \in Nat /\ st[m + 1] \in Nat
      BY <1>1, <3>1
    <3> QED BY <3>2
  <2>4. IsFiniteSet(upTo(m) \cup {st[m + 1]})
        /\ Cardinality(upTo(m) \cup {st[m + 1]}) = Cardinality(upTo(m)) + 1
    <3> HIDE DEF upTo
    <3> QED BY <2>1, <2>3, FS_AddElement
  <2> QED BY <2>1, <2>2, <2>4, Zenon
<1>4. ASSUME NEW m \in 0..Len(st) PROVE Cardinality(upTo(m)) = m
  <2>1. m \in T
    <3> HIDE DEF T
    <3>1. m \in Nat
      BY <1>1
    <3> QED BY <1>2, <1>3, <3>1, NaturalsUpwards
  <2> HIDE DEF upTo
  <2> QED BY <1>1, <2>1
<1>5. ASSUME NEW a \in 1..Len(st) PROVE { k \in stay : k <= st[a] } = upTo(a)
  <2>1. ASSUME NEW b \in 1..Len(st) PROVE st[b] <= st[a] <=> b \in 1..a
    <3>1. CASE b < a
      <4>1. st[b] < st[a] /\ st[b] \in Nat /\ st[a] \in Nat
        BY <1>1, <3>1
      <4> QED BY <3>1, <4>1
    <3>2. CASE b = a
      BY <1>1, <3>2
    <3>3. CASE a < b
      <4>1. st[a] < st[b] /\ st[b] \in Nat /\ st[a] \in Nat
        BY <1>1, <3>3
      <4> QED BY <3>3, <4>1
    <3> QED BY <3>1, <3>2, <3>3
  <2>2. 1..a \subseteq 1..Len(st)
    BY <1>1
  <2> QED BY <2>1, <2>2
<1>6. stay = upTo(Len(st)) /\ Len(st) \in 0..Len(st) /\ 1..Len(st) \subseteq 0..Len(st)
  BY <1>1
<1> HIDE DEF upTo
<1> QED BY <1>4, <1>5, <1>6

(* What the loop of buildPath and resolvePath makes of a path with dots, slashes and a *)
(* working directory in front is what they mean: the names that no ".." takes back    *)
(* (Collapsed).                                                                       *)
THEOREM CollapsedAsMeant ==
  \A path \in Seq(Name), args \in Arguments :
    Collapsed(buildPath(path, args).parts) = Meant(path, args)
<1> TAKE path \in Seq(Name), args \in Arguments
<1> DEFINE parts == IF args.absolute THEN args.parts ELSE path \o args.parts
           stay  == { i \in DOMAIN parts : Stays(parts, i) }
           rank(i) == Cardinality({ k \in stay : k <= i })
<1>1. parts \in Seq(Name \cup Dots)
  <2>1. args.parts \in Seq(Name \cup Dots)
    BY DEF Arguments
  <2>2. path \in Seq(Name \cup Dots)
    BY LenProperties, ElementOfSeq, SeqDef
  <2> QED BY <2>1, <2>2, ConcatProperties
<1>2. buildPath(path, args).parts = parts
  BY DEF buildPath
<1>3. Meant(path, args) = [n \in 1..Cardinality(stay) |-> parts[CHOOSE i \in stay : rank(i) = n]]
  BY Zenon DEF Meant
<1> HIDE DEF parts
<1>4. PICK h : IsDepth(h, parts)
  BY <1>1, DepthRuns
<1>5. PICK st \in Seq(Nat) : IsStack(st, Collapsed(parts), parts, h, Len(parts))
  BY <1>1, <1>4, StackHolds
<1>6. Len(parts) \in Nat /\ DOMAIN parts = 1..Len(parts)
  BY <1>1, LenProperties
<1>7. ASSUME NEW i \in 1..Len(parts)
      PROVE  Stays(parts, i) <=> Survives(parts, h, i, Len(parts))
  <2>1. ASSUME NEW j \in i..Len(parts)
        PROVE  Cardinality(Ups(parts, i, j)) <= Cardinality(Names(parts, i, j)) <=> h[i] <= h[j]
    <3>1. i \in 0..Len(parts) /\ j \in 0..Len(parts)
      BY <1>6
    <3>2. h[i] \in Int /\ h[j] \in Int
      BY <1>4, <3>1 DEF IsDepth
    <3>3. /\ Cardinality(Names(parts, i, j)) \in Nat /\ Cardinality(Ups(parts, i, j)) \in Nat
          /\ Cardinality(Names(parts, i, j)) - Cardinality(Ups(parts, i, j)) = h[j] - h[i]
      BY <1>1, <1>4, <3>1, DepthCounts
    <3> QED BY <3>2, <3>3
  <2>2. Stays(parts, i) <=> parts[i] \notin Dots /\ \A j \in i..Len(parts) :
                               Cardinality(Ups(parts, i, j)) <= Cardinality(Names(parts, i, j))
    BY DEF Stays, Ups, Names
  <2> QED BY <2>1, <2>2 DEF Survives
<1>8. stay = { st[a] : a \in 1..Len(st) }
  <2>1. \A i \in 1..Len(parts) : i \in stay <=> \E a \in 1..Len(st) : st[a] = i
    BY <1>5, <1>6, <1>7 DEF IsStack
  <2>2. \A a \in 1..Len(st) : st[a] \in 1..Len(parts)
    BY <1>5 DEF IsStack
  <2>3. \A i \in stay : i \in 1..Len(parts)
    BY <1>6
  <2> HIDE DEF stay
  <2> QED BY <2>1, <2>2, <2>3
<1> HIDE DEF stay
<1>9. Cardinality(stay) = Len(st) /\ \A a \in 1..Len(st) : rank(st[a]) = a
  <2>1. \A a, b \in 1..Len(st) : a < b => st[a] < st[b]
    BY <1>5 DEF IsStack
  <2> QED BY <1>8, <2>1, RankInStack, ZenonT(60)
<1> HIDE DEF rank
<1>10. ASSUME NEW n \in 1..Len(st) PROVE (CHOOSE i \in stay : rank(i) = n) = st[n]
  <2> DEFINE e == CHOOSE i \in stay : rank(i) = n
  <2>1. st[n] \in stay /\ rank(st[n]) = n
    BY <1>8, <1>9, ZenonT(60)
  <2>2. ASSUME NEW i \in stay, rank(i) = n PROVE i = st[n]
    <3>1. PICK a \in 1..Len(st) : i = st[a]
      BY <1>8
    <3>2. rank(i) = a
      BY <1>9, <3>1
    <3> QED BY <2>2, <3>1, <3>2
  <2>3. e \in stay /\ rank(e) = n
    BY <2>1, Zenon
  <2> QED BY <2>2, <2>3, Zenon
<1>11. Meant(path, args) = [n \in 1..Len(st) |-> parts[st[n]]]
  BY <1>3, <1>9, <1>10
<1>12. Collapsed(parts) = [n \in 1..Len(st) |-> parts[st[n]]]
  <2>1. Collapsed(parts) \in Seq(Name)
    BY <1>1, <1>4, StackHolds
  <2>2. /\ Len(Collapsed(parts)) = Len(st)
        /\ \A a \in 1..Len(st) : Collapsed(parts)[a] = parts[st[a]]
    BY <1>5 DEF IsStack
  <2> QED BY <2>1, <2>2
<1> QED BY <1>2, <1>11, <1>12

(* A path without dots is what it says, and CDUP, which nobody looks up, means "..". *)
LEMMA WithoutDots ==
  ASSUME NEW parts \in Seq(Name \cup Dots), NEW u, IsCollapse(u, parts),
         NEW m \in 0..Len(parts), \A i \in 1..m : parts[i] \in Name
  PROVE  Len(u[m]) = m /\ \A i \in 1..m : u[m][i] = parts[i]
<1> DEFINE Good(n) == Len(u[n]) = n /\ \A i \in 1..n : u[n][i] = parts[i]
           T == { n \in Nat : n <= m => Good(n) }
<1>1. m \in Nat /\ Len(parts) \in Nat /\ m <= Len(parts)
  OBVIOUS
<1>2. 0 \in T
  BY EmptySeq DEF IsCollapse
<1>3. ASSUME NEW n \in Nat, n \in T PROVE n + 1 \in T
  <2> HIDE DEF Good
  <2> SUFFICES ASSUME n + 1 <= m PROVE Good(n + 1)
    OBVIOUS
  <2> USE DEF Good
  <2>1. /\ n + 1 \in 1..Len(parts) /\ n \in 0..Len(parts) /\ (n + 1) - 1 = n /\ n <= m
        /\ n + 1 \in 1..m
    BY <1>1
  <2>2. Good(n)
    BY <1>3, <2>1
  <2>3. parts[n + 1] \in Name /\ parts[n + 1] \notin Dots /\ u[n] \in Seq(Name)
    BY <2>1, NameAssumption DEF IsCollapse
  <2>4. u[n + 1] = Append(u[n], parts[n + 1])
    <3>1. u[n + 1] = Turned(u[(n + 1) - 1], parts[n + 1])
      BY <2>1, Zenon DEF IsCollapse
    <3>2. u[n + 1] = Turned(u[n], parts[n + 1])
      BY <2>1, <3>1
    <3> QED BY <2>3, <3>2, TurnedCases, Zenon
  <2>5. /\ Len(u[n + 1]) = n + 1 /\ u[n + 1][n + 1] = parts[n + 1]
        /\ \A i \in 1..n : u[n + 1][i] = u[n][i]
    BY <2>2, <2>3, <2>4, AppendProperties
  <2>6. 1..n + 1 = (1..n) \cup {n + 1}
    OBVIOUS
  <2> QED BY <2>2, <2>5, <2>6
<1>4. m \in T
  <2> HIDE DEF T
  <2> QED BY <1>1, <1>2, <1>3, NaturalsUpwards
<1> QED BY <1>1, <1>4

LEMMA AsItIs ==
  ASSUME NEW path \in Seq(Name)
  PROVE  path \in Seq(Name \cup Dots) /\ Collapsed(path) = path
<1>1. Len(path) \in Nat /\ \A i \in 1..Len(path) : path[i] \in Name
  BY LenProperties, ElementOfSeq
<1>2. path \in Seq(Name \cup Dots)
  BY <1>1, SeqDef
<1>3. PICK u : IsCollapse(u, path) /\ Collapsed(path) = u[Len(path)]
  BY <1>2, CollapsedRuns
<1>4. Len(path) \in 0..Len(path)
  BY <1>1
<1>5. Len(u[Len(path)]) = Len(path) /\ \A i \in 1..Len(path) : u[Len(path)][i] = path[i]
  BY <1>1, <1>2, <1>3, <1>4, WithoutDots
<1>6. u[Len(path)] = path
  <2>1. u[Len(path)] \in Seq(Name)
    BY <1>3, <1>4 DEF IsCollapse
  <2> QED BY <1>5, <2>1, SeqEqual
<1> QED BY <1>2, <1>3, <1>6

LEMMA OneUp ==
  ASSUME NEW path \in Seq(Name), NEW parts \in Seq(Name \cup Dots),
         Len(parts) = Len(path) + 1, parts[Len(path) + 1] = "..",
         \A i \in 1..Len(path) : parts[i] = path[i]
  PROVE  Collapsed(parts) = parent(path)
<1> DEFINE n == Len(path)
<1>1. n \in Nat /\ \A i \in 1..n : path[i] \in Name
  BY LenProperties, ElementOfSeq
<1>2. PICK u : IsCollapse(u, parts) /\ Collapsed(parts) = u[Len(parts)]
  BY CollapsedRuns
<1>3. n \in 0..Len(parts) /\ n + 1 \in 1..Len(parts) /\ (n + 1) - 1 = n
  BY <1>1
<1>4. Len(u[n]) = n /\ \A i \in 1..n : u[n][i] = parts[i]
  BY <1>1, <1>2, <1>3, WithoutDots
<1>5. u[n] = path
  <2>1. u[n] \in Seq(Name) /\ \A i \in 1..n : u[n][i] = path[i]
    BY <1>2, <1>3, <1>4 DEF IsCollapse
  <2> QED BY <1>4, <2>1, SeqEqual
<1>6. u[n + 1] = IF path = <<>> THEN <<>> ELSE parent(path)
  <2>1. u[n + 1] = Turned(u[(n + 1) - 1], parts[n + 1])
    BY <1>2, <1>3, Zenon DEF IsCollapse
  <2>2. u[n + 1] = Turned(path, "..")
    BY <1>3, <1>5, <2>1
  <2> QED BY <2>2, TurnedCases, Zenon
<1>7. path = <<>> => parent(path) = <<>>
  BY ParentProperties
<1> QED BY <1>2, <1>6, <1>7

LEMMA UpMeant ==
  ASSUME NEW path \in Seq(Name)
  PROVE  Up \in Arguments /\ Meant(path, Up) = parent(path)
<1> DEFINE parts == path \o <<"..">>
           n == Len(path)
<1>1. Up \in Arguments /\ ~Up.absolute /\ Up.parts = <<"..">>
  <2>1. ".." \in Name \cup Dots
    BY DEF Dots
  <2> QED BY <2>1 DEF Up, Arguments
<1>2. path \in Seq(Name \cup Dots) /\ n \in Nat
  BY AsItIs, LenProperties
<1>3. /\ parts \in Seq(Name \cup Dots) /\ Len(parts) = n + 1 /\ parts[n + 1] = ".."
      /\ \A i \in 1..n : parts[i] = path[i]
  <2>1. <<"..">> \in Seq(Name \cup Dots) /\ Len(<<"..">>) = 1 /\ <<"..">>[1] = ".."
    BY DEF Dots
  <2>2. /\ parts \in Seq(Name \cup Dots) /\ Len(parts) = n + 1
        /\ \A i \in 1..n + 1 : parts[i] = IF i <= n THEN path[i] ELSE <<"..">>[i - n]
    BY <1>2, <2>1, ConcatProperties
  <2> QED BY <1>2, <2>1, <2>2
<1>4. Meant(path, Up) = Collapsed(parts)
  <2>1. buildPath(path, Up).parts = parts
    BY <1>1 DEF buildPath
  <2> QED BY <1>1, <2>1, CollapsedAsMeant
<1>5. Collapsed(parts) = parent(path)
  <2> HIDE DEF parts
  <2> QED BY <1>3, OneUp
<1> QED BY <1>1, <1>4, <1>5

-----------------------------------------------------------------------------
(* What a client stands in, has named, lists and was shown.                 *)

Tried == [path : Seq(Name), set : BOOLEAN]

Stood   == cwd \in [Client -> Seq(Name)] /\ meantCwd = cwd
Chosen  == rename \in [Client -> Tried] /\ meantRename = rename
Devices == tree \in [Places -> {"none", "file", "dir"}] /\ gone \subseteq Places
Shown(c) == /\ dir[c] \in [handle : Handle \cup {None}, path : Seq(Name)]
            /\ shown[c] \in Seq(Name) /\ complete[c] \in Tried

(* Inductive beside ListInv. *)
PathInv == /\ Stood /\ Chosen /\ Devices
           /\ sessions \subseteq Client
           /\ \A c \in Client : Shown(c)

(* What a command is about is what its argument means, from where the client stands. *)
LEMMA ResolvedPath ==
  ASSUME Stood, NEW c \in Client, NEW args \in Arguments,
         NEW r \in buildResolvedPath(c, args), r.set
  PROVE  /\ r = At(Meant(cwd[c], args)) /\ r \in Tried
         /\ r.path \in Seq(Name) /\ r.path = Meant(meantCwd[c], args)
<1>1. cwd[c] \in Seq(Name) /\ meantCwd[c] = cwd[c]
  BY DEF Stood
<1>2. r = At(Collapsed(buildPath(cwd[c], args).parts))
  <2> DEFINE text == buildPath(cwd[c], args)
  <2>1. r \in resolvePath(text)
    BY DEF buildResolvedPath
  <2> HIDE DEF text
  <2>2. r = At(Collapsed(text.parts)) \/ r = Nowhere
    BY <2>1, Zenon DEF resolvePath
  <2> QED BY <2>2 DEF Nowhere, text
<1>3. Collapsed(buildPath(cwd[c], args).parts) = Meant(cwd[c], args)
  BY <1>1, CollapsedAsMeant
<1>4. Collapsed(buildPath(cwd[c], args).parts) \in Seq(Name)
  <2>1. buildPath(cwd[c], args).parts \in Seq(Name \cup Dots)
    <3>1. args.parts \in Seq(Name \cup Dots) /\ cwd[c] \in Seq(Name \cup Dots)
      BY <1>1, AsItIs DEF Arguments
    <3> QED BY <3>1, ConcatProperties DEF buildPath
  <2>2. \E h : IsDepth(h, buildPath(cwd[c], args).parts)
    BY <2>1, DepthRuns
  <2> QED BY <2>1, <2>2, StackHolds
<1> QED BY <1>1, <1>2, <1>3, <1>4 DEF At, Tried

LEMMA NothingTried == Nowhere \in Tried /\ <<>> \in Seq(Name)
BY EmptySeq DEF Nowhere, Tried

LEMMA ForgetsKeeps ==
  ASSUME Chosen, NEW c \in Client, Forgets(c)
  PROVE  Chosen'
BY NothingTried DEF Chosen, Forgets

LEMMA MovesKeeps ==
  ASSUME Stood, NEW c \in Client, NEW path \in Seq(Name), Moves(c, path, path)
  PROVE  Stood'
BY DEF Stood, Moves

LEMMA ChangeKeeps ==
  ASSUME Devices, NEW t \in [Places -> {"none", "file", "dir"}], Change(t)
  PROVE  Devices'
BY DEF Devices, Change

LEMMA SettledShows ==
  ASSUME ListInv, PathInv, NEW c \in Client, Settled(c)
  PROVE  sessions' \subseteq Client /\ \A d \in Client : Shown(d)'
<1>1. /\ shown' = [shown EXCEPT ![c] = <<>>] /\ complete' = [complete EXCEPT ![c] = Nowhere]
      /\ dir' = dir /\ sessions' = sessions
  BY DEF Settled
<1>2. \A d \in Client : /\ shown'[d] = IF d = c THEN <<>> ELSE shown[d]
                        /\ complete'[d] = IF d = c THEN Nowhere ELSE complete[d]
  BY <1>1 DEF ListInv, Shapes
<1> QED BY <1>1, <1>2, NothingTried DEF PathInv, Shown

(* One component less, and what it means. *)
LEMMA ParentPath ==
  ASSUME NEW path \in Seq(Name)
  PROVE  parent(path) \in Seq(Name)
BY ParentProperties

LEMMA RenamedType ==
  ASSUME Devices, NEW from, NEW to
  PROVE  Renamed(from, to) \in [Places -> {"none", "file", "dir"}]
BY DEF Devices, Renamed

LEMMA PathInvInit == Init => PathInv
<1> SUFFICES ASSUME Init PROVE PathInv
  OBVIOUS
<1>1. Stood /\ Chosen
  BY NothingTried DEF Init, Stood, Chosen
<1>2. Devices
  BY DEF Init, Devices
<1>3. sessions \subseteq Client /\ \A c \in Client : Shown(c)
  BY NothingTried DEF Init, Shown, NoHandle
<1> QED BY <1>1, <1>2, <1>3 DEF PathInv

LEMMA CommandPaths ==
  ASSUME ListInv, PathInv, NEW c \in Client, Command(c)
  PROVE  PathInv'
<1>1. Stood /\ Chosen /\ Devices
  BY DEF PathInv
<1>2. ASSUME Settled(c), Forgets(c) PROVE Chosen' /\ sessions' \subseteq Client /\ \A d \in Client : Shown(d)'
  BY <1>1, <1>2, ForgetsKeeps, SettledShows
<1>3. ASSUME UNCHANGED <<cwd, meantCwd>> PROVE Stood'
  BY <1>1, <1>3 DEF Stood
<1>4. ASSUME UNCHANGED <<tree, gone>> PROVE Devices'
  BY <1>1, <1>4 DEF Devices
<1>5. ASSUME NEW p \in Places, NEW k \in {"none", "file", "dir"}, Change([tree EXCEPT ![p] = k])
      PROVE  Devices'
  <2>1. [tree EXCEPT ![p] = k] \in [Places -> {"none", "file", "dir"}]
    BY <1>1 DEF Devices
  <2> QED BY <1>1, <1>5, <2>1, ChangeKeeps
<1>6. CASE CDUP(c)
  <2>1. Stood'
    <3>1. cwd[c] \in Seq(Name) /\ meantCwd[c] = cwd[c]
      BY <1>1 DEF Stood
    <3>2. Meant(meantCwd[c], Up) = parent(cwd[c]) /\ parent(cwd[c]) \in Seq(Name)
      BY <3>1, UpMeant, ParentPath
    <3> QED BY <1>1, <1>6, <3>2, MovesKeeps DEF CDUP
  <2> QED BY <1>2, <1>4, <1>6, <2>1 DEF CDUP, PathInv
<1>7. CASE Other(c)
  BY <1>2, <1>3, <1>4, <1>7 DEF Other, PathInv
<1>8. CASE RNTOFails(c)
  BY <1>2, <1>3, <1>4, <1>8 DEF RNTOFails, RenameOver, PathInv
<1>9. ASSUME NEW args \in Args, CWD(c, args) PROVE PathInv'
  <2>1. PICK r \in buildResolvedPath(c, args) : r.set /\ Moves(c, r.path, Meant(meantCwd[c], args))
    BY <1>9 DEF CWD
  <2>2. r.path \in Seq(Name) /\ r.path = Meant(meantCwd[c], args)
    BY <1>1, <2>1, ArgsAssumption, ResolvedPath
  <2>3. Stood'
    BY <1>1, <2>1, <2>2, MovesKeeps
  <2> QED BY <1>2, <1>4, <1>9, <2>3 DEF CWD, PathInv
<1>10. ASSUME NEW args \in Args, MKD(c, args) PROVE PathInv'
  BY <1>2, <1>3, <1>5, <1>10 DEF MKD, Room, PathInv
<1>11. ASSUME NEW args \in Args, RMD(c, args) PROVE PathInv'
  BY <1>2, <1>3, <1>5, <1>11 DEF RMD, PathInv
<1>12. ASSUME NEW args \in Args, DELE(c, args) PROVE PathInv'
  BY <1>2, <1>3, <1>5, <1>12 DEF DELE, PathInv
<1>13. ASSUME NEW args \in Args, STOR(c, args) PROVE PathInv'
  BY <1>2, <1>3, <1>5, <1>13 DEF STOR, Room, PathInv
<1>14. ASSUME NEW args \in Args, RNFR(c, args) PROVE PathInv'
  <2>1. PICK r \in buildResolvedPath(c, args) :
          /\ r.set /\ rename' = [rename EXCEPT ![c] = r]
          /\ meantRename' = [meantRename EXCEPT ![c] = At(Meant(meantCwd[c], args))]
    BY <1>14 DEF RNFR
  <2>2. r = At(Meant(meantCwd[c], args)) /\ r \in Tried
    BY <1>1, <2>1, ArgsAssumption, ResolvedPath DEF Stood
  <2>3. Chosen'
    BY <1>1, <2>1, <2>2 DEF Chosen
  <2>4. sessions' \subseteq Client /\ \A d \in Client : Shown(d)'
    BY <1>14, SettledShows DEF RNFR
  <2> QED BY <1>3, <1>4, <1>14, <2>3, <2>4 DEF RNFR, PathInv
<1>15. ASSUME NEW args \in Args, RNTO(c, args) PROVE PathInv'
  <2>1. PICK to : Change(Renamed(rename[c].path, to))
    BY <1>15 DEF RNTO
  <2>2. Devices'
    BY <1>1, <2>1, RenamedType, ChangeKeeps
  <2> QED BY <1>2, <1>3, <1>15, <2>2 DEF RNTO, RenameOver, PathInv
<1>16. ASSUME NEW args \in Args, xferDir(c, args) PROVE PathInv'
  <2>1. PICK r \in IF args.parts = <<>> /\ ~args.absolute THEN {At(cwd[c])}
                   ELSE { q \in buildResolvedPath(c, args) : q.set /\ IsDirectory(q.path) } :
          \E opened \in opendir(io, r.path, OnDevice(r.path) = "dir") : Listed(c, r.path, opened)
    BY <1>16 DEF xferDir
  <2>2. PICK opened \in opendir(io, r.path, OnDevice(r.path) = "dir") : Listed(c, r.path, opened)
    BY <2>1
  <2>3. r.path \in Seq(Name)
    <3>1. CASE args.parts = <<>> /\ ~args.absolute
      BY <1>1, <2>1, <3>1 DEF Stood, At
    <3>2. CASE ~(args.parts = <<>> /\ ~args.absolute)
      <4>1. r \in buildResolvedPath(c, args) /\ r.set
        BY <2>1, <3>2
      <4> QED BY <1>1, <4>1, ArgsAssumption, ResolvedPath
    <3> QED BY <3>1, <3>2
  <2>4. opened.handle \in Handle
    BY <2>2 DEF opendir
  <2>5. /\ dir' = [dir EXCEPT ![c] = [handle |-> opened.handle, path |-> r.path]]
        /\ shown' = [shown EXCEPT ![c] = <<>>] /\ complete' = [complete EXCEPT ![c] = Nowhere]
        /\ Forgets(c) /\ UNCHANGED <<tree, sessions, cwd, meantCwd, gone>>
    BY <2>2 DEF Listed
  <2>6. ASSUME NEW d \in Client PROVE Shown(d)'
    <3>1. CASE d = c
      <4>1. /\ dir'[d] = [handle |-> opened.handle, path |-> r.path]
            /\ shown'[d] = <<>> /\ complete'[d] = Nowhere
        BY <2>5, <3>1 DEF ListInv, Shapes
      <4> QED BY <2>3, <2>4, <4>1, NothingTried DEF Shown
    <3>2. CASE d # c
      <4>1. dir'[d] = dir[d] /\ shown'[d] = shown[d] /\ complete'[d] = complete[d]
        BY <2>5, <3>2 DEF ListInv, Shapes
      <4> QED BY <4>1 DEF PathInv, Shown
    <3> QED BY <3>1, <3>2
  <2> QED BY <1>1, <1>3, <1>4, <2>5, <2>6, ForgetsKeeps DEF PathInv
<1> QED BY <1>6, <1>7, <1>8, <1>9, <1>10, <1>11, <1>12, <1>13, <1>14, <1>15, <1>16 DEF Command

LEMMA ListingPaths ==
  ASSUME ListInv, PathInv, NEW c \in Client, listTransfer(c)
  PROVE  PathInv'
<1>1. /\ Stood' /\ Chosen' /\ Devices' /\ sessions' \subseteq Client
      /\ sessions' = sessions
  BY DEF PathInv, Stood, Chosen, Devices, listTransfer, history
<1>2. ASSUME NEW d \in Client PROVE Shown(d)
  BY DEF PathInv
<1>3. ASSUME NEW all \in Tried, CloseDir(c, all), shown' = shown, NEW d \in Client
      PROVE  Shown(d)'
  <2>1. /\ dir'[d] = IF d = c THEN NoHandle ELSE dir[d]
        /\ complete'[d] = IF d = c THEN all ELSE complete[d]
    BY <1>3 DEF CloseDir, ListInv, Shapes
  <2> QED BY <1>2, <1>3, <2>1, NothingTried DEF Shown, NoHandle
<1>4. ASSUME listEntry(c), NEW d \in Client PROVE Shown(d)'
  <2> DEFINE a == dir[c].handle
             name == Entry(io, a)
  <2>1. io.virtual[a] \in VirtualDirectory /\ MoreToRead(io, a)
    BY <1>4 DEF ListInv, Shapes, States, Handles, listEntry, Sending, IsVirtual
  <2>2. name \in Name \cup Dots
    <3>1. /\ io.virtual[a].names \in Seq(Name \cup Dots) /\ io.virtual[a].next \in Nat
          /\ io.virtual[a].next <= Len(io.virtual[a].names)
      BY <2>1 DEF VirtualDirectory, MoreToRead
    <3>2. name = io.virtual[a].names[io.virtual[a].next]
      BY DEF Entry
    <3>3. io.virtual[a].next # 0
      <4>1. dir[c] # NoHandle /\ IsVirtual(c)
        BY <1>4 DEF listEntry, Sending
      <4>2. Listing(c)
        BY DEF ListInv
      <4>3. io.virtual[a].next \in 1..Len(io.table[dir[c].path]) + 3
        BY <4>1, <4>2, SMTT(60) DEF Listing, Progress
      <4> QED BY <4>3
    <3> QED BY <3>1, <3>2, <3>3, ElementOfSeq
  <2>3. /\ dir' = dir /\ complete' = complete
        /\ shown' = [shown EXCEPT ![c] = IF name \in Dots THEN @ ELSE Append(@, name)]
    BY <1>4 DEF listEntry
  <2> HIDE DEF name
  <2>4. shown'[d] \in Seq(Name)
    <3>1. CASE d = c
      <4>1. shown[c] \in Seq(Name)
        BY <1>2 DEF Shown
      <4>2. name \notin Dots => Append(shown[c], name) \in Seq(Name)
        BY <2>2, <4>1, AppendProperties
      <4>3. shown'[c] = IF name \in Dots THEN shown[c] ELSE Append(shown[c], name)
        BY <2>3 DEF ListInv, Shapes
      <4> QED BY <3>1, <4>1, <4>2, <4>3
    <3>2. CASE d # c
      BY <1>2, <2>3, <3>2 DEF ListInv, Shapes, Shown
    <3> QED BY <3>1, <3>2
  <2> QED BY <1>2, <2>3, <2>4 DEF Shown
<1>5. CASE listEnd(c)
  <2> DEFINE all == IF IsVirtual(c) THEN At(dir[c].path) ELSE Nowhere
  <2>1. CloseDir(c, all) /\ shown' = shown
    BY <1>5 DEF listEnd
  <2>2. all \in Tried
    BY <1>2, NothingTried DEF Shown, At, Tried
  <2> HIDE DEF all
  <2> QED BY <1>1, <1>3, <2>1, <2>2 DEF PathInv
<1>6. CASE listFails(c)
  BY <1>1, <1>3, <1>6, NothingTried DEF listFails, PathInv
<1>7. CASE listEntry(c)
  BY <1>1, <1>4, <1>7 DEF PathInv
<1> QED BY <1>5, <1>6, <1>7 DEF listTransfer

LEMMA DestroyPaths ==
  ASSUME ListInv, PathInv, NEW c \in Client, Destroy(c)
  PROVE  PathInv'
<1>1. Stood' /\ Chosen' /\ Devices'
  <2>1. Chosen'
    BY ForgetsKeeps DEF PathInv, Destroy
  <2>2. Stood' /\ Devices'
    BY NothingTried DEF PathInv, Stood, Devices, Destroy
  <2> QED BY <2>1, <2>2
<1>2. ASSUME NEW d \in Client PROVE Shown(d)'
  <2>1. /\ dir'[d] = IF d = c THEN NoHandle ELSE dir[d]
        /\ shown'[d] = IF d = c THEN <<>> ELSE shown[d]
        /\ complete'[d] = IF d = c THEN Nowhere ELSE complete[d]
    BY DEF Destroy, CloseDir, ListInv, Shapes
  <2> QED BY <2>1, NothingTried DEF PathInv, Shown, NoHandle
<1> QED BY <1>1, <1>2 DEF PathInv, Destroy

LEMMA PathInvNext == ListInv /\ PathInv /\ [Next]_vars => PathInv'
<1> SUFFICES ASSUME ListInv, PathInv, [Next]_vars PROVE PathInv'
  OBVIOUS
<1>1. ASSUME NEW c \in Client, Connect(c) PROVE PathInv'
  BY <1>1 DEF PathInv, Stood, Chosen, Devices, Shown, Connect, listings, history
<1>2. ASSUME NEW t \in Tables, Restart(t) PROVE PathInv'
  BY <1>2 DEF PathInv, Stood, Chosen, Devices, Shown, Restart, history
<1>3. CASE UNCHANGED vars
  BY <1>3 DEF PathInv, Stood, Chosen, Devices, Shown, vars, listings, history
<1> QED BY <1>1, <1>2, <1>3, CommandPaths, ListingPaths, DestroyPaths DEF Next

LEMMA PathInvHolds == Spec => []PathInv
BY PathInvInit, PathInvNext, ListInvHolds, PTL DEF Spec

(* Paths stay paths, handles handles, and what is shown names, whatever is listed,   *)
(* renamed and taken away (Files).                                                   *)
THEOREM FilesTypes == Spec => []TypeOK
<1>1. ListInv /\ PathInv => TypeOK
  <2> SUFFICES ASSUME ListInv, PathInv PROVE TypeOK
    OBVIOUS
  <2>1. io.virtual \in [Handle -> VirtualDirectory \cup {None}] /\ io.real \subseteq Handle
    BY DEF ListInv, Shapes, States
  <2>2. ASSUME NEW c \in Client
        PROVE  /\ cwd[c] \in Seq(Name)
               /\ rename[c] \in [path : Seq(Name), set : BOOLEAN]
               /\ dir[c] # NoHandle => c \in sessions
               /\ dir[c] \in [handle : Handle \cup {None}, path : Seq(Name)]
               /\ shown[c] \in Seq(Name)
               /\ complete[c] \in [path : Seq(Name), set : BOOLEAN]
    BY DEF ListInv, Handles, PathInv, Stood, Chosen, Shown, Tried
  <2> QED BY <2>1, <2>2 DEF TypeOK, PathInv, Devices
<1> QED BY <1>1, ListInvHolds, PathInvHolds, PTL

(* Working directories and renames are about what the client's text means, however  *)
(* many commands with dots and slashes led there, and CDUP among them (Collapsed).   *)
THEOREM PathsFollowed == Spec => []PathsAsMeant
<1>1. PathInv => PathsAsMeant
  BY DEF PathInv, Stood, Chosen, PathsAsMeant
<1> QED BY <1>1, PathInvHolds, PTL

-----------------------------------------------------------------------------
(* Below, and the paths above.                                              *)

LEMMA BelowMeans ==
  ASSUME NEW p \in Seq(Name), NEW q \in Seq(Name)
  PROVE  Below(p, q) <=> Len(q) <= Len(p) /\ \A i \in 1..Len(q) : p[i] = q[i]
<1>1. Len(p) \in Nat /\ Len(q) \in Nat
  BY LenProperties
<1>2. ASSUME Len(q) <= Len(p)
      PROVE  SubSeq(p, 1, Len(q)) = q <=> \A i \in 1..Len(q) : p[i] = q[i]
  <2> DEFINE s == SubSeq(p, 1, Len(q))
  <2>1. s \in Seq(Name) /\ Len(s) = Len(q) /\ \A i \in 1..Len(q) : s[i] = p[i]
    BY <1>1, <1>2
  <2> HIDE DEF s
  <2>2. (\A i \in 1..Len(q) : p[i] = q[i]) => s = q
    BY <2>1, SeqEqual
  <2>3. s = q => \A i \in 1..Len(q) : p[i] = q[i]
    BY <2>1
  <2> QED BY <2>2, <2>3 DEF s
<1> QED BY <1>2 DEF Below

LEMMA BelowItself ==
  ASSUME NEW p \in Seq(Name)
  PROVE  Below(p, p) /\ Below(p, <<>>)
<1>1. <<>> \in Seq(Name) /\ Len(<<>>) = 0 /\ Len(p) \in Nat
  BY EmptySeq, LenProperties
<1>2. Below(p, p)
  BY <1>1, BelowMeans
<1>3. Len(<<>>) <= Len(p) /\ \A i \in 1..Len(<<>>) : p[i] = <<>>[i]
  BY <1>1
<1>4. Below(p, <<>>)
  BY <1>1, <1>3, BelowMeans
<1> QED BY <1>2, <1>4

LEMMA BelowBelow ==
  ASSUME NEW p \in Seq(Name), NEW q \in Seq(Name), NEW r \in Seq(Name), Below(p, q), Below(q, r)
  PROVE  Below(p, r)
<1>1. Len(p) \in Nat /\ Len(q) \in Nat /\ Len(r) \in Nat
  BY LenProperties
<1>2. Len(q) <= Len(p) /\ (\A i \in 1..Len(q) : p[i] = q[i])
      /\ Len(r) <= Len(q) /\ \A i \in 1..Len(r) : q[i] = r[i]
  BY BelowMeans
<1>3. \A i \in 1..Len(r) : i \in 1..Len(q)
  BY <1>1, <1>2
<1>4. Len(r) <= Len(p) /\ \A i \in 1..Len(r) : p[i] = r[i]
  BY <1>1, <1>2, <1>3
<1> QED BY <1>4, BelowMeans

LEMMA BelowEachOther ==
  ASSUME NEW p \in Seq(Name), NEW q \in Seq(Name), Below(p, q), Below(q, p)
  PROVE  p = q
<1>1. Len(p) \in Nat /\ Len(q) \in Nat
  BY LenProperties
<1>2. Len(p) = Len(q) /\ \A i \in 1..Len(q) : p[i] = q[i]
  BY <1>1, BelowMeans
<1> QED BY <1>2, SeqEqual

LEMMA ParentBelow ==
  ASSUME NEW p \in Seq(Name), NEW q \in Seq(Name)
  PROVE  /\ parent(p) \in Seq(Name) /\ Below(p, parent(p))
         /\ Below(p, q) /\ p # q => Below(parent(p), q)
         /\ Below(parent(p), q) => Below(p, q)
         /\ p # <<>> => ~Below(parent(p), p)
<1>1. /\ parent(p) \in Seq(Name) /\ Len(p) \in Nat /\ Len(q) \in Nat
      /\ p = <<>> => parent(p) = <<>>
      /\ p # <<>> => Len(parent(p)) = Len(p) - 1 /\ Len(p) > 0
      /\ \A i \in 1..Len(p) - 1 : parent(p)[i] = p[i]
  BY ParentProperties, LenProperties
<1>2. Below(p, parent(p))
  <2>1. CASE p = <<>>
    BY <1>1, <2>1, BelowItself
  <2>2. CASE p # <<>>
    <3>1. Len(parent(p)) <= Len(p) /\ \A i \in 1..Len(parent(p)) : p[i] = parent(p)[i]
      BY <1>1, <2>2
    <3> QED BY <1>1, <3>1, BelowMeans
  <2> QED BY <2>1, <2>2
<1>3. ASSUME Below(p, q), p # q PROVE Below(parent(p), q)
  <2>1. Len(q) <= Len(p) /\ \A i \in 1..Len(q) : p[i] = q[i]
    BY <1>3, BelowMeans
  <2>2. Len(q) # Len(p)
    BY <1>3, <2>1, SeqEqual
  <2>3. p # <<>>
    <3>1. p = <<>> => Len(p) = 0
      BY EmptySeq
    <3> QED BY <1>1, <2>1, <2>2, <3>1
  <2>4. Len(q) <= Len(parent(p)) /\ \A i \in 1..Len(q) : parent(p)[i] = q[i]
    <3>1. \A i \in 1..Len(q) : i \in 1..Len(p) - 1
      BY <1>1, <2>1, <2>2
    <3> QED BY <1>1, <2>1, <2>2, <2>3, <3>1
  <2> QED BY <1>1, <2>4, BelowMeans
<1>4. Below(parent(p), q) => Below(p, q)
  BY <1>1, <1>2, BelowBelow
<1>5. p # <<>> => ~Below(parent(p), p)
  BY <1>1, BelowMeans
<1> QED BY <1>1, <1>2, <1>3, <1>4, <1>5

(* What a rename moves to p was at its place below from: the parents move along. *)
WasAt(p, from, to) == from \o SubSeq(p, Len(to) + 1, Len(p))

LEMMA WasAtProperties ==
  ASSUME NEW p \in Seq(Name), NEW from \in Seq(Name), NEW to \in Seq(Name), Below(p, to)
  PROVE  /\ WasAt(p, from, to) \in Seq(Name)
         /\ Below(WasAt(p, from, to), from)
         /\ p = to => WasAt(p, from, to) = from
         /\ p # to => WasAt(parent(p), from, to) = parent(WasAt(p, from, to))
<1> DEFINE s == SubSeq(p, Len(to) + 1, Len(p))
           w == WasAt(p, from, to)
           n == Len(from)
           k == Len(to)
           m == Len(p)
<1>1. n \in Nat /\ k \in Nat /\ m \in Nat /\ k <= m
  BY LenProperties, BelowMeans
<1>2. s \in Seq(Name) /\ Len(s) = m - k /\ \A i \in 1..m - k : s[i] = p[k + i]
  <2>1. \A i \in k + 1..m : p[i] \in Name
    BY <1>1, ElementOfSeq
  <2>2. /\ s \in Seq(Name) /\ Len(s) = IF k + 1 <= m THEN m - (k + 1) + 1 ELSE 0
        /\ \A i \in 1..m - (k + 1) + 1 : s[i] = p[(k + 1) + i - 1]
    BY <1>1, <2>1, SubSeqProperties
  <2>3. (IF k + 1 <= m THEN m - (k + 1) + 1 ELSE 0) = m - k /\ m - (k + 1) + 1 = m - k
    BY <1>1
  <2>4. \A i \in 1..m - k : (k + 1) + i - 1 = k + i
    BY <1>1
  <2> HIDE DEF s, k, m
  <2> QED BY <2>2, <2>3, <2>4
<1>3. /\ w \in Seq(Name) /\ Len(w) = n + (m - k)
      /\ \A i \in 1..n + (m - k) : w[i] = IF i <= n THEN from[i] ELSE s[i - n]
  <2>1. w = from \o s
    BY DEF WasAt
  <2> HIDE DEF w, s
  <2>2. /\ w \in Seq(Name) /\ Len(w) = n + Len(s)
        /\ \A i \in 1..n + Len(s) : w[i] = IF i <= n THEN from[i] ELSE s[i - n]
    BY <1>2, <2>1, ConcatProperties
  <2> QED BY <1>2, <2>2
<1>4. Below(w, from)
  <2>1. n <= Len(w) /\ \A i \in 1..n : w[i] = from[i]
    BY <1>1, <1>3
  <2> QED BY <1>3, <2>1, BelowMeans
<1>5. ASSUME p = to PROVE w = from
  <2>1. Len(w) = n /\ \A i \in 1..n : w[i] = from[i]
    BY <1>1, <1>3, <1>5
  <2> QED BY <1>3, <2>1, SeqEqual
<1>6. ASSUME p # to PROVE WasAt(parent(p), from, to) = parent(w)
  <2> DEFINE q == parent(p)
             t == SubSeq(q, Len(to) + 1, Len(q))
             v == WasAt(q, from, to)
  <2>1. k < m
    <3>1. k <= m /\ \A i \in 1..k : p[i] = to[i]
      BY BelowMeans
    <3>2. k # m
      BY <1>6, <3>1, SeqEqual
    <3> QED BY <1>1, <3>1, <3>2
  <2>2. q \in Seq(Name) /\ Len(q) = m - 1 /\ \A i \in 1..m - 1 : q[i] = p[i]
    <3>1. p # <<>>
      BY <1>1, <2>1, EmptySeq
    <3> QED BY <3>1, ParentProperties
  <2>3. t \in Seq(Name) /\ Len(t) = m - 1 - k /\ \A i \in 1..m - 1 - k : t[i] = s[i]
    <3>1. \A i \in k + 1..m - 1 : q[i] \in Name
      <4>1. \A i \in k + 1..m - 1 : i \in 1..m - 1 /\ i \in 1..m
        BY <1>1
      <4> QED BY <2>2, <4>1, ElementOfSeq
    <3>2. /\ t \in Seq(Name) /\ Len(t) = IF k + 1 <= m - 1 THEN m - 1 - (k + 1) + 1 ELSE 0
          /\ \A i \in 1..m - 1 - (k + 1) + 1 : t[i] = q[(k + 1) + i - 1]
      BY <1>1, <2>2, <3>1, SubSeqProperties
    <3>3. /\ (IF k + 1 <= m - 1 THEN m - 1 - (k + 1) + 1 ELSE 0) = m - 1 - k
          /\ m - 1 - (k + 1) + 1 = m - 1 - k
      BY <1>1, <2>1
    <3>4. \A i \in 1..m - 1 - k : /\ (k + 1) + i - 1 = k + i /\ k + i \in 1..m - 1
                                  /\ i \in 1..m - k
      BY <1>1
    <3> HIDE DEF t, q, s, k, m
    <3> QED BY <1>2, <2>2, <3>2, <3>3, <3>4
  <2>4. /\ v \in Seq(Name) /\ Len(v) = n + (m - 1 - k)
        /\ \A i \in 1..n + (m - 1 - k) : v[i] = IF i <= n THEN from[i] ELSE t[i - n]
    <3>1. v = from \o t
      BY DEF WasAt
    <3> HIDE DEF v, t, q, k, m
    <3>2. /\ v \in Seq(Name) /\ Len(v) = n + Len(t)
          /\ \A i \in 1..n + Len(t) : v[i] = IF i <= n THEN from[i] ELSE t[i - n]
      BY <2>3, <3>1, ConcatProperties
    <3> QED BY <2>3, <3>2
  <2>5. /\ parent(w) \in Seq(Name) /\ Len(parent(w)) = n + (m - k) - 1
        /\ \A i \in 1..n + (m - k) - 1 : parent(w)[i] = w[i]
    <3>1. w # <<>>
      BY <1>1, <1>3, <2>1, EmptySeq
    <3>2. w \in Seq(Name)
      BY <1>3
    <3> HIDE DEF w, n, k, m
    <3>3. /\ parent(w) \in Seq(Name) /\ Len(parent(w)) = Len(w) - 1
          /\ \A i \in 1..Len(w) - 1 : parent(w)[i] = w[i]
      BY <3>1, <3>2, ParentProperties
    <3>4. Len(w) - 1 = n + (m - k) - 1
      BY <1>1, <1>3
    <3> QED BY <3>3, <3>4
  <2> HIDE DEF v, w, t, s, q, n, k, m
  <2>6. n + (m - 1 - k) = n + (m - k) - 1
    BY <1>1
  <2>7. ASSUME NEW i \in 1..n + (m - k) - 1 PROVE v[i] = parent(w)[i]
    <3>1. i \in 1..n + (m - k) /\ i \in 1..n + (m - 1 - k) /\ (~(i <= n) => i - n \in 1..m - 1 - k)
      BY <1>1
    <3> QED BY <1>3, <2>3, <2>4, <2>5, <3>1
  <2>8. v = parent(w)
    BY <2>4, <2>5, <2>6, <2>7, SeqEqual
  <2> QED BY <2>8 DEF v, q
<1> QED BY <1>3, <1>4, <1>5, <1>6

-----------------------------------------------------------------------------
(* What the devices have, what was taken away, and where clients stand.     *)

(* The roots of the devices stay, and everything else is in a directory. *)
Rooted(t) == /\ \A v \in Volumes : t[v] = "dir"
             /\ \A p \in Places \ Volumes : t[p] # "none" => t[parent(p)] = "dir"

(* A directory that was taken away was in one that is there, or was taken away as well. *)
Left(p) == p \notin Volumes /\ (tree[parent(p)] = "dir" \/ parent(p) \in gone)

Standing == { path \in Seq(Name) :
                \/ IsDirectory(path) \/ path \in gone
                \/ DOMAIN io.table = {} /\ \E v \in Volumes : Below(v, path) }

(* Inductive beside ListInv and PathInv: a step up from where a client stands is again a *)
(* place to stand in.                                                                    *)
TreeInv == /\ Rooted(tree) /\ \A p \in gone : Left(p)
           /\ \A c \in Client : IF c \in sessions THEN cwd[c] \in Standing ELSE cwd[c] = <<>>

LEMMA VolumePlaces ==
  /\ Volumes \subseteq Places /\ \A p \in Places : p \in Seq(Name)
  /\ \A v \in Volumes, p \in Places \ Volumes : ~Below(v, p)
<1>1. Volumes \subseteq Places /\ \A p \in Places : p \in Seq(Name)
  BY PlacesAssumption
<1>2. ASSUME NEW v \in Volumes, NEW p \in Places \ Volumes, Below(v, p) PROVE FALSE
  <2>1. PICK w \in Volumes : Below(p, w)
    BY DevicesAssumption
  <2>2. v = w
    BY <1>1, <1>2, <2>1, BelowBelow, DevicesAssumption
  <2>3. v = p
    BY <1>1, <1>2, <2>1, <2>2, BelowEachOther
  <2> QED BY <1>2, <2>3
<1> QED BY <1>1, <1>2

(* Where the table is filled, it has the path above each of its own and above each device. *)
LEMMA TableDirectory ==
  ASSUME ListInv, Rooted(tree), NEW path \in DOMAIN io.table
  PROVE  IsDirectory(path)
<1>1. io.table \in Tables /\ DOMAIN io.table # {}
  BY DEF ListInv, Shapes, States
<1>2. path \in Places => tree[path] = "dir"
  BY <1>1, AboveAssumption DEF Rooted
<1> QED BY <1>2 DEF IsDirectory, stat, OnDevice

LEMMA RootStands ==
  ASSUME ListInv, Rooted(tree)
  PROVE  <<>> \in Standing
<1>1. io.table \in Tables
  BY DEF ListInv, Shapes, States
<1>2. CASE DOMAIN io.table = {}
  <2>1. \E v \in Volumes : Below(v, <<>>)
    BY DevicesAssumption, VolumePlaces, BelowItself
  <2> QED BY <1>2, <2>1 DEF Standing
<1>3. CASE DOMAIN io.table # {}
  <2>1. <<>> \in DOMAIN io.table
    BY <1>1, <1>3, AboveAssumption
  <2> QED BY <2>1, TableDirectory DEF Standing
<1> QED BY <1>2, <1>3

LEMMA ParentStands ==
  ASSUME ListInv, PathInv, TreeInv, NEW path \in Standing
  PROVE  parent(path) \in Standing
<1>1. io.table \in Tables
  BY DEF ListInv, Shapes, States
<1>2. Rooted(tree) /\ path \in Seq(Name) /\ parent(path) \in Seq(Name)
  BY ParentPath DEF TreeInv, Standing
<1>3. ASSUME path \in Places \ Volumes, tree[parent(path)] = "dir" PROVE parent(path) \in Standing
  <2>1. parent(path) \in Places
    BY <1>3, DevicesAssumption
  <2> QED BY <1>2, <1>3, <2>1 DEF Standing, IsDirectory, stat, OnDevice
<1>4. ASSUME path \in DOMAIN io.table \cup Volumes, DOMAIN io.table # {}
      PROVE  parent(path) \in Standing
  <2>1. parent(path) \in DOMAIN io.table
    BY <1>1, <1>4, AboveAssumption
  <2> QED BY <1>2, <2>1, TableDirectory DEF Standing
<1>5. ASSUME DOMAIN io.table = {}, \E v \in Volumes : Below(v, path)
      PROVE  parent(path) \in Standing
  <2>1. PICK v \in Volumes : Below(v, path)
    BY <1>5
  <2>2. v \in Seq(Name) /\ parent(path) \in Seq(Name) /\ Below(path, parent(path))
    BY <1>2, VolumePlaces, ParentBelow
  <2>3. Below(v, parent(path))
    BY <1>2, <2>1, <2>2, BelowBelow
  <2> QED BY <1>2, <1>5, <2>3 DEF Standing
<1>6. CASE path \in gone
  <2>1. path \in Places \ Volumes /\ (tree[parent(path)] = "dir" \/ parent(path) \in gone)
    BY <1>6 DEF TreeInv, Left, PathInv, Devices
  <2>2. parent(path) \in gone => parent(path) \in Standing
    BY <1>2 DEF Standing
  <2> QED BY <1>3, <2>1, <2>2
<1>7. CASE IsDirectory(path)
  <2>1. (path \in Places /\ tree[path] = "dir") \/ path \in DOMAIN io.table
    BY <1>7 DEF IsDirectory, stat, OnDevice
  <2>2. CASE path \in DOMAIN io.table
    BY <1>4, <2>2
  <2>3. CASE path \in Places \ Volumes /\ tree[path] = "dir"
    BY <1>2, <1>3, <2>3 DEF Rooted
  <2>4. CASE path \in Volumes
    <3>1. Below(path, path)
      BY <1>2, BelowItself
    <3> QED BY <1>4, <1>5, <2>4, <3>1
  <2> QED BY <2>1, <2>2, <2>3, <2>4
<1> QED BY <1>5, <1>6, <1>7 DEF Standing

(* A change of the devices that keeps them rooted takes nobody's place away unseen. *)
LEMMA ChangeStands ==
  ASSUME ListInv, PathInv, TreeInv, NEW t \in [Places -> {"none", "file", "dir"}],
         Rooted(t), Change(t), io' = io
  PROVE  /\ Rooted(tree)' /\ \A p \in gone' : Left(p)'
         /\ Standing \subseteq Standing'
<1>1. /\ tree' = t
      /\ gone' = (gone \cup { p \in Places : tree[p] = "dir" /\ t[p] # "dir" })
                   \ { p \in Places : t[p] = "dir" }
  BY DEF Change
<1>2. gone \subseteq Places /\ Rooted(tree) /\ \A p \in gone : Left(p)
  BY DEF PathInv, Devices, TreeInv
<1>3. Rooted(tree)'
  BY <1>1 DEF Rooted
<1>4. ASSUME NEW p \in gone' PROVE Left(p)'
  <2>1. p \in Places /\ t[p] # "dir" /\ (p \in gone \/ tree[p] = "dir")
    BY <1>1, <1>2
  <2>2. p \notin Volumes
    BY <2>1 DEF Rooted
  <2>3. parent(p) \in Places
    BY <2>1, <2>2, DevicesAssumption
  <2>4. tree[parent(p)] = "dir" \/ parent(p) \in gone
    BY <1>2, <2>1, <2>2 DEF Rooted, Left
  <2>5. t[parent(p)] = "dir" \/ parent(p) \in gone'
    BY <1>1, <2>3, <2>4
  <2> QED BY <1>1, <2>2, <2>5 DEF Left
<1>5. ASSUME NEW path \in Standing PROVE path \in Standing'
  <2>1. CASE path \in Places /\ (tree[path] = "dir" \/ path \in gone)
    <3>1. t[path] = "dir" \/ path \in gone'
      BY <1>1, <2>1
    <3> QED BY <1>1, <2>1, <3>1 DEF Standing, IsDirectory, stat, OnDevice
  <2>2. CASE path \in DOMAIN io.table
    <3>1. path \in Places => t[path] = "dir"
      <4>1. io.table \in Tables /\ DOMAIN io.table # {}
        BY <2>2 DEF ListInv, Shapes, States
      <4> QED BY <2>2, <4>1, AboveAssumption DEF Rooted
    <3> QED BY <1>1, <2>2, <3>1 DEF Standing, IsDirectory, stat, OnDevice
  <2>3. CASE DOMAIN io.table = {} /\ \E v \in Volumes : Below(v, path)
    BY <2>3 DEF Standing
  <2>4. IsDirectory(path) => (path \in Places /\ tree[path] = "dir") \/ path \in DOMAIN io.table
    BY DEF IsDirectory, stat, OnDevice
  <2> QED BY <1>2, <1>5, <2>1, <2>2, <2>3, <2>4 DEF Standing
<1> QED BY <1>3, <1>4, <1>5

LEMMA RemovedRooted ==
  ASSUME PathInv, Rooted(tree), NEW p \in Places \ Volumes, tree[p] = "file" \/ Empty(p)
  PROVE  Rooted([tree EXCEPT ![p] = "none"])
<1> DEFINE t == [tree EXCEPT ![p] = "none"]
<1>1. \A q \in Places : t[q] = IF q = p THEN "none" ELSE tree[q]
  BY DEF PathInv, Devices
<1>2. Volumes \subseteq Places
  BY VolumePlaces
<1>3. ASSUME NEW q \in Places \ Volumes, t[q] # "none" PROVE t[parent(q)] = "dir"
  <2>1. q # p /\ tree[q] # "none" /\ tree[parent(q)] = "dir" /\ parent(q) \in Places
    BY <1>1, <1>3, DevicesAssumption DEF Rooted
  <2>2. parent(q) # p
    <3>1. CASE tree[p] = "file"
      BY <2>1, <3>1
    <3>2. CASE Empty(p)
      <4>1. ~Below(q, p)
        BY <2>1, <3>2 DEF Empty
      <4>2. Below(q, parent(q))
        BY VolumePlaces, ParentBelow
      <4> QED BY <4>1, <4>2
    <3> QED BY <3>1, <3>2
  <2> QED BY <1>1, <2>1, <2>2
<1> HIDE DEF t
<1>4. \A v \in Volumes : t[v] = "dir"
  BY <1>1, <1>2 DEF Rooted
<1> QED BY <1>3, <1>4 DEF Rooted, t

LEMMA AddedRooted ==
  ASSUME PathInv, Rooted(tree), NEW p, Room(p), NEW k \in {"file", "dir"}
  PROVE  Rooted([tree EXCEPT ![p] = k])
<1> DEFINE t == [tree EXCEPT ![p] = k]
<1>1. \A q \in Places : t[q] = IF q = p THEN k ELSE tree[q]
  BY DEF PathInv, Devices
<1>2. /\ p \in Places /\ tree[p] = "none" /\ Volumes \subseteq Places
      /\ parent(p) \in Places /\ tree[parent(p)] = "dir"
  BY VolumePlaces DEF Room, OnDevice
<1>3. ASSUME NEW q \in Places \ Volumes, t[q] # "none" PROVE t[parent(q)] = "dir"
  <2>1. tree[parent(q)] = "dir" /\ parent(q) \in Places
    BY <1>1, <1>2, <1>3, DevicesAssumption DEF Rooted
  <2> QED BY <1>1, <1>2, <2>1
<1> HIDE DEF t
<1>4. \A v \in Volumes : t[v] = "dir"
  BY <1>1, <1>2 DEF Rooted
<1> QED BY <1>3, <1>4 DEF Rooted, t

(* A directory that is renamed takes along all that is in it. *)
LEMMA RenamedRooted ==
  ASSUME PathInv, Rooted(tree), NEW from \in Places \ Volumes, NEW to,
         Room(to), ~Below(to, from)
  PROVE  Rooted(Renamed(from, to))
<1> DEFINE t == Renamed(from, to)
<1>1. /\ to \in Places \ Volumes /\ tree[to] = "none" /\ to # <<>>
      /\ parent(to) \in Places /\ tree[parent(to)] = "dir"
  BY DEF Room, OnDevice, Rooted
<1>2. /\ Volumes \subseteq Places /\ \A p \in Places : p \in Seq(Name)
      /\ from \in Seq(Name) /\ to \in Seq(Name)
  BY <1>1, VolumePlaces
<1>3. ASSUME NEW p \in Places
      PROVE  t[p] = IF Below(p, to)
                    THEN IF WasAt(p, from, to) \in Places THEN tree[WasAt(p, from, to)] ELSE "none"
                    ELSE IF Below(p, from) THEN "none" ELSE tree[p]
  BY DEF Renamed, WasAt
<1> HIDE DEF t
<1>4. ASSUME NEW v \in Volumes PROVE t[v] = "dir"
  <2>1. ~Below(v, to) /\ ~Below(v, from)
    BY <1>1, VolumePlaces
  <2> QED BY <1>2, <1>3, <2>1 DEF Rooted
<1>5. ASSUME NEW p \in Places \ Volumes, t[p] # "none" PROVE t[parent(p)] = "dir"
  <2>1. parent(p) \in Places /\ p \in Seq(Name) /\ parent(p) \in Seq(Name)
    BY <1>2, DevicesAssumption
  <2>2. CASE p = to
    <3>1. ~Below(parent(to), to)
      BY <1>1, <1>2, ParentBelow
    <3>2. ~Below(parent(to), from)
      BY <1>2, ParentBelow
    <3> QED BY <1>1, <1>3, <2>2, <3>1, <3>2
  <2>3. CASE Below(p, to) /\ p # to
    <3> DEFINE was == WasAt(p, from, to)
    <3>1. was \in Places /\ tree[was] # "none" /\ was \in Seq(Name)
      BY <1>3, <1>5, <2>3, <1>2
    <3>2. Below(was, from)
      BY <1>2, <2>1, <2>3, WasAtProperties
    <3>3. was \notin Volumes
      BY <3>2, VolumePlaces
    <3>4. tree[parent(was)] = "dir" /\ parent(was) \in Places
      BY <3>1, <3>3, DevicesAssumption DEF Rooted
    <3>5. WasAt(parent(p), from, to) = parent(was) /\ Below(parent(p), to)
      BY <1>2, <2>1, <2>3, WasAtProperties, ParentBelow
    <3> QED BY <1>3, <2>1, <3>4, <3>5
  <2>4. CASE ~Below(p, to)
    <3>1. ~Below(p, from) /\ tree[p] # "none"
      BY <1>3, <1>5, <2>4
    <3>2. ~Below(parent(p), to) /\ ~Below(parent(p), from)
      BY <1>2, <2>1, <2>4, <3>1, ParentBelow
    <3> QED BY <1>3, <2>1, <3>1, <3>2 DEF Rooted
  <2> QED BY <2>2, <2>3, <2>4
<1> QED BY <1>4, <1>5 DEF Rooted, t

(* The devices, and everyone else, when a command has changed something or nothing. *)
LEMMA TreeKept ==
  ASSUME TreeInv, UNCHANGED <<tree, gone>>, io'.table = io.table
  PROVE  /\ Rooted(tree)' /\ \A p \in gone' : Left(p)'
         /\ Standing \subseteq Standing'
BY DEF TreeInv, Rooted, Left, Standing, IsDirectory, stat, OnDevice

LEMMA CommandTree ==
  ASSUME ListInv, PathInv, TreeInv, NEW c \in Client, Command(c)
  PROVE  TreeInv'
<1> DEFINE Fine == /\ Rooted(tree)' /\ \A p \in gone' : Left(p)'
                   /\ Standing \subseteq Standing'
           Moved(path) == cwd' = [cwd EXCEPT ![c] = path]
<1>1. Rooted(tree) /\ c \in sessions
  BY DEF TreeInv, Command, CDUP, RNTOFails, RenameOver, Other, CWD, MKD, RMD, DELE, STOR, RNFR,
         RNTO, xferDir, Ready
<1>2. \A d \in Client : cwd[d] \in Seq(Name)
  BY DEF PathInv, Stood
<1>0. Fine => Rooted(tree)' /\ (\A p \in gone' : Left(p)') /\ Standing \subseteq Standing'
  OBVIOUS
<1> HIDE DEF Fine
<1>3. ASSUME Fine, sessions' = sessions, NEW path \in Standing, Moved(path) \/ cwd' = cwd
      PROVE  TreeInv'
  <2>1. ASSUME NEW d \in Client
        PROVE  IF d \in sessions' THEN cwd'[d] \in Standing' ELSE cwd'[d] = <<>>
    <3>1. IF d \in sessions THEN cwd[d] \in Standing ELSE cwd[d] = <<>>
      BY DEF TreeInv
    <3>2. cwd'[d] = cwd[d] \/ (d = c /\ cwd'[d] = path)
      BY <1>3 DEF PathInv, Stood
    <3> QED BY <1>0, <1>1, <1>3, <3>1, <3>2
  <2> QED BY <1>0, <1>3, <2>1 DEF TreeInv
<1>4. cwd[c] \in Standing
  BY <1>1 DEF TreeInv
<1>5. ASSUME Fine, sessions' = sessions, cwd' = cwd PROVE TreeInv'
  BY <1>3, <1>4, <1>5
<1>6. ASSUME UNCHANGED <<tree, gone>>, io'.table = io.table PROVE Fine
  BY <1>6, TreeKept DEF Fine
<1>7. ASSUME NEW t, t \in [Places -> {"none", "file", "dir"}] /\ Rooted(t), Change(t), io' = io
      PROVE  Fine
  BY <1>7, ChangeStands DEF Fine
<1>8. ASSUME NEW p, NEW k \in {"none", "file", "dir"}
      PROVE  [tree EXCEPT ![p] = k] \in [Places -> {"none", "file", "dir"}]
  BY DEF PathInv, Devices
<1>9. CASE CDUP(c)
  <2>1. parent(cwd[c]) \in Standing /\ Moved(parent(cwd[c]))
    BY <1>2, <1>4, <1>9, ParentStands DEF CDUP, Moves
  <2> QED BY <1>3, <1>6, <1>9, <2>1 DEF CDUP, Settled
<1>10. CASE Other(c) \/ RNTOFails(c)
  BY <1>5, <1>6, <1>10 DEF Other, RNTOFails, RenameOver, Settled
<1>11. ASSUME NEW args \in Args, CWD(c, args) PROVE TreeInv'
  <2>1. PICK r \in buildResolvedPath(c, args) : r.set /\ IsDirectory(r.path) /\ Moved(r.path)
    BY <1>11 DEF CWD, Moves
  <2>2. r.path \in Standing
    BY <2>1, ArgsAssumption, ResolvedPath DEF PathInv, Standing
  <2> QED BY <1>3, <1>6, <1>11, <2>1, <2>2 DEF CWD, Settled
<1>12. ASSUME NEW args \in Args, MKD(c, args) PROVE TreeInv'
  <2>1. PICK p : Room(p) /\ Change([tree EXCEPT ![p] = "dir"])
    BY <1>12 DEF MKD
  <2>2. Fine
    BY <1>1, <1>7, <1>8, <1>12, <2>1, AddedRooted DEF MKD, Settled
  <2> QED BY <1>5, <1>12, <2>2 DEF MKD, Settled
<1>13. ASSUME NEW args \in Args, STOR(c, args) PROVE TreeInv'
  <2>1. PICK p : Room(p) /\ Change([tree EXCEPT ![p] = "file"])
    BY <1>13 DEF STOR
  <2>2. Fine
    BY <1>1, <1>7, <1>8, <1>13, <2>1, AddedRooted DEF STOR, Settled
  <2> QED BY <1>5, <1>13, <2>2 DEF STOR, Settled
<1>14. ASSUME NEW args \in Args, RMD(c, args) PROVE TreeInv'
  <2>1. PICK p \in Places \ Volumes : Empty(p) /\ Change([tree EXCEPT ![p] = "none"])
    BY <1>14 DEF RMD
  <2>2. Fine
    BY <1>1, <1>7, <1>8, <1>14, <2>1, RemovedRooted DEF RMD, Settled
  <2> QED BY <1>5, <1>14, <2>2 DEF RMD, Settled
<1>15. ASSUME NEW args \in Args, DELE(c, args) PROVE TreeInv'
  <2>1. PICK p \in Places : tree[p] = "file" /\ Change([tree EXCEPT ![p] = "none"])
    BY <1>15 DEF DELE
  <2>2. p \notin Volumes
    BY <1>1, <2>1 DEF Rooted
  <2>3. Fine
    BY <1>1, <1>7, <1>8, <1>15, <2>1, <2>2, RemovedRooted DEF DELE, Settled
  <2> QED BY <1>5, <1>15, <2>3 DEF DELE, Settled
<1>16. ASSUME NEW args \in Args, RNFR(c, args) PROVE TreeInv'
  BY <1>5, <1>6, <1>16 DEF RNFR, Settled
<1>17. ASSUME NEW args \in Args, RNTO(c, args) PROVE TreeInv'
  <2>1. PICK to : /\ rename[c].path \in Places \ Volumes /\ Room(to)
                  /\ ~Below(to, rename[c].path) /\ Change(Renamed(rename[c].path, to))
    BY <1>17 DEF RNTO
  <2>2. Rooted(Renamed(rename[c].path, to))
    BY <1>1, <2>1, RenamedRooted
  <2>3. Renamed(rename[c].path, to) \in [Places -> {"none", "file", "dir"}]
    BY RenamedType DEF PathInv
  <2>4. Fine
    BY <1>7, <1>17, <2>1, <2>2, <2>3 DEF RNTO, RenameOver, Settled
  <2> QED BY <1>5, <1>17, <2>4 DEF RNTO, RenameOver, Settled
<1>18. ASSUME NEW args \in Args, xferDir(c, args) PROVE TreeInv'
  <2>1. PICK r : \E opened \in opendir(io, r.path, OnDevice(r.path) = "dir") :
                   Listed(c, r.path, opened)
    BY <1>18 DEF xferDir
  <2>2. PICK opened \in opendir(io, r.path, OnDevice(r.path) = "dir") : Listed(c, r.path, opened)
    BY <2>1
  <2>3. opened.io.table = io.table
    BY <2>2 DEF opendir, ListInv, Shapes, States
  <2> QED BY <1>5, <1>6, <2>2, <2>3 DEF Listed
<1> QED BY <1>9, <1>10, <1>11, <1>12, <1>13, <1>14, <1>15, <1>16, <1>17, <1>18 DEF Command

LEMMA TreeInvInit == Init => TreeInv
<1> SUFFICES ASSUME Init PROVE TreeInv
  OBVIOUS
<1>1. Rooted(tree)
  BY VolumePlaces DEF Init, Rooted
<1> QED BY <1>1 DEF Init, TreeInv

LEMMA TreeInvNext == ListInv /\ PathInv /\ TreeInv /\ [Next]_vars => TreeInv'
<1> SUFFICES ASSUME ListInv, PathInv, TreeInv, [Next]_vars PROVE TreeInv'
  OBVIOUS
<1>1. ASSUME NEW c \in Client, Connect(c) PROVE TreeInv'
  <2>1. <<>> \in Standing
    BY RootStands DEF TreeInv
  <2>2. UNCHANGED <<tree, gone, cwd>> /\ io' = io /\ sessions' = sessions \cup {c}
    BY <1>1 DEF Connect, history, listings
  <2> QED BY <2>1, <2>2, TreeKept DEF TreeInv
<1>2. ASSUME NEW c \in Client, listTransfer(c) PROVE TreeInv'
  <2>1. UNCHANGED <<tree, gone, cwd>> /\ sessions' = sessions
    BY <1>2 DEF listTransfer, history
  <2>2. io'.table = io.table
    BY <1>2 DEF listTransfer, listEntry, listEnd, listFails, CloseDir, closedir, readdir,
                ListInv, Shapes, States
  <2> QED BY <2>1, <2>2, TreeKept DEF TreeInv
<1>3. ASSUME NEW c \in Client, Destroy(c) PROVE TreeInv'
  <2>1. /\ UNCHANGED <<tree, gone>> /\ sessions' = sessions \ {c}
        /\ \A d \in Client : cwd'[d] = IF d = c THEN <<>> ELSE cwd[d]
    BY <1>3 DEF Destroy, PathInv, Stood
  <2>2. io'.table = io.table
    BY <1>3 DEF Destroy, CloseDir, closedir, ListInv, Shapes, States
  <2> QED BY <2>1, <2>2, TreeKept DEF TreeInv
<1>4. ASSUME NEW t \in Tables, Restart(t) PROVE TreeInv'
  <2>1. UNCHANGED <<tree, gone, cwd>> /\ sessions = {} /\ sessions' = {}
    BY <1>4 DEF Restart, history
  <2> QED BY <2>1 DEF TreeInv, Rooted, Left
<1>5. CASE UNCHANGED vars
  <2>1. UNCHANGED <<tree, gone, cwd, sessions>> /\ io' = io
    BY <1>5 DEF vars, history, listings
  <2> QED BY <2>1, TreeKept DEF TreeInv
<1> QED BY <1>1, <1>2, <1>3, <1>4, <1>5, CommandTree DEF Next

LEMMA TreeInvHolds == Spec => []TreeInv
BY TreeInvInit, TreeInvNext, ListInvHolds, PathInvHolds, PTL DEF Spec

(* Whoever makes, removes and renames what others stand in or above it, and although CDUP *)
(* never looks: a client is in a directory, in one that was taken away, or has no table.  *)
THEOREM DirectoriesStoodIn == Spec => []CwdIsDirectory
<1>1. PathInv /\ TreeInv => CwdIsDirectory
  BY DEF PathInv, TreeInv, CwdIsDirectory, Standing
<1> QED BY <1>1, PathInvHolds, TreeInvHolds, PTL

=============================================================================
