------------------------------- MODULE Paths -------------------------------
(***************************************************************************)
(* Paths, from what a client writes to what a device is asked for.  A path  *)
(* is the sequence of its components, the root the empty one; a text also   *)
(* has "." and ".." in it and may end with a slash.  Runs of slashes are    *)
(* one, and no name has a colon (convertPath leaves paths that have one).   *)
(***************************************************************************)
EXTENDS Integers, Sequences, FiniteSets

CONSTANT Name      \* the names of files and directories

Dots == {".", ".."}

ASSUME NameAssumption == Name \cap Dots = {}

Arguments == [absolute : BOOLEAN, parts : Seq(Name \cup Dots), slash : BOOLEAN]

parent(path) == SubSeq(path, 1, Len(path) - 1)

Below(path, top) == Len(top) <= Len(path) /\ SubSeq(path, 1, Len(top)) = top

\* A relative argument is put behind the slash after cwd; the root has no second one.
buildPath(cwd, args) ==
  LET parts == IF args.absolute THEN args.parts ELSE cwd \o args.parts
      slash == args.slash \/ (~args.absolute /\ args.parts = <<>>)
  IN  [parts |-> parts, slash |-> slash /\ parts # <<>>]

\* What is before the last slash, also if that is the last character.
dirName(text) == IF text.slash \/ text.parts = <<>> THEN text.parts ELSE parent(text.parts)

\* Mutant: ".." removes itself only.
CollapsedAlone(parts) ==
  LET upTo[n \in 0..Len(parts)] ==
        IF n = 0 THEN <<>>
        ELSE IF parts[n] \in Dots THEN upTo[n - 1] ELSE Append(upTo[n - 1], parts[n])
  IN  upTo[Len(parts)]

\* The loop that collapses . and ..: what it leaves of the first n components.
Collapsed(parts) ==
  LET upTo[n \in 0..Len(parts)] ==
        IF n = 0 THEN <<>>
        ELSE CASE parts[n] = "."  -> upTo[n - 1]
               [] parts[n] = ".." -> IF upTo[n - 1] = <<>> THEN <<>> ELSE parent(upTo[n - 1])
               [] OTHER           -> Append(upTo[n - 1], parts[n])
  IN  upTo[Len(parts)]

-----------------------------------------------------------------------------
\* The reference: the names no ".." takes back, in their order.  One does when some stretch
\* behind the name goes up more often than down.

Stays(parts, i) ==
  /\ parts[i] \notin Dots
  /\ \A j \in i..Len(parts) :
       Cardinality({ k \in i + 1..j : parts[k] = ".." })
         <= Cardinality({ k \in i + 1..j : parts[k] \notin Dots })

Meant(cwd, args) ==
  LET parts == IF args.absolute THEN args.parts ELSE cwd \o args.parts
      stay  == { i \in DOMAIN parts : Stays(parts, i) }
      rank(i) == Cardinality({ k \in stay : k <= i })
  IN  [n \in 1..Cardinality(stay) |-> parts[CHOOSE i \in stay : rank(i) = n]]

=============================================================================
