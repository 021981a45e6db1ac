---------------------------- MODULE CommandLines ----------------------------
(***************************************************************************)
(* What a session promises about the bytes a client sends on the command    *)
(* connection: complete lines are executed in order, whole and once each.   *)
(* A Telnet Synch drops what was sent before it, all of it before it counts *)
(* as handled, and what follows is ignored up to the next data mark.        *)
(***************************************************************************)
EXTENDS Integers, Sequences

CONSTANTS Byte, NUL, CR, LF, DM

VARIABLES todo,         \* bytes sent, neither executed nor dropped yet
          executed,     \* the commands executed
          waiting,      \* a Synch is being handled: no command until a data mark
          due,          \* a Synch was sent and is not handled yet
          before,       \* the bytes of todo that were sent before it
          up            \* the connection is there

vars == <<todo, executed, waiting, due, before, up>>

Init == /\ todo = <<>>
        /\ executed = <<>>
        /\ waiting = FALSE
        /\ due = FALSE
        /\ before = 0
        /\ up = TRUE

\* A line ends with LF or CR LF; a NUL in it stands for LF.
Text(line) ==
  LET n == Len(line)
      cut == IF n > 1 /\ line[n - 1] = CR THEN n - 2 ELSE n - 1
  IN  [i \in 1..cut |-> IF line[i] = NUL THEN LF ELSE line[i]]

\* x is the n-th byte of s, and not among those before.
EndsAt(s, x, n) == s[n] = x /\ \A i \in 1..(n - 1) : s[i] # x

\* The first n bytes go, none of them sent after a Synch that is not handled.
Drop(n) == /\ n <= Len(todo)
           /\ due => n <= before
           /\ todo' = SubSeq(todo, n + 1, Len(todo))
           /\ before' = IF due THEN before - n ELSE 0

Send(b) == todo' = Append(todo, b) /\ UNCHANGED <<executed, waiting, due, before>>

Synch == due' = TRUE /\ before' = Len(todo) /\ UNCHANGED <<todo, executed, waiting>>

Discard(n) == /\ due
              /\ Drop(n)
              /\ waiting' = TRUE
              /\ due' = FALSE => before' = 0
              /\ due' \in BOOLEAN
              /\ UNCHANGED executed

Resume(n) == /\ waiting
             /\ EndsAt(todo, DM, n)
             /\ Drop(n)
             /\ waiting' = FALSE
             /\ UNCHANGED <<executed, due>>

Execute(n) == /\ ~waiting
              /\ EndsAt(todo, LF, n)
              /\ Drop(n)
              /\ executed' = Append(executed, Text(SubSeq(todo, 1, n)))
              /\ UNCHANGED <<waiting, due>>

Next == /\ up' \in BOOLEAN /\ (up' => up)
        /\ \/ \E b \in Byte : Send(b)
           \/ Synch
           \/ \E n \in 0..Len(todo) : Discard(n)
           \/ \E n \in 1..Len(todo) : Resume(n) \/ Execute(n)
           \/ UNCHANGED <<todo, executed, waiting, due, before>>

Spec == Init /\ [][Next]_vars

=============================================================================
