-------------------------------- MODULE Pipe --------------------------------
(***************************************************************************)
(* What a connection that sends through a buffer promises: the bytes        *)
(* accepted are delivered in order, none lost, none twice, until it breaks. *)
(***************************************************************************)
EXTENDS Integers, Sequences

CONSTANT Chunks     \* what may be handed over at once, nothing included

VARIABLES accepted,     \* all bytes handed over
          pending,      \* those not delivered yet
          delivered,    \* those delivered
          up            \* the connection has not broken

vars == <<accepted, pending, delivered, up>>

Init == accepted = <<>> /\ pending = <<>> /\ delivered = <<>> /\ up = TRUE

\* Bytes are accepted, and some of what is pending is delivered.
Carry(s, n) ==
  LET all == pending \o s
  IN  /\ accepted' = accepted \o s
      /\ delivered' = delivered \o SubSeq(all, 1, n)
      /\ pending' = SubSeq(all, n + 1, Len(all))

Next == /\ up
        /\ up' \in BOOLEAN
        /\ \E s \in Chunks : \E n \in 0..(Len(pending) + Len(s)) : Carry(s, n)

Spec == Init /\ [][Next]_vars

=============================================================================
