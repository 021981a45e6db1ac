----------------------------- MODULE MCTransfer -----------------------------
(***************************************************************************)
(* Instances of Transfer: a 5-bit uint64_t and a 4-bit long.                *)
(***************************************************************************)
EXTENDS Transfer

\* No offset, one behind the end, one that is negative as a long, one that
\* comes out small, two that overflow, one that is not a number.
MCOffsets == {<<>>, <<0, 5>>, <<1, 2>>, <<1, 7>>, <<3, 3>>, <<4, 0>>, <<1, 10>>}

MCContents == {<<1, 2, 3>>}

=============================================================================
