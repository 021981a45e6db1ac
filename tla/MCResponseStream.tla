-------------------------- MODULE MCResponseStream --------------------------
(* Two byte values and a NUL, replies that fill a buffer of four exactly,   *)
(* with room to spare, and not at all.                                      *)
EXTENDS ResponseStream

MCReplies == {<<1>>, <<1, 2>>, <<2, 1, 1>>}

=============================================================================
