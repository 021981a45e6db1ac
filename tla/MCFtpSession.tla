---------------------------- MODULE MCFtpSession ----------------------------
(* FtpSession for TLC: the addresses are interchangeable.                   *)
EXTENDS FtpSession, TLC

AddrSymmetry == Permutations(Addr)
=============================================================================
