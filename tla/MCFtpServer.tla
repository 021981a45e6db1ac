---------------------------- MODULE MCFtpServer ----------------------------
(* FtpServer for TLC: two sessions, and two of the eight volumes, so that   *)
(* one mount can fail while the other succeeds.                             *)
EXTENDS FtpServer

MCVolumes == {"slccmpt01", "storage_mlc"}

=============================================================================
