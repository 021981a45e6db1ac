------------------------------- MODULE MCMdns -------------------------------
(* Mdns for TLC: the default name, one with a dot and one too long to send. *)
EXTENDS Mdns
=============================================================================
