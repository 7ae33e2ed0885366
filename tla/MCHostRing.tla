---------------------------- MODULE MCHostRing ----------------------------
(* Instance of HostRing for TLC. *)
EXTENDS HostRing
=============================================================================
