----------------------------- MODULE MCHostSync -----------------------------
(* Model-checking instances of HostSync. *)
EXTENDS HostSync
=============================================================================
