----------------------------- MODULE MCVMSched ------------------------------
(* Model-checking instance of VMSched. *)
EXTENDS VMSched
=============================================================================
