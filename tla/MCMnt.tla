------------------------------- MODULE MCMnt --------------------------------
(* Processes on one mount point, for TLC. *)
EXTENDS Mnt, TLC
MCTag == 1..Cardinality(Proc)
MCCall == 0..Calls - 1
MCFlushTag == 101..(100 + MaxFlush)
=============================================================================
