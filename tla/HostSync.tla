------------------------------ MODULE HostSync ------------------------------
(***************************************************************************)
(* The locks of emu/lock.c and Sleep, Wakeup and swiproc of emu/proc.c on  *)
(* one host: both wait in rendezvous, under the address of the same Proc   *)
(* as the tag, so an entry that one leaves must never be met by the other. *)
(* A process is in one call at a time, of RWLock or of SleepWakeup, and    *)
(* goes from the calls of one to those of the other when it is outside.    *)
(***************************************************************************)
EXTENDS RWLock, SleepWakeup

hostVars == <<ht, pc, x, k, readers, l,
              cond, r_p, r_l, up_r, swipend, syscall, intwait>>

HostInit == RWInit /\ SleepInit

HostNext ==
  \/ RWNext /\ UNCHANGED <<cond, rend, swipend, sys>>
  \/ SleepNext /\ UNCHANGED <<x, k, readers, l>>

HostSpec == HostInit /\ [][HostNext]_hostVars /\ RWFairness /\ SleepFairness
=============================================================================
