----------------------------- MODULE Rendezvous -----------------------------
(***************************************************************************)
(* The host primitive every blocking operation of the emulator ends in:    *)
(* rendezvous(tag, value) of emu/os-Linux.c.  The first caller on a tag    *)
(* leaves an entry in the hash table ht and waits on its condition         *)
(* variable; the second finds the entry, clears its tag and both go on.    *)
(* The emulator always uses the address of a Proc as the tag and never     *)
(* looks at the value, so a tag is a process and the value is left out.    *)
(***************************************************************************)

CONSTANTS
  Procs,        \* kernel processes (host threads) of the emulator
  NoProc        \* the nil Proc pointer

VARIABLES
  ht,           \* ht[tag]: the process whose entry waits under tag, or NoProc
  pc            \* where each process is; the modules above name the places

ASSUME NoProcAssumption == NoProc \notin Procs

RendezvousTypeOK == ht \in [Procs -> Procs \union {NoProc}]

RendezvousInit == ht = [t \in Procs |-> NoProc]

(***************************************************************************)
(* The table after u called rendezvous(tag): u waits under the tag if      *)
(* nobody does, otherwise the process waiting there is let go.             *)
(***************************************************************************)
Met(h, u, tag) == [h EXCEPT ![tag] = IF @ = NoProc THEN u ELSE NoProc]

Meet(u, tag) == ht' = Met(ht, u, tag)

(* u is not inside a rendezvous that waits for its partner. *)
Running(u) == \A t \in Procs : ht[t] # u

(* A process that is not inside a rendezvous goes on. *)
Move(p, from, to) ==
  /\ Running(p)
  /\ pc[p] = from
  /\ pc' = [pc EXCEPT ![p] = to]
=============================================================================
