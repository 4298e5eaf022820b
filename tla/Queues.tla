------------------------------- MODULE Queues -------------------------------
(***************************************************************************)
(* What the invariants of the modules with queues say of a sequence: who   *)
(* is in it, and that nobody is in it twice.                               *)
(***************************************************************************)
EXTENDS Sequences

Members(s) == {s[i] : i \in DOMAIN s}

Distinct(s) == \A i, j \in DOMAIN s : s[i] = s[j] => i = j
=============================================================================
