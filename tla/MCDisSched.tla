----------------------------- MODULE MCDisSched -----------------------------
(* Model-checking instances of DisSched. *)
EXTENDS DisSched

CONSTANTS p1, p2, p3, c1, c2, g1, g2

Alt(snd, rcv) == [snd |-> snd, rcv |-> rcv]

(***************************************************************************)
(* Each of p1 and p2 sends on one channel and receives from the other, so  *)
(* the two can meet alt to alt; p1 names its channel twice, p2 receives    *)
(* from an array with a nil and a repeated element, or makes the mistake   *)
(* altrdy reports.                                                         *)
(***************************************************************************)
Crossed == [p \in Progs |->
  CASE p = p1 -> {Alt(<<c1>>, <<<<c2>>, <<c2>>>>)}
    [] p = p2 -> {Alt(<<c2>>, <<<<H, c1, c1>>>>), Alt(<<c1>>, <<<<c1>>>>)}
    [] OTHER  -> {}]

(* The programs of this instance are among those the proofs are about. *)
ASSUME CrossedUnshared == AltsOf = Crossed => UnsharedAlts

(* Two progs receive from the same channel in an alt. *)
SharedAlt == [p \in Progs |-> IF p \in {p1, p2} THEN {Alt(<<>>, <<<<c1>>>>)} ELSE {}]

NoAlts == [p \in Progs |-> {}]

TwoGlobals == [g \in Globals |-> IF g = g1 THEN c1 ELSE c2]
=============================================================================
