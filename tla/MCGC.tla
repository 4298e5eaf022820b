-------------------------------- MODULE MCGC --------------------------------
(* A heap for TLC. *)
EXTENDS GC, TLC
\* The colours turn: only their distance from mutator matters.
Turned == [c \in Cell |-> IF status[c] = "free" \/ color[c] = propagator THEN color[c]
                                                 ELSE (color[c] - mutator) % 3]
ColorView == <<status, kind, Turned, ref, val, nprop, ptr, prev, visit>>
Symmetry == Permutations(Slot)
=============================================================================
