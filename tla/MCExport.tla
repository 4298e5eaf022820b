------------------------------ MODULE MCExport -------------------------------
(* Connections and slaves, for TLC. *)
EXTENDS Export, TLC
Symmetry == Permutations(Slave)
=============================================================================
