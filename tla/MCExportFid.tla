----------------------------- MODULE MCExportFid -----------------------------
(* Fids and slaves, for TLC. *)
EXTENDS ExportFid, TLC
(* A behaviour is followed until a stale channel was used. *)
Followed == ~harmed

Symmetry == Permutations(Slave) \cup Permutations(Fid)
=============================================================================
