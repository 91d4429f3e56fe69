--------------------------- MODULE MCDeltaExport ---------------------------
(* Instances of DeltaExport for TLC.                                       *)
EXTENDS DeltaExport, TLC

Symmetry == Permutations(Hash)
=============================================================================
