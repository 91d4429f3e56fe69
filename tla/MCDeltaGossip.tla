--------------------------- MODULE MCDeltaGossip ---------------------------
(* Instances of DeltaGossip for TLC.                                       *)
EXTENDS DeltaGossip
=============================================================================
