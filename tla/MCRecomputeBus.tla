--------------------------- MODULE MCRecomputeBus ---------------------------
(* RecomputeBus for TLC: three districts or hazards compete for two permits. *)
(* No symmetry: the run checks liveness.                                     *)
EXTENDS RecomputeBus
=============================================================================
