----------------------------- MODULE MCIngestion -----------------------------
(* Ingestion for TLC: two attempts a run, a window of one unit of time. *)
EXTENDS Ingestion
=============================================================================
