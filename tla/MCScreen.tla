-------------------------------- MODULE MCScreen --------------------------------
(* Screen for TLC: one event without a photograph of the build. *)
EXTENDS Screen
================================================================================
