----------------------------- MODULE MCEvacuation -----------------------------
(* Evacuation for TLC: three zones compete for three shelters. *)
EXTENDS Evacuation, TLC
ShelterSymmetry == Permutations(Shelters)
=============================================================================
