------------------------------- MODULE MCConsole -------------------------------
(* Console for TLC: one operator who may write the shelter of their scope, and a
   state officer who may open every form and write none. *)
EXTENDS Console
CONSTANTS dm, so, s1, s2
MCScope == [u \in {dm, so} |-> IF u = dm THEN {s1} ELSE {s1, s2}]
================================================================================
