------------------------------- MODULE MCSurface -------------------------------
(* Surface for TLC: a service with a longer window and two readings, one with a
   window of one tick; two pulls may overlap. *)
EXTENDS Surface
MCCadence == [k \in Sources |-> 1]
MCStaleAfter == [k \in Sources |-> IF k = "weather" THEN 2 ELSE 1]
MCReadings == [k \in Sources |-> IF k = "weather" THEN 2 ELSE 1]
================================================================================
