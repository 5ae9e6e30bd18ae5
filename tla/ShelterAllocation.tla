--------------------------- MODULE ShelterAllocation ---------------------------
(***************************************************************************)
(* What an evacuation plan promises: people move from zones into shelters  *)
(* with room for them, strictly in the order of priority, and a zone is    *)
(* given up only when its turn has come.                                   *)
(***************************************************************************)
EXTENDS Integers

CONSTANTS N, Shelters

Zones == 1..N

VARIABLES
  waiting,  \* waiting[z]: people of z the plan has not decided on
  free      \* free[s]: room left in s

vars == <<waiting, free>>

Init ==
  /\ waiting \in [Zones -> Nat]
  /\ free \in [Shelters -> Nat]

\* Every zone of higher priority has been served.
Turn(z) == \A y \in Zones : y < z => waiting[y] = 0

Move(z, s) ==
  /\ Turn(z)
  /\ \E n \in 1..waiting[z] :
       /\ n <= free[s]
       /\ waiting' = [waiting EXCEPT ![z] = @ - n]
       /\ free' = [free EXCEPT ![s] = @ - n]

\* Who is left of the zones z to y is reported as unassigned.
GiveUp(z, y) ==
  /\ Turn(z)
  /\ waiting' = [x \in Zones |-> IF x \in z..y THEN 0 ELSE waiting[x]]
  /\ UNCHANGED free

Next ==
  \/ \E z \in Zones, s \in Shelters : Move(z, s)
  \/ \E z, y \in Zones : GiveUp(z, y)

Spec == Init /\ [][Next]_vars
=============================================================================
