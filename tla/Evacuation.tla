------------------------------ MODULE Evacuation ------------------------------
(***************************************************************************)
(* EvacuationOptimizer.plan of backend/app/evacuation/optimizer.py: zones  *)
(* are served in priority order, each taking room in the shelters it can   *)
(* reach, with the room reserved as it goes.                               *)
(*                                                                         *)
(* What a zone can reach (the twelve nearest shelters within range, safe,  *)
(* with a route on the current graph) and the order rank_shelters gives    *)
(* them in depend on positions, roads and loads: the model leaves both     *)
(* open and so covers every outcome of the ranking.                        *)
(***************************************************************************)
EXTENDS Integers, FiniteSets

CONSTANTS
  N,            \* number of zones; zone 1 has the highest priority
  Shelters,
  MaxShelters,  \* max_shelters_per_zone
  MaxPeople,    \* bound: people in a zone
  MaxCapacity   \* bound: effective capacity of a shelter

ASSUME EvacuationAssumption ==
  /\ N \in Nat
  /\ MaxShelters \in Nat \ {0}
  /\ MaxPeople \in Nat /\ MaxCapacity \in Nat

Zones == 1..N

Reasons == {"none", "no shelter", "no access", "no feasible", "exhausted"}

VARIABLES
  people,     \* people[z]: EvacZone.people
  access,     \* zones with a nearest_node
  capacity,   \* capacity[s]: CapacityResult.effective_capacity
  open,       \* operational shelters
  split,      \* split_large_zones
  zone,       \* index of the zone being served; N + 1 at the end
  phase,      \* "zone" (head of the outer loop), "place" (inner loop)
  reach,      \* reach[z]: shelters near z, safe and with a route, when z was served
  cands,      \* feasible candidates of the zone not yet looked at
  toPlace,    \* to_place
  used,       \* used[z]: shelters z was given room in
  remaining,  \* remaining
  load,       \* plan.shelter_load
  placed,     \* placed[z]: people of z in plan.assignments
  unplaced,   \* unplaced[z]: people of z in plan.unassigned
  reason      \* reason[z]: Unassigned.reason, or "none"

inputVars == <<people, access, capacity, open, split>>
planVars == <<used, remaining, load, placed, unplaced, reason>>
vars == <<inputVars, zone, phase, reach, cands, toPlace, planVars>>

Init ==
  /\ people \in [Zones -> 0..MaxPeople]
  /\ access \in SUBSET Zones
  /\ capacity \in [Shelters -> 0..MaxCapacity]
  /\ open \in SUBSET Shelters
  /\ split \in BOOLEAN
  /\ zone = 1
  /\ phase = "zone"
  /\ reach = [z \in Zones |-> {}]
  /\ cands = {}
  /\ toPlace = 0
  /\ used = [z \in Zones |-> 0]
  /\ remaining = [s \in Shelters |-> IF s \in open THEN capacity[s] ELSE 0]
  /\ load = [s \in Shelters |-> 0]
  /\ placed = [z \in Zones |-> 0]
  /\ unplaced = [z \in Zones |-> 0]
  /\ reason = [z \in Zones |-> "none"]

-----------------------------------------------------------------------------
\* plan.unassigned.append for the zone being served.
Unassign(n, why) ==
  /\ unplaced' = [unplaced EXCEPT ![zone] = n]
  /\ reason' = [reason EXCEPT ![zone] = why]

AtZone == phase = "zone" /\ zone <= N

\* No operational shelter: every zone is unassigned at once.
NoShelters ==
  /\ AtZone /\ zone = 1
  /\ open = {}
  /\ zone' = N + 1
  /\ unplaced' = people
  /\ reason' = [z \in Zones |-> "no shelter"]
  /\ UNCHANGED <<inputVars, phase, reach, cands, toPlace, used, remaining, load, placed>>

\* Nobody to move.
SkipZone ==
  /\ AtZone /\ open # {}
  /\ people[zone] = 0
  /\ zone' = zone + 1
  /\ UNCHANGED <<inputVars, phase, reach, cands, toPlace, planVars>>

\* The zone has no road-network access point.
NoAccess ==
  /\ AtZone /\ open # {}
  /\ people[zone] > 0
  /\ zone \notin access
  /\ Unassign(people[zone], "no access")
  /\ zone' = zone + 1
  /\ UNCHANGED <<inputVars, phase, reach, cands, toPlace, used, remaining, load, placed>>

Room(R) == {s \in R : remaining[s] > 0}

\* Dijkstra and rank_shelters: R are the shelters near, safe and with a route.
\* A full one is rejected.
NoFeasible(R) ==
  /\ AtZone
  /\ people[zone] > 0
  /\ zone \in access
  /\ Room(R) = {}
  /\ reach' = [reach EXCEPT ![zone] = R]
  /\ Unassign(people[zone], "no feasible")
  /\ zone' = zone + 1
  /\ UNCHANGED <<inputVars, phase, cands, toPlace, used, remaining, load, placed>>

Rank(R) ==
  /\ AtZone
  /\ people[zone] > 0
  /\ zone \in access
  /\ Room(R) # {}
  /\ reach' = [reach EXCEPT ![zone] = R]
  /\ cands' = Room(R)
  /\ toPlace' = people[zone]
  /\ phase' = "place"
  /\ UNCHANGED <<inputVars, zone, planVars>>

\* The inner loop goes on to another candidate.
MorePlacing == phase = "place" /\ toPlace > 0 /\ used[zone] < MaxShelters /\ cands # {}

\* Mutation: a whole zone goes to a shelter that has any room.
TakeAll(s) == toPlace

\* What the zone takes of the room in s.
Take(s) ==
  IF split THEN (IF toPlace < remaining[s] THEN toPlace ELSE remaining[s])
  ELSE (IF remaining[s] >= toPlace THEN toPlace ELSE 0)

\* Mutation: the room taken is not reserved.
PlaceWithoutReserving(s) ==
  /\ MorePlacing
  /\ s \in cands
  /\ Take(s) > 0
  /\ cands' = cands \ {s}
  /\ load' = [load EXCEPT ![s] = @ + Take(s)]
  /\ placed' = [placed EXCEPT ![zone] = @ + Take(s)]
  /\ toPlace' = toPlace - Take(s)
  /\ used' = [used EXCEPT ![zone] = @ + 1]
  /\ UNCHANGED <<inputVars, zone, phase, reach, remaining, unplaced, reason>>

\* One assignment: the next candidate with room takes what it can.
Place(s) ==
  /\ MorePlacing
  /\ s \in cands
  /\ Take(s) > 0
  /\ cands' = cands \ {s}
  /\ remaining' = [remaining EXCEPT ![s] = @ - Take(s)]
  /\ load' = [load EXCEPT ![s] = @ + Take(s)]
  /\ placed' = [placed EXCEPT ![zone] = @ + Take(s)]
  /\ toPlace' = toPlace - Take(s)
  /\ used' = [used EXCEPT ![zone] = @ + 1]
  /\ UNCHANGED <<inputVars, zone, phase, reach, unplaced, reason>>

\* An unsplittable zone does not fit into the candidate.
Pass(s) ==
  /\ MorePlacing
  /\ s \in cands
  /\ Take(s) <= 0
  /\ cands' = cands \ {s}
  /\ UNCHANGED <<inputVars, zone, phase, reach, toPlace, planVars>>

\* Mutation: what is left over is not recorded.
FinishZoneSilently ==
  /\ phase = "place" /\ ~MorePlacing
  /\ phase' = "zone"
  /\ zone' = zone + 1
  /\ cands' = {}
  /\ toPlace' = 0
  /\ UNCHANGED <<inputVars, reach, planVars>>

\* Mutation: the search stops after the first shelter.
FinishZoneEarly ==
  /\ phase = "place" /\ (~MorePlacing \/ used[zone] = 1)
  /\ phase' = "zone"
  /\ zone' = zone + 1
  /\ cands' = {}
  /\ toPlace' = 0
  /\ Unassign(toPlace, IF toPlace > 0 THEN "exhausted" ELSE "none")
  /\ UNCHANGED <<inputVars, reach, used, remaining, load, placed>>

\* The inner loop is over: who is left is recorded.
FinishZone ==
  /\ phase = "place" /\ ~MorePlacing
  /\ phase' = "zone"
  /\ zone' = zone + 1
  /\ cands' = {}
  /\ toPlace' = 0
  /\ Unassign(toPlace, IF toPlace > 0 THEN "exhausted" ELSE "none")
  /\ UNCHANGED <<inputVars, reach, used, remaining, load, placed>>

Next ==
  \/ NoShelters \/ SkipZone \/ NoAccess \/ FinishZone
  \/ \E R \in SUBSET open : open # {} /\ (NoFeasible(R) \/ Rank(R))
  \/ \E s \in Shelters : Place(s) \/ Pass(s)

Spec == Init /\ [][Next]_vars

-----------------------------------------------------------------------------
(* Properties *)

\* Types of the plan's state.
TypeOK ==
  /\ people \in [Zones -> Nat] /\ access \in SUBSET Zones
  /\ capacity \in [Shelters -> Nat] /\ open \in SUBSET Shelters /\ split \in BOOLEAN
  /\ zone \in 1..(N + 1) /\ phase \in {"zone", "place"}
  /\ reach \in [Zones -> SUBSET Shelters]
  /\ cands \in SUBSET Shelters /\ toPlace \in Nat
  /\ used \in [Zones -> Nat]
  /\ remaining \in [Shelters -> Nat] /\ load \in [Shelters -> Nat]
  /\ placed \in [Zones -> Nat] /\ unplaced \in [Zones -> Nat]
  /\ reason \in [Zones -> Reasons]

\* optimizer.py: "subject to per-shelter effective capacity ... with capacity
\* reserved as it goes".  However many zones share a shelter, and however they
\* are split, no shelter is promised to more people than it can take, and none
\* that is not operational is promised to anyone.
CapacityRespected ==
  \A s \in Shelters : load[s] <= (IF s \in open THEN capacity[s] ELSE 0)

\* optimizer.py: "Overflow is never hidden".  Of every zone already served,
\* each person is in exactly one assignment or in the unassigned record, and a
\* record with people in it names a reason.
EveryoneAccounted ==
  \A z \in Zones : z < zone =>
    /\ placed[z] + unplaced[z] = people[z]
    /\ unplaced[z] > 0 => reason[z] # "none"

\* optimizer.py: "each taking the best shelter it can still reach and fit
\* into".  A zone left with people over had no room left in any shelter it
\* could reach (not enough for all of it, when zones are not split), or had
\* used up its number of shelters.
LeftoverMeansFull ==
  \A z \in Zones : z < zone /\ reason[z] \in {"exhausted", "no feasible"} =>
    \/ used[z] = MaxShelters
    \/ \A s \in reach[z] : IF split THEN remaining[s] = 0 ELSE remaining[s] < people[z]

\* People of a zone the plan has not decided on.
Undecided(z) ==
  IF z < zone THEN 0 ELSE IF z = zone /\ phase = "place" THEN toPlace ELSE people[z]

Allocation ==
  INSTANCE ShelterAllocation WITH waiting <- [z \in Zones |-> Undecided(z)], free <- remaining

\* optimizer.py: "zones are served strictly in the merge-sorted priority order,
\* each taking the best shelter it can still reach and fit into".  The plan is
\* an allocation.
Allocates == Allocation!Spec
=============================================================================
