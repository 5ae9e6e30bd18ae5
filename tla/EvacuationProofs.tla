--------------------------- MODULE EvacuationProofs ---------------------------
(***************************************************************************)
(* Proofs about Evacuation for any number of zones and shelters, any       *)
(* people and capacities, whatever each zone can reach and in whatever     *)
(* order the candidates are ranked.                                        *)
(***************************************************************************)
EXTENDS Evacuation, TLAPS

Capacity(s) == IF s \in open THEN capacity[s] ELSE 0

\* Room is neither created nor lost.
RoomConserved == \A s \in Shelters : load[s] + remaining[s] = Capacity(s)

\* Zones not begun have no assignment.
Untouched ==
  \A z \in Zones : (z > zone \/ (z = zone /\ phase = "zone")) => placed[z] = 0 /\ used[z] = 0

\* Nothing is recorded of a zone before it has been served.
Unreported == \A z \in Zones : z >= zone => unplaced[z] = 0 /\ reason[z] = "none"

\* The zone being served: everyone is placed or waiting, and every shelter
\* looked at already is out of the question.
Serving ==
  phase = "place" =>
    /\ zone \in Zones
    /\ placed[zone] + toPlace = people[zone]
    /\ people[zone] > 0
    /\ \A s \in reach[zone] \ cands :
         \/ toPlace = 0
         \/ IF split THEN remaining[s] = 0 ELSE remaining[s] < people[zone]

\* A zone given room nowhere yet, or not splittable, waits as a whole.
Whole == phase = "place" /\ ~split /\ toPlace > 0 => toPlace = people[zone]

UsedBounded == \A z \in Zones : used[z] <= MaxShelters

IInv ==
  /\ TypeOK
  /\ RoomConserved
  /\ Untouched
  /\ Unreported
  /\ Serving
  /\ Whole
  /\ UsedBounded
  /\ EveryoneAccounted
  /\ LeftoverMeansFull

\* What a zone takes is never more than the zone needs or the shelter has.
LEMMA TakeBounds ==
  ASSUME TypeOK, NEW s \in Shelters
  PROVE  /\ Take(s) \in Nat
         /\ Take(s) <= toPlace /\ Take(s) <= remaining[s]
         /\ split => Take(s) = toPlace \/ Take(s) = remaining[s]
         /\ ~split => Take(s) = toPlace \/ (Take(s) = 0 /\ remaining[s] < toPlace)
BY EvacuationAssumption DEF TypeOK, Take

\* Zones are numbered.
LEMMA ZoneNumbers == N \in Nat /\ (\A z \in Zones : z \in Int /\ 1 <= z /\ z <= N)
BY EvacuationAssumption DEF Zones

\* Where a zone is being served, it is a zone, and another or the end follows.
LEMMA ZoneServed ==
  ASSUME TypeOK, zone <= N
  PROVE  zone \in Zones /\ zone \in Int /\ zone + 1 \in 1..(N + 1) /\ people[zone] \in Nat
<1>1. zone \in 1..(N + 1)
  BY DEF TypeOK
<1>2. zone \in Zones
  BY <1>1, EvacuationAssumption DEF Zones
<1>3. people \in [Zones -> Nat]
  BY DEF TypeOK
<1> QED
  BY <1>1, <1>2, <1>3, EvacuationAssumption

\* An unassigned record is about the zone being served and no other.
LEMMA UnassignRecords ==
  ASSUME TypeOK, zone \in Zones, NEW n \in Nat, NEW why \in Reasons, Unassign(n, why)
  PROVE  /\ unplaced' \in [Zones -> Nat] /\ reason' \in [Zones -> Reasons]
         /\ unplaced'[zone] = n /\ reason'[zone] = why
         /\ \A z \in Zones : z # zone => unplaced'[z] = unplaced[z] /\ reason'[z] = reason[z]
<1>1. unplaced \in [Zones -> Nat] /\ reason \in [Zones -> Reasons]
  BY DEF TypeOK
<1>2. unplaced' = [unplaced EXCEPT ![zone] = n] /\ reason' = [reason EXCEPT ![zone] = why]
  BY DEF Unassign
<1> QED
  BY <1>1, <1>2

\* Going on to the next zone: the zones served are the one just served and
\* those before it.
LEMMA NextZone ==
  ASSUME zone \in Zones, zone' = zone + 1, NEW z \in Zones
  PROVE  /\ z < zone' => z = zone \/ z < zone
         /\ z >= zone' => z # zone /\ z > zone /\ z >= zone
<1>1. zone \in Int /\ z \in Int
  BY EvacuationAssumption DEF Zones
<1> QED
  BY <1>1

LEMMA InitIInv == Init => IInv
<1> SUFFICES ASSUME Init PROVE IInv
  OBVIOUS
<1> USE EvacuationAssumption DEF Zones
<1>1. TypeOK
  BY DEF Init, TypeOK, Reasons
<1>2. RoomConserved
  BY <1>1 DEF Init, RoomConserved, Capacity, TypeOK
<1>3. Untouched /\ Unreported /\ Serving /\ Whole /\ UsedBounded
  BY DEF Init, Untouched, Unreported, Serving, Whole, UsedBounded
<1>4. EveryoneAccounted /\ LeftoverMeansFull
  BY DEF Init, EveryoneAccounted, LeftoverMeansFull
<1> QED
  BY <1>1, <1>2, <1>3, <1>4 DEF IInv

LEMMA NoSheltersKeeps ==
  ASSUME IInv, NoShelters
  PROVE  IInv'
<1>1. /\ UNCHANGED <<people, access, capacity, open, split, phase, reach, cands, toPlace, used, remaining, load, placed>>
      /\ zone = 1 /\ zone' = N + 1 /\ phase = "zone" /\ zone <= N
      /\ unplaced' = people /\ reason' = [z \in Zones |-> "no shelter"]
  BY DEF NoShelters, AtZone, inputVars
<1>2. TypeOK
  BY DEF IInv
<1>3. N \in Nat /\ \A z \in Zones : z \in Int /\ z >= 1 /\ ~(z >= N + 1)
  BY EvacuationAssumption DEF Zones
<1>4. \A z \in Zones : people[z] \in Nat /\ reason'[z] = "no shelter"
  BY <1>1, <1>2 DEF TypeOK
<1>5. \A z \in Zones : placed[z] = 0 /\ used[z] = 0
  <2> SUFFICES ASSUME NEW z \in Zones PROVE placed[z] = 0 /\ used[z] = 0
    OBVIOUS
  <2>1. z > 1 \/ z = 1
    BY <1>3
  <2>2. z > zone \/ z = zone
    BY <2>1, <1>1
  <2> QED
    BY <2>2, <1>1 DEF IInv, Untouched
<1>11. TypeOK'
  <2>1. zone' \in 1..(N + 1)
    <3>1. N + 1 \in 1..(N + 1)
      BY <1>3
    <3> QED
      BY <3>1, <1>1
  <2>2. unplaced' \in [Zones -> Nat] /\ reason' \in [Zones -> Reasons]
    BY <1>1, <1>2 DEF TypeOK, Reasons
  <2> QED
    BY <1>1, <1>2, <2>1, <2>2 DEF TypeOK
<1>12. RoomConserved'
  BY <1>1 DEF IInv, RoomConserved, Capacity
<1>13. Untouched'
  BY <1>1, <1>5 DEF Untouched
<1>14. Unreported'
  <2>1. \A z \in Zones : ~(z >= zone')
    BY <1>1, <1>3
  <2> QED
    BY <2>1 DEF Unreported
<1>15. Serving' /\ Whole'
  BY <1>1 DEF Serving, Whole
<1>16. UsedBounded'
  BY <1>1 DEF IInv, UsedBounded
<1>17. EveryoneAccounted'
  <2> SUFFICES ASSUME NEW z \in Zones
      PROVE  placed'[z] + unplaced'[z] = people'[z] /\ reason'[z] # "none"
    BY DEF EveryoneAccounted
  <2>1. placed'[z] = 0 /\ unplaced'[z] = people[z] /\ people'[z] = people[z]
    BY <1>1, <1>5
  <2>2. people[z] \in Nat /\ reason'[z] # "none"
    BY <1>4
  <2>3. placed'[z] + unplaced'[z] = people'[z]
    BY <2>1, <2>2
  <2> QED
    BY <2>2, <2>3
<1>18. LeftoverMeansFull'
  BY <1>4 DEF LeftoverMeansFull
<1> QED
  BY <1>11, <1>12, <1>13, <1>14, <1>15, <1>16, <1>17, <1>18 DEF IInv

LEMMA SkipZoneKeeps ==
  ASSUME IInv, SkipZone
  PROVE  IInv'
<1>1. TypeOK
  BY DEF IInv
<1>2. phase = "zone" /\ zone' = zone + 1 /\ zone <= N /\ people[zone] = 0
  BY DEF SkipZone, AtZone
<1>3. zone \in Zones /\ zone \in Int /\ zone + 1 \in 1..(N + 1)
  BY <1>1, <1>2, ZoneServed
<1>4. UNCHANGED <<people, access, capacity, open, split, phase, reach, cands, toPlace, used, remaining, load, placed, unplaced, reason>>
  BY DEF SkipZone, inputVars, planVars
<1>5. placed[zone] = 0 /\ unplaced[zone] = 0 /\ reason[zone] = "none"
  BY <1>2, <1>3 DEF IInv, Untouched, Unreported
<1>11. TypeOK'
  <2>1. zone' \in 1..(N + 1)
    BY <1>2, <1>3
  <2> QED
    BY <1>1, <1>4, <2>1 DEF TypeOK
<1>12. RoomConserved'
  BY <1>4 DEF IInv, RoomConserved, Capacity
<1>13. Untouched'
  <2> SUFFICES ASSUME NEW z \in Zones, z >= zone' PROVE placed'[z] = 0 /\ used'[z] = 0
    BY <1>2, <1>3, <1>4, ZoneNumbers DEF Untouched
  <2>1. z > zone
    BY <1>2, <1>3, NextZone
  <2> QED
    BY <2>1, <1>4 DEF IInv, Untouched
<1>14. Unreported'
  <2> SUFFICES ASSUME NEW z \in Zones, z >= zone' PROVE unplaced'[z] = 0 /\ reason'[z] = "none"
    BY DEF Unreported
  <2>1. z >= zone
    BY <1>2, <1>3, NextZone
  <2> QED
    BY <2>1, <1>4 DEF IInv, Unreported
<1>15. Serving' /\ Whole'
  BY <1>2, <1>4 DEF Serving, Whole
<1>16. UsedBounded'
  BY <1>4 DEF IInv, UsedBounded
<1>17. EveryoneAccounted'
  <2> SUFFICES ASSUME NEW z \in Zones, z < zone'
      PROVE  placed'[z] + unplaced'[z] = people'[z] /\ (unplaced'[z] > 0 => reason'[z] # "none")
    BY DEF EveryoneAccounted
  <2>1. CASE z = zone
    <3>1. placed'[zone] + unplaced'[zone] = people'[zone] /\ ~(unplaced'[zone] > 0)
      BY <1>2, <1>4, <1>5
    <3> QED
      BY <2>1, <3>1
  <2>2. CASE z < zone
    <3>1. placed[z] + unplaced[z] = people[z] /\ (unplaced[z] > 0 => reason[z] # "none")
      BY <2>2 DEF IInv, EveryoneAccounted
    <3> QED
      BY <3>1, <1>4
  <2> QED
    BY <2>1, <2>2, <1>2, <1>3, NextZone
<1>18. LeftoverMeansFull'
  <2> SUFFICES ASSUME NEW z \in Zones, z < zone', reason'[z] \in {"exhausted", "no feasible"}
      PROVE  \/ used'[z] = MaxShelters
             \/ \A s \in reach'[z] : IF split THEN remaining'[s] = 0 ELSE remaining'[s] < people'[z]
    BY <1>4 DEF LeftoverMeansFull
  <2>1. z # zone
    BY <1>4, <1>5
  <2>2. z < zone
    BY <2>1, <1>2, <1>3, NextZone
  <2> QED
    BY <2>2, <1>4 DEF IInv, LeftoverMeansFull
<1> QED
  BY <1>11, <1>12, <1>13, <1>14, <1>15, <1>16, <1>17, <1>18 DEF IInv

LEMMA NoAccessKeeps ==
  ASSUME IInv, NoAccess
  PROVE  IInv'
<1>1. TypeOK
  BY DEF IInv
<1>2. phase = "zone" /\ zone' = zone + 1 /\ zone <= N
  BY DEF NoAccess, AtZone
<1>3. zone \in Zones /\ zone \in Int /\ zone + 1 \in 1..(N + 1) /\ people[zone] \in Nat
  BY <1>1, <1>2, ZoneServed
<1>4. UNCHANGED <<people, access, capacity, open, split, phase, reach, cands, toPlace, used, remaining, load, placed>>
  BY DEF NoAccess, inputVars
<1>5. Unassign(people[zone], "no access") /\ people[zone] > 0
  BY DEF NoAccess
<1>6. /\ unplaced' \in [Zones -> Nat] /\ reason' \in [Zones -> Reasons]
      /\ unplaced'[zone] = people[zone] /\ reason'[zone] = "no access"
      /\ \A z \in Zones : z # zone => unplaced'[z] = unplaced[z] /\ reason'[z] = reason[z]
  <2>1. "no access" \in Reasons
    BY DEF Reasons
  <2> QED
    BY <1>1, <1>3, <1>5, <2>1, UnassignRecords
<1>11. TypeOK'
  <2>1. zone' \in 1..(N + 1)
    BY <1>2, <1>3
  <2> QED
    BY <1>1, <1>4, <1>6, <2>1 DEF TypeOK
<1>12. RoomConserved'
  BY <1>4 DEF IInv, RoomConserved, Capacity
<1>13. Untouched'
  <2> SUFFICES ASSUME NEW z \in Zones, z >= zone' PROVE placed'[z] = 0 /\ used'[z] = 0
    BY <1>2, <1>3, <1>4, ZoneNumbers DEF Untouched
  <2>1. z > zone
    BY <1>2, <1>3, NextZone
  <2> QED
    BY <2>1, <1>4 DEF IInv, Untouched
<1>14. Unreported'
  <2> SUFFICES ASSUME NEW z \in Zones, z >= zone' PROVE unplaced'[z] = 0 /\ reason'[z] = "none"
    BY DEF Unreported
  <2>1. z # zone /\ z >= zone
    BY <1>2, <1>3, NextZone
  <2>2. unplaced[z] = 0 /\ reason[z] = "none"
    BY <2>1 DEF IInv, Unreported
  <2> QED
    BY <2>1, <2>2, <1>6
<1>15. Serving' /\ Whole'
  BY <1>2, <1>4 DEF Serving, Whole
<1>16. UsedBounded'
  BY <1>4 DEF IInv, UsedBounded
<1>17. EveryoneAccounted'
  <2> SUFFICES ASSUME NEW z \in Zones, z < zone'
      PROVE  placed'[z] + unplaced'[z] = people'[z] /\ (unplaced'[z] > 0 => reason'[z] # "none")
    BY DEF EveryoneAccounted
  <2>1. CASE z = zone
    <3>1. placed[zone] = 0
      BY <1>2, <1>3 DEF IInv, Untouched
    <3>2. placed'[zone] + unplaced'[zone] = people'[zone]
      <4>1. placed'[zone] = 0 /\ people'[zone] = people[zone]
        BY <3>1, <1>4
      <4>2. unplaced'[zone] = people[zone]
        BY <1>6
      <4>3. people[zone] \in Nat
        BY <1>3
      <4> QED
        BY <4>1, <4>2, <4>3
    <3>3. reason'[zone] # "none"
      BY <1>6
    <3> QED
      BY <2>1, <3>2, <3>3
  <2>2. CASE z # zone
    <3>1. z < zone
      BY <1>2, <1>3, <2>2, NextZone
    <3>2. placed[z] + unplaced[z] = people[z] /\ (unplaced[z] > 0 => reason[z] # "none")
      BY <3>1 DEF IInv, EveryoneAccounted
    <3> QED
      BY <2>2, <3>2, <1>4, <1>6
  <2> QED
    BY <2>1, <2>2
<1>18. LeftoverMeansFull'
  <2> SUFFICES ASSUME NEW z \in Zones, z < zone', reason'[z] \in {"exhausted", "no feasible"}
      PROVE  \/ used'[z] = MaxShelters
             \/ \A s \in reach'[z] : IF split THEN remaining'[s] = 0 ELSE remaining'[s] < people'[z]
    BY <1>4 DEF LeftoverMeansFull
  <2>1. CASE z = zone
    BY <2>1, <1>3, <1>4, <1>5, <1>6
  <2>2. CASE z # zone
    <3>1. z < zone
      BY <1>2, <1>3, <2>2, NextZone
    <3>2. reason[z] \in {"exhausted", "no feasible"}
      BY <2>2, <1>6
    <3>3. \/ used[z] = MaxShelters
          \/ \A s \in reach[z] : IF split THEN remaining[s] = 0 ELSE remaining[s] < people[z]
      BY <3>1, <3>2 DEF IInv, LeftoverMeansFull
    <3> QED
      BY <2>2, <3>3, <1>4
  <2> QED
    BY <2>1, <2>2
<1> QED
  BY <1>11, <1>12, <1>13, <1>14, <1>15, <1>16, <1>17, <1>18 DEF IInv

LEMMA FinishZoneKeeps ==
  ASSUME IInv, FinishZone
  PROVE  IInv'
<1> DEFINE why == IF toPlace > 0 THEN "exhausted" ELSE "none"
<1>1. TypeOK
  BY DEF IInv
<1>2. phase = "place" /\ phase' = "zone" /\ zone' = zone + 1 /\ cands' = {} /\ toPlace' = 0
  BY DEF FinishZone
<1>3. /\ zone \in Zones /\ people[zone] > 0 /\ placed[zone] + toPlace = people[zone]
      /\ \A s \in reach[zone] \ cands :
           \/ toPlace = 0
           \/ IF split THEN remaining[s] = 0 ELSE remaining[s] < people[zone]
  BY <1>2 DEF IInv, Serving
<1>4. UNCHANGED <<people, access, capacity, open, split, reach, used, remaining, load, placed>>
  BY DEF FinishZone, inputVars
<1>5. toPlace \in Nat
  BY <1>1 DEF TypeOK
<1>6. /\ unplaced' \in [Zones -> Nat] /\ reason' \in [Zones -> Reasons]
      /\ unplaced'[zone] = toPlace /\ reason'[zone] = why
      /\ \A z \in Zones : z # zone => unplaced'[z] = unplaced[z] /\ reason'[z] = reason[z]
  <2>1. why \in Reasons
    BY DEF Reasons
  <2>2. Unassign(toPlace, why)
    BY DEF FinishZone
  <2> QED
    BY <1>1, <1>3, <1>5, <2>1, <2>2, UnassignRecords
<1>7. toPlace = 0 \/ used[zone] = MaxShelters \/ cands = {}
  <2>1. toPlace = 0 \/ ~(used[zone] < MaxShelters) \/ cands = {}
    BY <1>2, <1>5 DEF FinishZone, MorePlacing
  <2>2. used[zone] \in Nat /\ used[zone] <= MaxShelters /\ MaxShelters \in Nat
    BY <1>1, <1>3, EvacuationAssumption DEF TypeOK, IInv, UsedBounded
  <2> QED
    BY <2>1, <2>2
<1>8. toPlace = 0 => why = "none"
  BY <1>5
<1>11. TypeOK'
  <2>1. zone' \in 1..(N + 1)
    BY <1>2, <1>3, EvacuationAssumption DEF Zones
  <2>2. phase' \in {"zone", "place"} /\ cands' \in SUBSET Shelters /\ toPlace' \in Nat
    BY <1>2
  <2> QED
    BY <1>1, <1>4, <1>6, <2>1, <2>2 DEF TypeOK
<1>12. RoomConserved'
  BY <1>4 DEF IInv, RoomConserved, Capacity
<1>13. Untouched'
  <2> SUFFICES ASSUME NEW z \in Zones, z >= zone' PROVE placed'[z] = 0 /\ used'[z] = 0
    BY <1>2, <1>3, ZoneNumbers DEF Untouched
  <2>1. z > zone
    BY <1>2, <1>3, NextZone
  <2> QED
    BY <2>1, <1>4 DEF IInv, Untouched
<1>14. Unreported'
  <2> SUFFICES ASSUME NEW z \in Zones, z >= zone' PROVE unplaced'[z] = 0 /\ reason'[z] = "none"
    BY DEF Unreported
  <2>1. z # zone /\ z >= zone
    BY <1>2, <1>3, NextZone
  <2>2. unplaced[z] = 0 /\ reason[z] = "none"
    BY <2>1 DEF IInv, Unreported
  <2> QED
    BY <2>1, <2>2, <1>6
<1>15. Serving' /\ Whole'
  BY <1>2 DEF Serving, Whole
<1>16. UsedBounded'
  BY <1>4 DEF IInv, UsedBounded
<1>17. EveryoneAccounted'
  <2> SUFFICES ASSUME NEW z \in Zones, z < zone'
      PROVE  placed'[z] + unplaced'[z] = people'[z] /\ (unplaced'[z] > 0 => reason'[z] # "none")
    BY DEF EveryoneAccounted
  <2>1. CASE z = zone
    <3>1. placed'[zone] + unplaced'[zone] = people'[zone]
      BY <1>3, <1>4, <1>6
    <3>2. unplaced'[zone] > 0 => reason'[zone] # "none"
      BY <1>6
    <3> QED
      BY <2>1, <3>1, <3>2
  <2>2. CASE z # zone
    <3>1. z < zone
      BY <1>2, <1>3, <2>2, NextZone
    <3>2. placed[z] + unplaced[z] = people[z] /\ (unplaced[z] > 0 => reason[z] # "none")
      BY <3>1 DEF IInv, EveryoneAccounted
    <3> QED
      BY <2>2, <3>2, <1>4, <1>6
  <2> QED
    BY <2>1, <2>2
<1>18. LeftoverMeansFull'
  <2> SUFFICES ASSUME NEW z \in Zones, z < zone', reason'[z] \in {"exhausted", "no feasible"}
      PROVE  \/ used'[z] = MaxShelters
             \/ \A s \in reach'[z] : IF split THEN remaining'[s] = 0 ELSE remaining'[s] < people'[z]
    BY <1>4 DEF LeftoverMeansFull
  <2>1. CASE z = zone
    <3>1. why # "none"
      BY <2>1, <1>6
    <3>2. toPlace # 0
      BY <3>1, <1>8
    <3>3. \/ used[zone] = MaxShelters
          \/ \A s \in reach[zone] : IF split THEN remaining[s] = 0 ELSE remaining[s] < people[zone]
      BY <3>2, <1>3, <1>7
    <3> QED
      BY <3>3, <2>1, <1>4
  <2>2. CASE z # zone
    <3>1. z < zone
      BY <1>2, <1>3, <2>2, NextZone
    <3>2. reason[z] \in {"exhausted", "no feasible"}
      BY <2>2, <1>6
    <3>3. \/ used[z] = MaxShelters
          \/ \A s \in reach[z] : IF split THEN remaining[s] = 0 ELSE remaining[s] < people[z]
      BY <3>1, <3>2 DEF IInv, LeftoverMeansFull
    <3> QED
      BY <3>3, <1>4
  <2> QED
    BY <2>1, <2>2
<1> QED
  BY <1>11, <1>12, <1>13, <1>14, <1>15, <1>16, <1>17, <1>18 DEF IInv

LEMMA NoFeasibleKeeps ==
  ASSUME IInv, NEW R \in SUBSET open, open # {}, NoFeasible(R)
  PROVE  IInv'
<1>1. TypeOK
  BY DEF IInv
<1>2. phase = "zone" /\ zone' = zone + 1 /\ zone <= N
  BY DEF NoFeasible, AtZone
<1>3. zone \in Zones /\ zone \in Int /\ zone + 1 \in 1..(N + 1) /\ people[zone] \in Nat
  BY <1>1, <1>2, ZoneServed
<1>4. UNCHANGED <<people, access, capacity, open, split, phase, cands, toPlace, used, remaining, load, placed>>
  BY DEF NoFeasible, inputVars
<1>5. Unassign(people[zone], "no feasible") /\ people[zone] > 0
  BY DEF NoFeasible
<1>6. /\ unplaced' \in [Zones -> Nat] /\ reason' \in [Zones -> Reasons]
      /\ unplaced'[zone] = people[zone] /\ reason'[zone] = "no feasible"
      /\ \A z \in Zones : z # zone => unplaced'[z] = unplaced[z] /\ reason'[z] = reason[z]
  <2>1. "no feasible" \in Reasons
    BY DEF Reasons
  <2> QED
    BY <1>1, <1>3, <1>5, <2>1, UnassignRecords
<1>7. /\ reach' \in [Zones -> SUBSET Shelters]
      /\ reach'[zone] = R
      /\ \A z \in Zones : z # zone => reach'[z] = reach[z]
  <2>1. reach \in [Zones -> SUBSET Shelters] /\ R \in SUBSET Shelters
    BY <1>1 DEF TypeOK
  <2>2. reach' = [reach EXCEPT ![zone] = R]
    BY DEF NoFeasible
  <2> QED
    BY <1>3, <2>1, <2>2
<1>8. \A s \in R : remaining[s] = 0
  <2> SUFFICES ASSUME NEW s \in R PROVE remaining[s] = 0
    OBVIOUS
  <2>1. ~(remaining[s] > 0)
    BY DEF NoFeasible, Room
  <2>2. remaining[s] \in Nat
    BY <1>1 DEF TypeOK
  <2> QED
    BY <2>1, <2>2
<1>11. TypeOK'
  <2>1. zone' \in 1..(N + 1)
    BY <1>2, <1>3
  <2> QED
    BY <1>1, <1>4, <1>6, <1>7, <2>1 DEF TypeOK
<1>12. RoomConserved'
  BY <1>4 DEF IInv, RoomConserved, Capacity
<1>13. Untouched'
  <2> SUFFICES ASSUME NEW z \in Zones, z >= zone' PROVE placed'[z] = 0 /\ used'[z] = 0
    BY <1>2, <1>3, <1>4, ZoneNumbers DEF Untouched
  <2>1. z > zone
    BY <1>2, <1>3, NextZone
  <2> QED
    BY <2>1, <1>4 DEF IInv, Untouched
<1>14. Unreported'
  <2> SUFFICES ASSUME NEW z \in Zones, z >= zone' PROVE unplaced'[z] = 0 /\ reason'[z] = "none"
    BY DEF Unreported
  <2>1. z # zone /\ z >= zone
    BY <1>2, <1>3, NextZone
  <2>2. unplaced[z] = 0 /\ reason[z] = "none"
    BY <2>1 DEF IInv, Unreported
  <2> QED
    BY <2>1, <2>2, <1>6
<1>15. Serving' /\ Whole'
  BY <1>2, <1>4 DEF Serving, Whole
<1>16. UsedBounded'
  BY <1>4 DEF IInv, UsedBounded
<1>17. EveryoneAccounted'
  <2> SUFFICES ASSUME NEW z \in Zones, z < zone'
      PROVE  placed'[z] + unplaced'[z] = people'[z] /\ (unplaced'[z] > 0 => reason'[z] # "none")
    BY DEF EveryoneAccounted
  <2>1. CASE z = zone
    <3>1. placed[zone] = 0
      BY <1>2, <1>3 DEF IInv, Untouched
    <3>2. placed'[zone] + unplaced'[zone] = people'[zone]
      <4>1. placed'[zone] = 0 /\ people'[zone] = people[zone]
        BY <3>1, <1>4
      <4>2. unplaced'[zone] = people[zone]
        BY <1>6
      <4>3. people[zone] \in Nat
        BY <1>3
      <4> QED
        BY <4>1, <4>2, <4>3
    <3>3. reason'[zone] # "none"
      BY <1>6
    <3> QED
      BY <2>1, <3>2, <3>3
  <2>2. CASE z # zone
    <3>1. z < zone
      BY <1>2, <1>3, <2>2, NextZone
    <3>2. placed[z] + unplaced[z] = people[z] /\ (unplaced[z] > 0 => reason[z] # "none")
      BY <3>1 DEF IInv, EveryoneAccounted
    <3> QED
      BY <2>2, <3>2, <1>4, <1>6
  <2> QED
    BY <2>1, <2>2
<1>18. LeftoverMeansFull'
  <2> SUFFICES ASSUME NEW z \in Zones, z < zone', reason'[z] \in {"exhausted", "no feasible"}
      PROVE  \/ used'[z] = MaxShelters
             \/ \A s \in reach'[z] : IF split THEN remaining'[s] = 0 ELSE remaining'[s] < people'[z]
    BY <1>4 DEF LeftoverMeansFull
  <2>1. CASE z = zone
    BY <2>1, <1>3, <1>4, <1>5, <1>6, <1>7, <1>8
  <2>2. CASE z # zone
    <3>1. z < zone
      BY <1>2, <1>3, <2>2, NextZone
    <3>2. reason[z] \in {"exhausted", "no feasible"}
      BY <2>2, <1>6
    <3>3. \/ used[z] = MaxShelters
          \/ \A s \in reach[z] : IF split THEN remaining[s] = 0 ELSE remaining[s] < people[z]
      BY <3>1, <3>2 DEF IInv, LeftoverMeansFull
    <3> QED
      BY <2>2, <3>3, <1>4, <1>7
  <2> QED
    BY <2>1, <2>2
<1> QED
  BY <1>11, <1>12, <1>13, <1>14, <1>15, <1>16, <1>17, <1>18 DEF IInv

LEMMA RankKeeps ==
  ASSUME IInv, NEW R \in SUBSET open, open # {}, Rank(R)
  PROVE  IInv'
<1>1. TypeOK
  BY DEF IInv
<1>2. /\ phase = "zone" /\ zone <= N /\ people[zone] > 0
      /\ phase' = "place" /\ toPlace' = people[zone] /\ cands' = Room(R)
  BY DEF Rank, AtZone
<1>3. zone \in Zones /\ people[zone] \in Nat
  BY <1>1, <1>2, ZoneServed
<1>4. UNCHANGED <<people, access, capacity, open, split, zone, used, remaining, load, placed, unplaced, reason>>
  BY DEF Rank, inputVars, planVars
<1>5. R \in SUBSET Shelters
  BY <1>1 DEF TypeOK
<1>6. /\ reach' \in [Zones -> SUBSET Shelters]
      /\ reach'[zone] = R
      /\ \A z \in Zones : z # zone => reach'[z] = reach[z]
  <2>1. reach \in [Zones -> SUBSET Shelters]
    BY <1>1 DEF TypeOK
  <2>2. reach' = [reach EXCEPT ![zone] = R]
    BY DEF Rank
  <2> QED
    BY <1>3, <1>5, <2>1, <2>2
<1>7. placed[zone] = 0
  BY <1>2, <1>3, ZoneNumbers DEF IInv, Untouched
<1>8. \A s \in R \ Room(R) : remaining[s] = 0
  <2> SUFFICES ASSUME NEW s \in R \ Room(R) PROVE remaining[s] = 0
    OBVIOUS
  <2>1. ~(remaining[s] > 0)
    BY DEF Room
  <2>2. remaining[s] \in Nat
    BY <1>1, <1>5 DEF TypeOK
  <2> QED
    BY <2>1, <2>2
<1>9. \A z \in Zones : z < zone => z # zone
  BY <1>3, ZoneNumbers
<1>11. TypeOK'
  <2>1. phase' \in {"zone", "place"} /\ cands' \in SUBSET Shelters /\ toPlace' \in Nat
    BY <1>2, <1>3, <1>5 DEF Room
  <2> QED
    BY <1>1, <1>4, <1>6, <2>1 DEF TypeOK
<1>12. RoomConserved'
  BY <1>4 DEF IInv, RoomConserved, Capacity
<1>13. Untouched'
  BY <1>2, <1>4 DEF IInv, Untouched
<1>14. Unreported'
  BY <1>4 DEF IInv, Unreported
<1>15. Serving'
  <2>1. placed'[zone'] + toPlace' = people'[zone'] /\ people'[zone'] > 0
    <3>1. 0 + people[zone] = people[zone]
      BY <1>3
    <3> QED
      BY <3>1, <1>2, <1>4, <1>7
  <2>2. ASSUME NEW s \in reach'[zone'] \ cands'
        PROVE  IF split THEN remaining'[s] = 0 ELSE remaining'[s] < people'[zone']
    <3>1. remaining[s] = 0
      BY <1>2, <1>4, <1>6, <1>8
    <3>2. 0 < people[zone]
      BY <1>2, <1>3
    <3> QED
      BY <3>1, <3>2, <1>4
  <2> QED
    BY <2>1, <2>2, <1>3, <1>4 DEF Serving
<1>16. Whole' /\ UsedBounded'
  BY <1>2, <1>4 DEF IInv, Whole, UsedBounded
<1>17. EveryoneAccounted'
  BY <1>4 DEF IInv, EveryoneAccounted
<1>18. LeftoverMeansFull'
  <2> SUFFICES ASSUME NEW z \in Zones, z < zone, reason[z] \in {"exhausted", "no feasible"}
      PROVE  \/ used[z] = MaxShelters
             \/ \A s \in reach'[z] : IF split THEN remaining[s] = 0 ELSE remaining[s] < people[z]
    BY <1>4 DEF LeftoverMeansFull
  <2>1. z # zone
    BY <1>9
  <2> QED
    BY <2>1, <1>6 DEF IInv, LeftoverMeansFull
<1> QED
  BY <1>11, <1>12, <1>13, <1>14, <1>15, <1>16, <1>17, <1>18 DEF IInv

LEMMA PlaceKeeps ==
  ASSUME IInv, NEW s \in Shelters, Place(s)
  PROVE  IInv'
<1>1. TypeOK
  BY DEF IInv
<1>2. phase = "place" /\ cands' = cands \ {s} /\ s \in cands /\ toPlace > 0 /\ used[zone] < MaxShelters
  BY DEF Place, MorePlacing
<1>3. /\ zone \in Zones /\ people[zone] > 0 /\ placed[zone] + toPlace = people[zone]
      /\ \A x \in reach[zone] \ cands :
           \/ toPlace = 0
           \/ IF split THEN remaining[x] = 0 ELSE remaining[x] < people[zone]
  BY <1>2 DEF IInv, Serving
<1>4. /\ toPlace \in Nat /\ people[zone] \in Nat /\ placed[zone] \in Nat /\ used[zone] \in Nat
      /\ load[s] \in Nat /\ remaining[s] \in Nat
  BY <1>1, <1>3 DEF TypeOK
<1>5. \A x \in reach[zone] \ cands : IF split THEN remaining[x] = 0 ELSE remaining[x] < people[zone]
  <2>1. toPlace # 0
    BY <1>2, <1>4
  <2> QED
    BY <2>1, <1>3
<1>6. ~split => toPlace = people[zone]
  BY <1>2 DEF IInv, Whole
<1>7. UNCHANGED <<people, access, capacity, open, split, zone, phase, reach, unplaced, reason>>
  BY DEF Place, inputVars
<1> DEFINE t == Take(s)
<1>8. /\ t \in Nat /\ t > 0 /\ t <= toPlace /\ t <= remaining[s]
      /\ IF split THEN t = toPlace \/ t = remaining[s] ELSE t = toPlace
  <2>1. /\ Take(s) \in Nat /\ Take(s) <= toPlace /\ Take(s) <= remaining[s]
        /\ split => Take(s) = toPlace \/ Take(s) = remaining[s]
        /\ ~split => Take(s) = toPlace \/ (Take(s) = 0 /\ remaining[s] < toPlace)
    BY <1>1, TakeBounds
  <2>2. Take(s) > 0
    BY DEF Place
  <2>3. ~(Take(s) = 0)
    BY <2>1, <2>2
  <2> QED
    BY <2>1, <2>2, <2>3
<1>9. /\ toPlace' = toPlace - t
      /\ remaining' = [remaining EXCEPT ![s] = @ - t] /\ load' = [load EXCEPT ![s] = @ + t]
      /\ placed' = [placed EXCEPT ![zone] = @ + t] /\ used' = [used EXCEPT ![zone] = @ + 1]
  BY DEF Place
<1> HIDE DEF t
<1>10. /\ remaining' \in [Shelters -> Nat] /\ load' \in [Shelters -> Nat]
       /\ remaining'[s] = remaining[s] - t /\ load'[s] = load[s] + t
       /\ \A x \in Shelters : x # s => remaining'[x] = remaining[x] /\ load'[x] = load[x]
  <2>1. remaining \in [Shelters -> Nat] /\ load \in [Shelters -> Nat]
    BY <1>1 DEF TypeOK
  <2>2. remaining[s] - t \in Nat /\ load[s] + t \in Nat
    BY <1>4, <1>8
  <2> QED
    BY <2>1, <2>2, <1>9
<1>11. /\ placed' \in [Zones -> Nat] /\ used' \in [Zones -> Nat]
       /\ placed'[zone] = placed[zone] + t /\ used'[zone] = used[zone] + 1
       /\ \A z \in Zones : z # zone => placed'[z] = placed[z] /\ used'[z] = used[z]
  <2>1. placed \in [Zones -> Nat] /\ used \in [Zones -> Nat]
    BY <1>1 DEF TypeOK
  <2>2. placed[zone] + t \in Nat /\ used[zone] + 1 \in Nat
    BY <1>4, <1>8
  <2> QED
    BY <2>1, <2>2, <1>3, <1>9
<1>12. /\ toPlace' \in Nat /\ placed'[zone] + toPlace' = people[zone]
       /\ ~split => toPlace' = 0
       /\ toPlace' = 0 \/ (split /\ remaining'[s] = 0)
  <2>1. toPlace' = toPlace - t /\ remaining'[s] = remaining[s] - t /\ placed'[zone] = placed[zone] + t
    BY <1>9, <1>10, <1>11
  <2>2. toPlace - t \in Nat /\ (placed[zone] + t) + (toPlace - t) = people[zone]
    BY <1>3, <1>4, <1>8
  <2>3. t = toPlace => toPlace - t = 0
    BY <1>4, <1>8
  <2>4. t = remaining[s] => remaining[s] - t = 0
    BY <1>4, <1>8
  <2> QED
    BY <2>1, <2>2, <2>3, <2>4, <1>8
<1>13. \A x \in Shelters : remaining[x] \in Nat /\ remaining'[x] \in Nat /\ remaining'[x] <= remaining[x]
  <2> SUFFICES ASSUME NEW x \in Shelters
      PROVE  remaining[x] \in Nat /\ remaining'[x] \in Nat /\ remaining'[x] <= remaining[x]
    OBVIOUS
  <2>1. remaining[x] \in Nat /\ remaining'[x] \in Nat
    BY <1>1, <1>10 DEF TypeOK
  <2>2. CASE x = s
    BY <2>2, <1>4, <1>8, <1>10
  <2>3. CASE x # s
    BY <2>1, <2>3, <1>10
  <2> QED
    BY <2>1, <2>2, <2>3
<1>14. \A z \in Zones : people[z] \in Nat
  BY <1>1 DEF TypeOK
<1>15. \A x \in Shelters, z \in Zones :
         (IF split THEN remaining[x] = 0 ELSE remaining[x] < people[z])
         => (IF split THEN remaining'[x] = 0 ELSE remaining'[x] < people[z])
  BY <1>13, <1>14
<1>16. \A z \in Zones : z < zone => z # zone
  BY <1>3, ZoneNumbers
<1>21. TypeOK'
  <2>1. cands' \in SUBSET Shelters
    BY <1>1, <1>2 DEF TypeOK
  <2> QED
    BY <1>1, <1>7, <1>10, <1>11, <1>12, <2>1 DEF TypeOK
<1>22. RoomConserved'
  <2> SUFFICES ASSUME NEW x \in Shelters PROVE load'[x] + remaining'[x] = Capacity(x)
    BY <1>7 DEF RoomConserved, Capacity
  <2>1. load[x] + remaining[x] = Capacity(x)
    BY DEF IInv, RoomConserved
  <2>2. CASE x = s
    <3>1. (load[s] + t) + (remaining[s] - t) = load[s] + remaining[s]
      BY <1>4, <1>8
    <3> QED
      BY <2>1, <2>2, <3>1, <1>10
  <2>3. CASE x # s
    BY <2>1, <2>3, <1>10
  <2> QED
    BY <2>2, <2>3
<1>23. Untouched'
  <2> SUFFICES ASSUME NEW z \in Zones, z > zone PROVE placed'[z] = 0 /\ used'[z] = 0
    BY <1>2, <1>7 DEF Untouched
  <2>1. z # zone
    BY <1>3, ZoneNumbers
  <2>2. placed[z] = 0 /\ used[z] = 0
    BY DEF IInv, Untouched
  <2> QED
    BY <2>1, <2>2, <1>11
<1>24. Unreported'
  BY <1>7 DEF IInv, Unreported
<1>25. Serving'
  <2>1. ASSUME NEW x \in reach[zone] \ (cands \ {s})
        PROVE  toPlace' = 0 \/ IF split THEN remaining'[x] = 0 ELSE remaining'[x] < people[zone]
    <3>1. CASE x = s
      BY <3>1, <1>12
    <3>2. CASE x # s
      <4>1. x \in Shelters
        BY <1>1, <1>3 DEF TypeOK
      <4>2. IF split THEN remaining[x] = 0 ELSE remaining[x] < people[zone]
        BY <3>2, <1>5
      <4> QED
        BY <3>2, <4>1, <4>2, <1>10
    <3> QED
      BY <3>1, <3>2
  <2> QED
    BY <2>1, <1>2, <1>3, <1>7, <1>12 DEF Serving
<1>26. Whole'
  <2>1. toPlace' = 0 => ~(toPlace' > 0)
    BY <1>12
  <2> QED
    BY <1>7, <2>1, <1>12 DEF Whole
<1>27. UsedBounded'
  <2> SUFFICES ASSUME NEW z \in Zones PROVE used'[z] <= MaxShelters
    BY DEF UsedBounded
  <2>1. used[zone] + 1 <= MaxShelters
    BY <1>2, <1>4, EvacuationAssumption
  <2>2. used[z] <= MaxShelters
    BY DEF IInv, UsedBounded
  <2> QED
    BY <2>1, <2>2, <1>11
<1>28. EveryoneAccounted'
  <2> SUFFICES ASSUME NEW z \in Zones, z < zone
      PROVE  placed'[z] + unplaced[z] = people[z] /\ (unplaced[z] > 0 => reason[z] # "none")
    BY <1>7 DEF EveryoneAccounted
  <2>1. z # zone
    BY <1>16
  <2> QED
    BY <2>1, <1>11 DEF IInv, EveryoneAccounted
<1>29. LeftoverMeansFull'
  <2> SUFFICES ASSUME NEW z \in Zones, z < zone, reason[z] \in {"exhausted", "no feasible"}
      PROVE  \/ used'[z] = MaxShelters
             \/ \A x \in reach[z] : IF split THEN remaining'[x] = 0 ELSE remaining'[x] < people[z]
    BY <1>7 DEF LeftoverMeansFull
  <2>1. z # zone
    BY <1>16
  <2>2. CASE used[z] = MaxShelters
    BY <2>1, <2>2, <1>11
  <2>3. ASSUME ~(used[z] = MaxShelters), NEW x \in reach[z]
        PROVE  IF split THEN remaining'[x] = 0 ELSE remaining'[x] < people[z]
    <3>1. IF split THEN remaining[x] = 0 ELSE remaining[x] < people[z]
      BY <2>3 DEF IInv, LeftoverMeansFull
    <3>2. x \in Shelters
      BY <1>1 DEF TypeOK
    <3> QED
      BY <3>1, <3>2, <1>15
  <2> QED
    BY <2>2, <2>3
<1> QED
  BY <1>21, <1>22, <1>23, <1>24, <1>25, <1>26, <1>27, <1>28, <1>29 DEF IInv

LEMMA PassKeeps ==
  ASSUME IInv, NEW s \in Shelters, Pass(s)
  PROVE  IInv'
<1>1. TypeOK
  BY DEF IInv
<1>2. phase = "place" /\ cands' = cands \ {s} /\ s \in cands /\ toPlace > 0 /\ used[zone] < MaxShelters
  BY DEF Pass, MorePlacing
<1>3. /\ zone \in Zones /\ people[zone] > 0 /\ placed[zone] + toPlace = people[zone]
      /\ \A x \in reach[zone] \ cands :
           \/ toPlace = 0
           \/ IF split THEN remaining[x] = 0 ELSE remaining[x] < people[zone]
  BY <1>2 DEF IInv, Serving
<1>4. /\ toPlace \in Nat /\ people[zone] \in Nat /\ placed[zone] \in Nat /\ used[zone] \in Nat
      /\ load[s] \in Nat /\ remaining[s] \in Nat
  BY <1>1, <1>3 DEF TypeOK
<1>5. \A x \in reach[zone] \ cands : IF split THEN remaining[x] = 0 ELSE remaining[x] < people[zone]
  <2>1. toPlace # 0
    BY <1>2, <1>4
  <2> QED
    BY <2>1, <1>3
<1>6. ~split => toPlace = people[zone]
  BY <1>2 DEF IInv, Whole
<1>7. UNCHANGED <<people, access, capacity, open, split, zone, phase, reach, toPlace, used, remaining, load, placed, unplaced, reason>>
  BY DEF Pass, inputVars, planVars
<1>8. IF split THEN remaining[s] = 0 ELSE remaining[s] < people[zone]
  <2>1. /\ Take(s) \in Nat
        /\ split => Take(s) = toPlace \/ Take(s) = remaining[s]
        /\ ~split => Take(s) = toPlace \/ (Take(s) = 0 /\ remaining[s] < toPlace)
    BY <1>1, TakeBounds
  <2>2. Take(s) = 0 /\ Take(s) # toPlace
    <3>1. Take(s) <= 0
      BY DEF Pass
    <3> HIDE DEF Take
    <3> QED
      BY <2>1, <3>1, <1>2, <1>4
  <2> QED
    BY <2>1, <2>2, <1>6
<1>11. TypeOK'
  <2>1. cands' \in SUBSET Shelters
    BY <1>1, <1>2 DEF TypeOK
  <2> QED
    BY <1>1, <1>7, <2>1 DEF TypeOK
<1>12. RoomConserved' /\ Untouched' /\ Unreported' /\ Whole' /\ UsedBounded'
  BY <1>7 DEF IInv, RoomConserved, Capacity, Untouched, Unreported, Whole, UsedBounded
<1>13. Serving'
  <2>1. \A x \in reach[zone] \ (cands \ {s}) :
          IF split THEN remaining[x] = 0 ELSE remaining[x] < people[zone]
    BY <1>5, <1>8
  <2> QED
    BY <2>1, <1>2, <1>3, <1>7 DEF Serving
<1>14. EveryoneAccounted' /\ LeftoverMeansFull'
  BY <1>7 DEF IInv, EveryoneAccounted, LeftoverMeansFull
<1> QED
  BY <1>11, <1>12, <1>13, <1>14 DEF IInv

LEMMA NextIInv == IInv /\ [Next]_vars => IInv'
<1> SUFFICES ASSUME IInv, [Next]_vars PROVE IInv'
  OBVIOUS
<1>1. CASE NoShelters
  BY <1>1, NoSheltersKeeps
<1>2. CASE SkipZone
  BY <1>2, SkipZoneKeeps
<1>3. CASE NoAccess
  BY <1>3, NoAccessKeeps
<1>4. CASE FinishZone
  BY <1>4, FinishZoneKeeps
<1>5. ASSUME NEW R \in SUBSET open, open # {}, NoFeasible(R) PROVE IInv'
  BY <1>5, NoFeasibleKeeps
<1>6. ASSUME NEW R \in SUBSET open, open # {}, Rank(R) PROVE IInv'
  BY <1>6, RankKeeps
<1>7. ASSUME NEW s \in Shelters, Place(s) PROVE IInv'
  BY <1>7, PlaceKeeps
<1>8. ASSUME NEW s \in Shelters, Pass(s) PROVE IInv'
  BY <1>8, PassKeeps
<1>9. CASE UNCHANGED vars
  BY <1>9 DEF vars, inputVars, planVars, IInv, TypeOK, RoomConserved, Capacity, Untouched,
              Unreported, Serving, Whole, UsedBounded, EveryoneAccounted, LeftoverMeansFull
<1> QED
  BY <1>1, <1>2, <1>3, <1>4, <1>5, <1>6, <1>7, <1>8, <1>9 DEF Next

THEOREM Inductive == Spec => []IInv
BY InitIInv, NextIInv, PTL DEF Spec

\* Every number in the plan is a natural number: no subtraction of the greedy
\* loop goes below zero.
THEOREM TypeCorrect == Spec => []TypeOK
<1>1. IInv => TypeOK
  BY DEF IInv
<1> QED
  BY <1>1, Inductive, PTL

\* No shelter is promised to more people than its effective capacity.
THEOREM NeverOverfilled == Spec => []CapacityRespected
<1>1. IInv => CapacityRespected
  <2> SUFFICES ASSUME IInv, NEW s \in Shelters PROVE load[s] <= Capacity(s)
    BY DEF CapacityRespected, Capacity
  <2>1. load[s] + remaining[s] = Capacity(s)
    BY DEF IInv, RoomConserved
  <2>2. load[s] \in Nat /\ remaining[s] \in Nat
    BY DEF IInv, TypeOK
  <2> QED
    BY <2>1, <2>2
<1> QED
  BY <1>1, Inductive, PTL

\* Overflow is never hidden: whoever is not placed is reported.
THEOREM NobodyLost == Spec => []EveryoneAccounted
<1>1. IInv => EveryoneAccounted
  BY DEF IInv
<1> QED
  BY <1>1, Inductive, PTL

\* A zone is left with people over only when what it can reach is full, or
\* when it has been given its maximum of shelters.
THEOREM GreedyIsThorough == Spec => []LeftoverMeansFull
<1>1. IInv => LeftoverMeansFull
  BY DEF IInv
<1> QED
  BY <1>1, Inductive, PTL

-----------------------------------------------------------------------------
(* The plan is an allocation in priority order. *)

Waiting == [z \in Zones |-> Undecided(z)]

LEMMA InitAllocates == Init => Allocation!Init
<1> SUFFICES ASSUME Init PROVE Allocation!Init
  OBVIOUS
<1>1. TypeOK /\ phase = "zone" /\ zone = 1
  BY InitIInv DEF Init, IInv
<1>2. \A z \in Zones : Undecided(z) \in Nat
  <2> SUFFICES ASSUME NEW z \in Zones PROVE Undecided(z) \in Nat
    OBVIOUS
  <2>1. people[z] \in Nat
    BY <1>1 DEF TypeOK
  <2> QED
    BY <1>1, <2>1 DEF Undecided
<1>3. remaining \in [Shelters -> Nat]
  BY <1>1 DEF TypeOK
<1> QED
  BY <1>2, <1>3 DEF Allocation!Init, Zones, Allocation!Zones

\* The zones before the one being served are decided.
LEMMA TurnOfServed ==
  ASSUME zone \in Zones
  PROVE  Allocation!Turn(zone)
BY DEF Allocation!Turn, Allocation!Zones, Zones, Undecided

\* Leaving a zone behind decides all of it.
LEMMA LeavingGivesUp ==
  ASSUME zone \in Zones, zone' = zone + 1, phase' = "zone", people' = people, remaining' = remaining
  PROVE  Allocation!Next
<1>1. \A x \in Zones : Undecided(x)' = (IF x = zone THEN 0 ELSE Undecided(x))
  <2> SUFFICES ASSUME NEW x \in Zones
      PROVE  Undecided(x)' = (IF x = zone THEN 0 ELSE Undecided(x))
    OBVIOUS
  <2>1. zone \in Int /\ x \in Int
    BY EvacuationAssumption DEF Zones
  <2>2. (x < zone' <=> x < zone \/ x = zone) /\ (x < zone => x # zone)
    BY <2>1
  <2> QED
    BY <2>2 DEF Undecided
<1>2. \A x \in Zones : x \in zone..zone <=> x = zone
  BY EvacuationAssumption DEF Zones
<1>3. Waiting' = [x \in Zones |-> IF x \in zone..zone THEN 0 ELSE Waiting[x]]
  BY <1>1, <1>2 DEF Waiting
<1>4. Allocation!GiveUp(zone, zone)
  BY <1>3, TurnOfServed DEF Waiting, Allocation!GiveUp, Allocation!Zones, Zones
<1> QED
  BY <1>4 DEF Allocation!Next, Allocation!Zones, Zones

LEMMA StepAllocates == IInv /\ [Next]_vars => [Allocation!Next]_(Allocation!vars)
<1> SUFFICES ASSUME IInv, [Next]_vars PROVE Allocation!Next \/ UNCHANGED <<Waiting, remaining>>
  BY DEF Allocation!vars, Waiting
<1>1. TypeOK
  BY DEF IInv
<1>2. CASE NoShelters
  <2>1. /\ zone = 1 /\ zone' = N + 1 /\ zone <= N /\ remaining' = remaining
    BY <1>2 DEF NoShelters, AtZone
  <2>2. N \in Nat /\ 1 \in Zones /\ N \in Zones /\ zone \in Zones
    BY <2>1, EvacuationAssumption DEF Zones
  <2>3. \A x \in Zones : x < N + 1 /\ x \in 1..N
    BY EvacuationAssumption DEF Zones
  <2>4. Waiting' = [x \in Zones |-> IF x \in 1..N THEN 0 ELSE Waiting[x]]
    BY <2>1, <2>3 DEF Waiting, Undecided
  <2>5. Allocation!Turn(1)
    BY <2>1, <2>2, TurnOfServed
  <2>6. Allocation!GiveUp(1, N)
    BY <2>1, <2>4, <2>5 DEF Waiting, Allocation!GiveUp, Allocation!Zones, Zones
  <2> QED
    BY <2>2, <2>6 DEF Allocation!Next, Allocation!Zones, Zones
<1>3. CASE SkipZone
  <2>1. phase' = "zone" /\ zone' = zone + 1 /\ zone <= N /\ people' = people /\ remaining' = remaining
    BY <1>3 DEF SkipZone, AtZone, inputVars, planVars
  <2> QED
    BY <1>1, <2>1, ZoneServed, LeavingGivesUp
<1>4. CASE NoAccess
  <2>1. phase' = "zone" /\ zone' = zone + 1 /\ zone <= N /\ people' = people /\ remaining' = remaining
    BY <1>4 DEF NoAccess, AtZone, inputVars
  <2> QED
    BY <1>1, <2>1, ZoneServed, LeavingGivesUp
<1>5. CASE FinishZone
  <2>1. phase' = "zone" /\ zone' = zone + 1 /\ people' = people /\ remaining' = remaining /\ phase = "place"
    BY <1>5 DEF FinishZone, inputVars
  <2>2. zone \in Zones
    BY <2>1 DEF IInv, Serving
  <2> QED
    BY <2>1, <2>2, LeavingGivesUp
<1>6. ASSUME NEW R \in SUBSET open, NoFeasible(R) PROVE Allocation!Next
  <2>1. phase' = "zone" /\ zone' = zone + 1 /\ zone <= N /\ people' = people /\ remaining' = remaining
    BY <1>6 DEF NoFeasible, AtZone, inputVars
  <2> QED
    BY <1>1, <2>1, ZoneServed, LeavingGivesUp
<1>7. ASSUME NEW R \in SUBSET open, Rank(R) PROVE UNCHANGED <<Waiting, remaining>>
  <2>1. /\ phase = "zone" /\ phase' = "place" /\ toPlace' = people[zone]
        /\ zone' = zone /\ people' = people /\ remaining' = remaining
    BY <1>7 DEF Rank, AtZone, inputVars, planVars
  <2>2. \A x \in Zones : Undecided(x)' = Undecided(x)
    BY <2>1 DEF Undecided
  <2> QED
    BY <2>1, <2>2 DEF Waiting
<1>8. ASSUME NEW s \in Shelters, Place(s) PROVE Allocation!Next
  <2> DEFINE t == Take(s)
  <2>1. /\ phase = "place" /\ phase' = phase /\ zone' = zone /\ people' = people
        /\ toPlace' = toPlace - t /\ remaining' = [remaining EXCEPT ![s] = @ - t] /\ t > 0
    BY <1>8 DEF Place, MorePlacing, inputVars
  <2>2. zone \in Zones
    BY <2>1 DEF IInv, Serving
  <2>3. t \in Nat /\ t <= toPlace /\ t <= remaining[s]
    BY <1>1, TakeBounds
  <2> HIDE DEF t
  <2>4. ~(zone < zone)
    BY <2>2, ZoneNumbers
  <2>5. Waiting[zone] = toPlace
    BY <2>1, <2>2, <2>4 DEF Waiting, Undecided
  <2>6. Waiting' = [Waiting EXCEPT ![zone] = @ - t]
    <3>1. \A x \in Zones : Undecided(x)' = (IF x = zone THEN toPlace - t ELSE Undecided(x))
      BY <2>1, <2>4 DEF Undecided
    <3> QED
      BY <3>1, <2>2, <2>5 DEF Waiting
  <2>7. t \in 1..Waiting[zone]
    <3>1. toPlace \in Nat
      BY <1>1 DEF TypeOK
    <3>2. t \in 1..toPlace
      BY <3>1, <2>1, <2>3
    <3> QED
      BY <3>2, <2>5
  <2>8. Allocation!Move(zone, s)
    BY <2>1, <2>2, <2>3, <2>6, <2>7, TurnOfServed DEF Waiting, Allocation!Move, Allocation!Zones, Zones
  <2> QED
    BY <2>2, <2>8 DEF Allocation!Next, Allocation!Zones, Zones
<1>9. ASSUME NEW s \in Shelters, Pass(s) PROVE UNCHANGED <<Waiting, remaining>>
  <2>1. UNCHANGED <<people, zone, phase, toPlace, remaining>>
    BY <1>9 DEF Pass, inputVars, planVars
  <2> QED
    BY <2>1 DEF Waiting, Undecided
<1>10. CASE UNCHANGED vars
  BY <1>10 DEF vars, inputVars, planVars, Waiting, Undecided
<1> QED
  BY <1>2, <1>3, <1>4, <1>5, <1>6, <1>7, <1>8, <1>9, <1>10 DEF Next

\* The detailed plan implements the abstract allocation: people only move into
\* room that is free, zones are served in priority order, and a zone is given
\* up only in its turn.
THEOREM PlanAllocates == Spec => Allocates
<1>1. Spec => Allocation!Init /\ [][Allocation!Next]_(Allocation!vars)
  BY InitAllocates, StepAllocates, Inductive, PTL DEF Spec
<1> QED
  BY <1>1 DEF Allocates, Allocation!Spec
=============================================================================
