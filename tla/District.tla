-------------------------------- MODULE District --------------------------------
(***************************************************************************)
(* The open state of the browser build, frontend/standalone/src: its zones,*)
(* the relocation queue, its shelters and the evacuation plan (data.js and *)
(* states.js), and everything that changes them: opening a state, the      *)
(* hazard switch, the pipeline's ticks and the events they draw (boot.js), *)
(* measured figures (livedata.js) and the operator's shelter form          *)
(* (actions.js).                                                           *)
(*                                                                         *)
(* A risk is a band: NoData, Low (under 20), Mid, High (60 and over).      *)
(* Places, supplies and travel times are small numbers, and water and food *)
(* are one supply that limits a shelter below two days.                    *)
(***************************************************************************)
EXTENDS Integers, FiniteSets, FiniteSetsExt, Sequences, Ordering, Page

CONSTANTS
  Hazards,       \* S.hazard
  Primary,       \* Primary[st]: stateProfile(st).pri
  Zones,         \* S.cells: numbers, in the order of their index
  Shelters,      \* S.shelters: numbers, in the order of the register
  Register,      \* Register[st][s]: the row drawn for shelter s of the state
  Base,          \* Base[st][h]: P.hz, the hazards the state has at all
  Ground,        \* Ground[st][h][z]: per cent, what the zone's terrain makes of them
  Clocks,        \* per hazard and in per cent, the factors of the seasons
  People,        \* People[h][z]: people_to_move
  Merit,         \* Merit[h][z]: the terms of the score that are not risk
  Distance,      \* Distance[z][s]
  RoadZone,      \* the zone of the road that is followed
  Blocking,      \* hazards for which ROAD_CAUSE shuts a road
  MaxPlanned,    \* 14: the zones a plan serves
  MaxSplit,      \* 3: the shelters one zone is sent to
  PerStaff,      \* 250: people one responder looks after
  Forms          \* bound: the figures an operator may submit

NoData == -1
Low == 0
Mid == 1
High == 2

NoShelter == 0

ASSUME DistrictAssumption ==
  /\ Home \in States
  /\ Zones \subseteq Nat /\ IsFiniteSet(Zones)
  /\ Shelters \subseteq Nat \ {NoShelter} /\ IsFiniteSet(Shelters)
  /\ Primary \in [States -> Hazards] /\ RoadZone \in Zones
  /\ MaxPlanned \in Nat /\ MaxSplit \in Nat /\ PerStaff \in Nat
  /\ People \in [Hazards -> [Zones -> Nat]] /\ Merit \in [Hazards -> [Zones -> Nat]]
  /\ Distance \in [Zones -> [Shelters -> Nat]]
  /\ \A st \in States : /\ Primary[st] \in DOMAIN Base[st] /\ DOMAIN Base[st] \subseteq Hazards
                         /\ Ground[st] \in [DOMAIN Base[st] -> [Zones -> Nat \union {NoData}]]
  /\ Clocks \subseteq [Hazards -> Nat] /\ Blocking \subseteq Hazards
  /\ Register \in [States -> [Shelters -> [zone : Zones, size : Nat, occ : Nat, days : 0..2,
                     staff : Nat, state : {"open", "standby", "compromised"}]]]
  /\ Forms \subseteq [occ : Nat, days : 0..2, staff : Nat]

VARIABLES
  hazard,   \* S.hazard
  risk,     \* risk of S.cells, per hazard
  shelter,  \* S.shelters
  blocked,  \* the road of RoadZone is blocked, flooded or under a landslide
  queue,    \* S.priorities
  plan      \* S.routes: what each zone sends where; NoShelter is unassigned

districtVars == <<focus, hazard, risk, shelter, blocked, queue, plan>>

-----------------------------------------------------------------------------
(* What a state is opened with: states.js *)

Band(v) == IF v < 20 THEN Low ELSE IF v < 60 THEN Mid ELSE High

\* The grid in a season.  A locality may have no figure.
CellsIn(st, clock) ==
  [h \in Hazards |-> [z \in Zones |->
    IF h \notin DOMAIN Base[st] \/ Ground[st][h][z] = NoData THEN NoData
    ELSE Band(Min({100, (Base[st][h] * Ground[st][h][z] * clock[h]) \div 10000}))]]

BuildStateCells(st) == {CellsIn(st, clock) : clock \in Clocks}

\* A shelter filled to 90 % is down as full whatever its row says.
BuildStateShelters(st) ==
  [s \in Shelters |-> [Register[st][s] EXCEPT
     !.state = IF Register[st][s].occ * 10 >= Register[st][s].size * 9 THEN "full" ELSE @]]

BuildStateRoads(st) == Primary[st] \in Blocking

-----------------------------------------------------------------------------
(* Capacity: mkShelters, recomputeShelter and doSaveShelter *)

\* 90 % of the floor is filled.
Space(s) == IF (s.size * 9) \div 10 > s.occ THEN (s.size * 9) \div 10 - s.occ ELSE 0

Staffed(s) == IF s.staff * PerStaff > s.occ THEN s.staff * PerStaff - s.occ ELSE 0

Supplied(s) == IF s.days >= 2 THEN Space(s) ELSE (Space(s) * s.days) \div 2

Usable(s) == Min({Space(s), Supplied(s), Staffed(s)})

\* recomputeShelter.  The halving of a standby shelter is not among its rules.
Recomputed(s) == [s EXCEPT !.eff = IF s.operational THEN Usable(s) ELSE 0]

\* mkShelters, with the hazard layer of the state left behind.
Opened(row, cells) ==
  LET fit == row.state # "compromised" /\ cells[hazard][row.zone] # High
  IN [zone |-> row.zone, size |-> row.size, occ |-> row.occ, days |-> row.days,
      staff |-> row.staff, state |-> row.state, operational |-> fit,
      eff |-> IF ~fit THEN 0 ELSE IF row.state = "standby" THEN Usable(row) \div 2
              ELSE Usable(row)]

-----------------------------------------------------------------------------
(* The queue: computePriorities *)

\* What the score is made of: risk, and what exposure, vulnerability and the time to
\* impact add, taken as fixed for a zone.
ZoneScore(h, cells, z) == cells[h][z] + Merit[h][z]

\* The order of the merge sort: the score, then the index of the zone.
Before(h, cells) ==
  {p \in Zones \X Zones :
     \/ ZoneScore(h, cells, p[1]) > ZoneScore(h, cells, p[2])
     \/ ZoneScore(h, cells, p[1]) = ZoneScore(h, cells, p[2]) /\ p[1] < p[2]}

QueueFor(h, cells) ==
  LET zones == Arranged({z \in Zones : cells[h][z] >= Mid}, Before(h, cells))
  IN [i \in DOMAIN zones |-> [zone |-> zones[i], people |-> People[h][zones[i]]]]

-----------------------------------------------------------------------------
(* The plan: computeRoutes *)

Detour(z, s, reg, shut) == shut /\ RoadZone \in {z, reg[s].zone}

\* Travel time with what lies on the way, less a bonus for the room that is left.
Cost(e, s, reg, shut, left) ==
  Distance[e.zone][s]
    + (IF Detour(e.zone, s, reg, shut) THEN 1 ELSE 0)
    - Min({left[s] \div (IF e.people > 1 THEN e.people ELSE 1), 2})

Cheaper(e, reg, shut, left) ==
  {p \in Shelters \X Shelters :
     LET c(s) == Cost(e, s, reg, shut, left)
     IN c(p[1]) < c(p[2]) \/ (c(p[1]) = c(p[2]) /\ p[1] < p[2])}

Candidates(e, reg, shut, left) ==
  Arranged({s \in Shelters : reg[s].operational /\ left[s] > 0}, Cheaper(e, reg, shut, left))

\* One candidate: until the zone is placed or split often enough.
Send(a, e, s) ==
  LET take == Min({a.rest, a.left[s]})
  IN IF a.rest = 0 \/ a.used = MaxSplit THEN a
     ELSE [left |-> [a.left EXCEPT ![s] = @ - take], rest |-> a.rest - take,
           used |-> a.used + 1,
           rows |-> a.rows \union {[zone |-> e.zone, to |-> s, people |-> take]}]

\* What is sent and left after each candidate.
Sends(acc, e, to) ==
  LET sent[i \in 0..Len(to)] ==
        IF i = 0 THEN [left |-> acc.left, rest |-> e.people, used |-> 0, rows |-> acc.rows]
        ELSE Send(sent[i - 1], e, to[i])
  IN sent

\* One zone.  The people left over are a row of their own.
PlaceZone(acc, e, reg, shut) ==
  LET to == Candidates(e, reg, shut, acc.left)
      end == Sends(acc, e, to)[Len(to)]
  IN [left |-> end.left,
      rows |-> IF end.rest = 0 THEN end.rows
               ELSE end.rows \union {[zone |-> e.zone, to |-> NoShelter, people |-> end.rest]}]

\* What a plan starts from.
Room(reg) == [s \in Shelters |-> IF reg[s].operational THEN reg[s].eff ELSE 0]

\* What is left and sent after each zone.
Placements(q, reg, shut, n) ==
  LET placed[i \in 0..n] ==
        IF i = 0 THEN [left |-> Room(reg), rows |-> {}]
        ELSE PlaceZone(placed[i - 1], q[i], reg, shut)
  IN placed

\* How many zones of the queue the plan serves.
Served(q) == IF Len(q) < MaxPlanned THEN Len(q) ELSE MaxPlanned

PlanFor(q, reg, shut) == Placements(q, reg, shut, Served(q))[Served(q)].rows

\* computeRoutes, on the queue as it is.
Reroute == plan' = PlanFor(queue', shelter', blocked')

\* computePriorities and computeRoutes.
Reorder == queue' = QueueFor(hazard', risk') /\ Reroute

-----------------------------------------------------------------------------
(* Opening a state and the layer shown *)

\* loadState: the layer is replaced by the state's own when it has no such
\* hazard, after the shelters were rated.
Load(st) ==
  \E cells \in BuildStateCells(st) :
    /\ focus' = st
    /\ risk' = cells
    /\ shelter' = [s \in Shelters |-> Opened(BuildStateShelters(st)[s], cells)]
    /\ hazard' = IF \E z \in Zones : cells[hazard][z] # NoData THEN hazard ELSE Primary[st]
    /\ blocked' = BuildStateRoads(st)
    /\ Reorder

DistrictInit ==
  /\ focus = Home /\ hazard = Primary[Home]
  /\ risk \in BuildStateCells(Home)
  /\ shelter = [s \in Shelters |-> Opened(BuildStateShelters(Home)[s], risk)]
  /\ blocked = BuildStateRoads(Home)
  /\ queue = QueueFor(hazard, risk)
  /\ plan = PlanFor(queue, shelter, blocked)

\* A click on the map, the search or the assistant.
PickState(st) == Load(st)

\* Mutation: only the plan is recomputed, from the queue of the last layer.
SetHazardRoutesOnly(h) ==
  /\ hazard' = h
  /\ UNCHANGED <<focus, risk, shelter, blocked, queue>>
  /\ Reroute

\* The shelters keep the rating they were given for the layer of their opening.
SetHazard(h) ==
  /\ hazard' = h
  /\ UNCHANGED <<focus, risk, shelter, blocked>>
  /\ Reorder

-----------------------------------------------------------------------------
(* The pipeline *)

\* driftCells over one zone; a zone without data stays without.
Drift(h, z) ==
  /\ risk[h][z] # NoData
  /\ risk' \in {[risk EXCEPT ![h][z] = b] : b \in {risk[h][z] - 1, risk[h][z] + 1} \intersect Low..High}

\* Three ticks in four move the figures and leave the queue and the plan alone.
PartialTick ==
  /\ \E h \in Hazards, z \in Zones : Drift(h, z)
  /\ UNCHANGED <<focus, hazard, shelter, blocked, queue, plan>>

OrderAgain == UNCHANGED <<focus, hazard>> /\ Reorder

FullTick ==
  /\ UNCHANGED <<risk, shelter, blocked>>
  /\ OrderAgain

\* The event of a full tick: a zone of the shown layer rises by up to a band.
RiskRises(z) ==
  /\ risk[hazard][z] \in Low..Mid
  /\ risk' = [risk EXCEPT ![hazard][z] = @ + 1]
  /\ UNCHANGED <<shelter, blocked>>
  /\ OrderAgain

\* Mutation: the ordering comes before the event.
ArrivalsAfterOrdering(s) ==
  /\ shelter[s].operational
  /\ shelter[s].occ < shelter[s].size
  /\ shelter' = [shelter EXCEPT ![s] = Recomputed([@ EXCEPT !.occ = @ + 1])]
  /\ queue' = QueueFor(hazard, risk) /\ plan' = PlanFor(queue', shelter, blocked)
  /\ UNCHANGED <<focus, hazard, risk, blocked>>

\* People arrive, up to a little more than the shelter holds, and supplies fall.
Arrivals(s) ==
  /\ shelter[s].operational
  /\ shelter[s].occ < shelter[s].size \/ shelter[s].days > 0
  /\ \E used \in {0, 1} :
       LET r == shelter[s] IN
       shelter' = [shelter EXCEPT ![s] = Recomputed(
         [r EXCEPT !.occ = Min({r.occ + 1, r.size}),
                   !.days = IF r.days >= used THEN r.days - used ELSE 0])]
  /\ UNCHANGED <<risk, blocked>>
  /\ OrderAgain

RoadChange ==
  /\ blocked' = ~blocked
  /\ UNCHANGED <<risk, shelter>>
  /\ OrderAgain

\* applyObservations puts the zones of a measured hazard where the reading says.
Observe(h) ==
  /\ \E level \in [Zones -> Low..High] :
       risk' = [risk EXCEPT ![h] = [z \in Zones |-> IF @[z] = NoData THEN NoData ELSE level[z]]]
  /\ UNCHANGED <<shelter, blocked>>
  /\ OrderAgain

\* doSaveShelter: the queue stays, the plan is made again.
SaveShelter(s, form) ==
  /\ shelter' = [shelter EXCEPT ![s] =
       Recomputed([@ EXCEPT !.occ = form.occ, !.days = form.days, !.staff = form.staff])]
  /\ UNCHANGED <<focus, hazard, risk, blocked, queue>>
  /\ Reroute

DistrictNext ==
  \/ \E st \in States : PickState(st)
  \/ \E h \in Hazards : SetHazard(h) \/ Observe(h)
  \/ PartialTick \/ FullTick \/ RoadChange
  \/ \E z \in Zones : RiskRises(z)
  \/ \E s \in Shelters : Arrivals(s) \/ (\E form \in Forms : SaveShelter(s, form))

DistrictSpec == DistrictInit /\ [][DistrictNext]_districtVars

-----------------------------------------------------------------------------
(* Properties *)

\* The people in a set of rows, one by one.
Persons(rows) == UNION {{r} \X (1..r.people) : r \in rows}

SentTo(s) == Cardinality(Persons({r \in plan : r.to = s}))

SentFrom(z) == Cardinality(Persons({r \in plan : r.zone = z}))

\* The plan on the screen never promises a place the shelters on the screen do not
\* have: whatever arrived, was reported or was reloaded since, each shelter is sent
\* at most its effective capacity, and one that is out of use nobody (computeRoutes).
PlanFits ==
  \A s \in Shelters : SentTo(s) <= Room(shelter)[s]

\* Every person of the zones first in the queue is in the plan, for the layer that
\* is shown, and people are left without a place only when the zone was split as
\* often as allowed or nothing is left in any shelter.
PlanServesQueue ==
  LET served == {queue[i] : i \in 1..Served(queue)}
  IN /\ {r.zone : r \in plan} \subseteq {e.zone : e \in served}
     /\ \A e \in served :
          /\ SentFrom(e.zone) = People[hazard][e.zone]
          /\ (\E r \in plan : r.zone = e.zone /\ r.to = NoShelter) =>
               \/ Cardinality({r \in plan : r.zone = e.zone /\ r.to # NoShelter}) = MaxSplit
               \/ \A s \in Shelters : shelter[s].operational => SentTo(s) = shelter[s].eff
================================================================================
