-------------------------------- MODULE Surface --------------------------------
(***************************************************************************)
(* The risk figures of the browser build and what they rest on, frontend/  *)
(* standalone/src/livedata.js and boot.js: three public services polled by *)
(* the page, their freshness windows, the figures an answer replaces, and  *)
(* the generator that moves every figure no measurement holds.             *)
(*                                                                         *)
(* Each service that carries hazards is given one of them.  A figure of    *)
(* the open state is the number of the reading it shows, or Model.  A cell *)
(* of its grid stands at the model's level, at its anchor, or at its       *)
(* anchor plus a point an event invented; the anchor is a reading plus the *)
(* cell's distance from the state's figure, which is its terrain as long   *)
(* as both stood at the same level when it was taken.                      *)
(***************************************************************************)
EXTENDS Integers, FiniteSets

CONSTANTS
  Sources,     \* LIVEDATA.src
  Carriers,    \* the sources HAZARD_SOURCE names
  Local,       \* the sources that fill LIVEDATA.obs: weather and flood
  Jobs,        \* bound: calls of pullAll that may be waiting at once
  Cadence, StaleAfter,   \* in ticks, per source
  MaxReadings  \* bound: readings each service publishes

ASSUME SurfaceAssumption ==
  /\ Jobs \subseteq Nat /\ Carriers \subseteq Sources /\ Local \subseteq Sources
  /\ Cadence \in [Sources -> Nat] /\ StaleAfter \in [Sources -> Nat \ {0}]
  /\ MaxReadings \in [Sources -> Nat]

VARIABLES
  newest,  \* the service's latest reading
  status,  \* LIVEDATA.src[k].status
  age,     \* ticks since LIVEDATA.src[k].at, up to the end of the window
  obs,     \* the reading in LIVEDATA.obs (LIVEDATA.quakes)
  job,     \* job[j][k]: idle, or the newest reading when the request was sent
  live,    \* st.live of the open state
  fig,     \* st.hz of the open state
  cell,    \* where a cell of its grid stands
  anchor   \* c.anchor: none, a reading plus terrain, or mixed

Model == 0     \* no reading
Idle == -1

pullVars == <<newest, status, age, obs, job>>
figureVars == <<live, fig, cell, anchor>>
surfaceVars == <<pullVars, figureVars>>

SurfaceInit ==
  /\ newest = [k \in Sources |-> 1]
  /\ status = [k \in Sources |-> "idle"]
  /\ age = StaleAfter
  /\ obs = [k \in Sources |-> 0]
  /\ job = [j \in Jobs |-> [k \in Sources |-> Idle]]
  /\ live = [k \in Carriers |-> 0] /\ fig = [k \in Carriers |-> Model]
  /\ cell = [k \in Carriers |-> "model"] /\ anchor = [k \in Carriers |-> "none"]

\* sourceFresh, and the same test in applyObservations and syncSourceRows.
Fresh(k) == status[k] = "live" /\ age[k] < StaleAfter[k]

\* liveAnchored
Anchored(k) == Fresh(k) /\ live[k] # 0

\* provenance: what the badge says once something has connected.
Label == CASE \A k \in Sources : Fresh(k) -> "live"
           [] \A k \in Sources : ~Fresh(k) -> "stale"
           [] OTHER -> "partial"

-----------------------------------------------------------------------------
(* Polling *)

Due(k) == age[k] >= Cadence[k] \/ status[k] # "live"

Waiting(j) == \E k \in Sources : job[j][k] # Idle

\* The slot a new call of pullAll takes.
Free(j) == ~Waiting(j) /\ \A i \in Jobs : i < j => Waiting(i)

Ask(j, asked) ==
  job' = [job EXCEPT ![j] = [k \in Sources |-> IF k \in asked THEN newest[k] ELSE Idle]]

\* The minute's timer, or the tab becoming visible.  Nothing looks at requests
\* that are already under way.
PullAll(j) ==
  /\ Free(j)
  /\ \E k \in Sources : Due(k)
  /\ Ask(j, {k \in Sources : Due(k)})
  /\ UNCHANGED <<newest, status, age, obs, figureVars>>

\* A click on the badge: every source is made due by forgetting when it answered.
LiveRefreshNow(j) ==
  /\ Free(j)
  /\ age' = StaleAfter
  /\ Ask(j, Sources)
  /\ UNCHANGED <<newest, status, obs, figureVars>>

\* The cell is anchored anew wherever the state has ever been measured; its
\* distance is taken from the figure the state showed a moment ago.
Level(k) == IF cell[k] = "model" THEN Model
            ELSE IF cell[k] = "anchored" /\ anchor[k] = "terrain" THEN live[k] ELSE Idle

ApplyToCells ==
  LET measured == {k \in Carriers : live'[k] # 0}
  IN /\ anchor' = [k \in Carriers |-> IF k \notin measured THEN anchor[k]
                                      ELSE IF Level(k) = fig[k] THEN "terrain" ELSE "mixed"]
     /\ cell' = [k \in Carriers |-> IF k \in measured THEN "anchored" ELSE cell[k]]

\* applyObservations, with the readings `got` and the fresh sources `ok`.
ApplyObservations(got, ok) ==
  LET applied == {k \in Carriers \intersect ok : got[k] # 0}
      some == (Carriers \intersect ok) # {} /\ \E k \in Local : got[k] # 0
  IN IF ~some THEN UNCHANGED figureVars
     ELSE /\ live' = [k \in Carriers |-> IF k \in applied THEN got[k] ELSE live[k]]
          /\ fig' = [k \in Carriers |-> IF k \in applied THEN got[k] ELSE fig[k]]
          /\ ApplyToCells

\* Mutation: the observations are applied before the last answer is stored.
SettleBefore(j, k) ==
  /\ job[j][k] # Idle
  /\ job' = [job EXCEPT ![j][k] = Idle]
  /\ IF \A s \in Sources \ {k} : job[j][s] = Idle
       THEN ApplyObservations(obs, {s \in Sources : status[s] = "live" /\ age[s] < StaleAfter[s]})
       ELSE UNCHANGED figureVars
  /\ UNCHANGED newest

\* One answer of a pullAll.  The observations are applied when its last one is in.
Settle(j, k) ==
  /\ job[j][k] # Idle
  /\ job' = [job EXCEPT ![j][k] = Idle]
  /\ IF \A s \in Sources \ {k} : job[j][s] = Idle
       THEN ApplyObservations(obs', {s \in Sources : status'[s] = "live" /\ age'[s] < StaleAfter[s]})
       ELSE UNCHANGED figureVars
  /\ UNCHANGED newest

\* A usable answer, with a reading the service had at some time since it was asked.
Arrives(j, k) ==
  /\ \E r \in job[j][k]..newest[k] : obs' = [obs EXCEPT ![k] = r]
  /\ status' = [status EXCEPT ![k] = "live"]
  /\ age' = [age EXCEPT ![k] = 0]
  /\ Settle(j, k)

\* An error, an unusable answer, or the deadline of getJSON.
Fails(j, k) ==
  /\ status' = [status EXCEPT ![k] = "failed"]
  /\ UNCHANGED <<obs, age>>
  /\ Settle(j, k)

-----------------------------------------------------------------------------
(* The generator *)

DriftCells ==
  [k \in Carriers |-> IF Anchored(k) /\ anchor[k] # "none" THEN "anchored" ELSE "model"]

\* Mutation: a figure once measured is never given back.
DriftNationFrozen == [k \in Carriers |-> live[k]]

\* Mutation: only the cells hold their measurement, the figure wanders.
DriftNationAll == [k \in Carriers |-> Model]

\* Measured figures are put back, the others wander; the open state takes the
\* peak of its cells.
DriftNation == [k \in Carriers |-> IF Anchored(k) THEN live[k] ELSE Model]

PipelineTick ==
  /\ fig' = DriftNation
  /\ cell' = DriftCells
  /\ UNCHANGED <<pullVars, live, anchor>>

\* One tick in twelve draws an event after the drift: here, a zone changes band.
BandChange(k) ==
  /\ fig' = DriftNation
  /\ cell' = [DriftCells EXCEPT ![k] = IF @ = "model" THEN "model" ELSE "bumped"]
  /\ UNCHANGED <<pullVars, live, anchor>>

\* Opening another state: its grid is built without anchors.
RebuildCells ==
  /\ cell' = [k \in Carriers |-> "model"]
  /\ anchor' = [k \in Carriers |-> "none"]
  /\ UNCHANGED <<pullVars, live, fig>>

-----------------------------------------------------------------------------
(* The services and time *)

Publish(k) ==
  /\ newest[k] < MaxReadings[k]
  /\ newest' = [newest EXCEPT ![k] = @ + 1]
  /\ UNCHANGED <<status, age, obs, job, figureVars>>

Tick ==
  /\ \E k \in Sources : age[k] < StaleAfter[k]
  /\ age' = [k \in Sources |-> IF age[k] < StaleAfter[k] THEN age[k] + 1 ELSE age[k]]
  /\ UNCHANGED <<newest, status, obs, job, figureVars>>

SurfaceNext ==
  \/ \E j \in Jobs : PullAll(j) \/ LiveRefreshNow(j)
  \/ \E j \in Jobs, k \in Sources : Arrives(j, k) \/ Fails(j, k)
  \/ PipelineTick \/ RebuildCells \/ Tick
  \/ \E k \in Carriers : BandChange(k)
  \/ \E k \in Sources : Publish(k)

SurfaceSpec == SurfaceInit /\ [][SurfaceNext]_surfaceVars

\* The timers keep firing, most ticks draw no event, and every request ends within its deadline.
FairSurfaceSpec ==
  /\ SurfaceSpec
  /\ WF_surfaceVars(PipelineTick)
  /\ WF_surfaceVars(\E j \in Jobs : PullAll(j))
  /\ \A j \in Jobs, k \in Sources : WF_surfaceVars(Arrives(j, k) \/ Fails(j, k))

-----------------------------------------------------------------------------
(* Properties *)

\* An observed figure holds until the next observation (boot.js, driftNation):
\* while its source is in its window, only another reading replaces it.
MeasurementHolds ==
  [][\A k \in Carriers :
       fig[k] # Model /\ Fresh(k) /\ Fresh(k)' /\ fig'[k] # fig[k] => fig'[k] = obs'[k]]_surfaceVars

\* Once a reading ages out or its source fails, the model takes the figure and the
\* cells back rather than the screen freezing (livedata.js, liveAnchored).
ModelTakesBack ==
  \A k \in Carriers : ~Fresh(k) ~> \/ fig[k] = Model /\ cell[k] = "model"
                                   \/ Fresh(k)

\* "live requires the whole observed picture to be in" (livedata.js, provenance):
\* while the badge says so, the figures become the readings.
LiveMeansObserved ==
  Label = "live" ~> \/ Label # "live"
                    \/ \A k \in Carriers : fig[k] # Model
================================================================================
