------------------------------ MODULE Ingestion ------------------------------
(***************************************************************************)
(* One primary source of backend/app/ingestion through its polling loop:   *)
(* DataConnector.run and with_retry (base.py), the weather tick of the     *)
(* orchestrator that polls it, records the run in data_sources and decides *)
(* whether its supplementary source must stand in, and the quality loop    *)
(* that marks it stale and tells the dashboards.  The primary is imd,      *)
(* which openmeteo covers.                                                 *)
(*                                                                         *)
(* Time is kept as ages, which Elapse advances and which count no further  *)
(* than Old, one more than the staleness window.  A connector is built for *)
(* each run, so its circuit breaker and _last_success begin anew and are   *)
(* no state.                                                               *)
(***************************************************************************)
EXTENDS Naturals

CONSTANTS
  MaxRetries,   \* SourceConfig.max_retries
  Window,       \* staleness_threshold_s, in units of time
  MaxRestarts   \* bound: restarts of the worker

ASSUME IngestionAssumption ==
  /\ MaxRetries \in Nat \ {0}
  /\ Window \in Nat /\ MaxRestarts \in Nat

VARIABLES
  config,     \* "on", "no_credentials" (or no endpoint path) or "disabled"
  grid,       \* spatial_cells holds the districts' cells
  upstream,   \* what the source answers now
  step,       \* where tick_ingest_weather is; "idle" between two ticks
  attempt,    \* with_retry: the attempt under way
  batch,      \* the answer being stored
  result,     \* RunResult: ok and state
  runAge,     \* time since result.finished_at
  row,        \* data_sources: status and the age of last_success_at
  stored,     \* time since the source last stored a record
  quality,    \* where tick_quality is
  report,     \* its payload for the source, and whether it is in changed
  frame,      \* the status the dashboards were last told
  restarts    \* restarts of the worker

deployment == <<config, grid>>
runVars == <<attempt, batch, result, runAge>>
qualityVars == <<quality, report, frame>>
vars == <<deployment, upstream, step, runVars, row, stored, qualityVars, restarts>>

Old == Window + 1
Never == Window + 2
OlderBy1(age) == IF age < Old THEN age + 1 ELSE age

\* "down": timeouts, 429 and 5xx, which with_retry retries.  "refuse": another
\* 4xx or an answer that cannot be read.  "silent": no records, or none that
\* validate and normalize accept; all imd can do until its normalize is
\* written.  "poor": some are stored, and the score is under 0.8.  "malformed":
\* a field validate cannot convert.
Answers == {"good", "poor", "silent"}
Conditions == Answers \cup {"down", "refuse", "malformed"}
SourceState == {"live", "degraded", "stale", "failed", "not_configured"}

NoResult == [ok |-> FALSE, state |-> "failed"]
NoReport == [status |-> "stale", changed |-> FALSE]

Init ==
  /\ config \in {"on", "no_credentials", "disabled"}
  /\ grid \in BOOLEAN
  /\ upstream \in Conditions
  /\ step = "idle"
  /\ attempt = 1 /\ batch = "silent" /\ result = NoResult /\ runAge = 0
  /\ \E boot \in {"stale", "not_configured"} :
       /\ config = "on" => boot = "stale"
       /\ config = "disabled" => boot = "not_configured"
       /\ row = [status |-> boot, age |-> Never]
  /\ stored = Old
  /\ quality = "idle" /\ report = NoReport /\ frame = row.status
  /\ restarts = 0

-----------------------------------------------------------------------------
(* DataConnector.run *)

\* The tick reaches the source; what needs no call has its result at once.
BeginTick ==
  /\ step = "idle"
  /\ step' = IF config = "on" THEN "fetch" ELSE "record"
  /\ attempt' = 1
  /\ result' = [ok |-> config = "disabled",
                state |-> IF config = "on" THEN "failed" ELSE "not_configured"]
  /\ runAge' = 0
  /\ UNCHANGED <<deployment, upstream, batch, row, stored, qualityVars, restarts>>

\* run() returned: [ok, state] goes to record_run, the rest is forgotten.
Returns(ok, state) ==
  /\ step' = "record"
  /\ result' = [ok |-> ok, state |-> state]
  /\ runAge' = 0
  /\ attempt' = 1 /\ batch' = "silent"

\* The loop begins again at its last attempt.
FetchRetryForever ==
  /\ step = "fetch" /\ upstream = "down"
  /\ attempt' = IF attempt < MaxRetries THEN attempt + 1 ELSE 1
  /\ UNCHANGED <<deployment, upstream, step, batch, result, runAge, row, stored,
                 qualityVars, restarts>>

\* A retryable failure before the last attempt.
FetchRetry ==
  /\ step = "fetch" /\ upstream = "down"
  /\ attempt < MaxRetries
  /\ attempt' = attempt + 1
  /\ UNCHANGED <<deployment, upstream, step, batch, result, runAge, row, stored,
                 qualityVars, restarts>>

\* Not contained: the tick ends with it.
FetchEscapes ==
  /\ step = "fetch"
  /\ \/ upstream = "down" /\ attempt = MaxRetries
     \/ upstream = "refuse"
  /\ step' = "idle"
  /\ attempt' = 1
  /\ UNCHANGED <<deployment, upstream, batch, result, runAge, row, stored,
                 qualityVars, restarts>>

\* The connector raised SourceUnavailable, or anything else: run() contains it.
FetchGivesUp ==
  /\ step = "fetch"
  /\ \/ upstream = "down" /\ attempt = MaxRetries
     \/ upstream = "refuse"
  /\ Returns(FALSE, "failed")
  /\ UNCHANGED <<deployment, upstream, row, stored, qualityVars, restarts>>

FetchAnswers ==
  /\ step = "fetch" /\ upstream \in Answers
  /\ step' = "store"
  /\ batch' = upstream
  /\ attempt' = 1
  /\ UNCHANGED <<deployment, upstream, result, runAge, row, stored,
                 qualityVars, restarts>>

\* validate raises, outside run()'s try blocks: the exception leaves run(),
\* _run_one and the tick, and _supervise catches it.
ValidateRaises ==
  /\ step = "fetch" /\ upstream = "malformed"
  /\ step' = "idle"
  /\ attempt' = 1
  /\ UNCHANGED <<deployment, upstream, batch, result, runAge, row, stored,
                 qualityVars, restarts>>

\* The score is 1 when nothing was rejected.
StateOfAccepted(b) == IF b \in {"good", "silent"} THEN "live" ELSE "degraded"

\* score_run: an empty answer scores 0, as one with no record accepted does.
StateOf(b) == IF b = "good" THEN "live" ELSE "degraded"

StoreOk ==
  /\ step = "store"
  /\ Returns(TRUE, StateOf(batch))
  /\ stored' = IF batch = "silent" THEN stored ELSE 0
  /\ UNCHANGED <<deployment, upstream, row, qualityVars, restarts>>

\* store() opens no transaction for an empty batch.
StoreFails ==
  /\ step = "store" /\ batch # "silent"
  /\ Returns(FALSE, "failed")
  /\ UNCHANGED <<deployment, upstream, row, stored, qualityVars, restarts>>

-----------------------------------------------------------------------------
(* The rest of the tick *)

Recorded ==
  /\ step' = "check"
  /\ result' = NoResult /\ runAge' = 0

\* A source marked stale stays so.
RecordRunKeepsStale ==
  /\ step = "record"
  /\ row' = [status |-> IF row.status = "stale" THEN "stale" ELSE result.state,
             age |-> IF result.ok THEN runAge ELSE row.age]
  /\ Recorded
  /\ UNCHANGED <<deployment, upstream, attempt, batch, stored, qualityVars, restarts>>

\* record_run: last_success_at is result.finished_at when the run was ok.
RecordRun ==
  /\ step = "record"
  /\ row' = [status |-> result.state, age |-> IF result.ok THEN runAge ELSE row.age]
  /\ Recorded
  /\ UNCHANGED <<deployment, upstream, attempt, batch, stored, qualityVars, restarts>>

\* _run_one logs a failed record_run and goes on.
RecordFails ==
  /\ step = "record"
  /\ Recorded
  /\ UNCHANGED <<deployment, upstream, attempt, batch, row, stored, qualityVars, restarts>>

\* The age, in seconds, is compared with the threshold in milliseconds.
StaleMisread(age) == age > 1000 * Window

\* row.age > staleness_threshold_s; Never is NULL.
Stale(age) == age = Old

Unhealthy ==
  \/ row.status \in {"failed", "not_configured"}
  \/ row.age = Never
  \/ Stale(row.age)

\* After the other sources of the tick: no cells end it, a healthy primary
\* leaves the supplementary source alone.
Check ==
  /\ step = "check"
  /\ step' = IF grid /\ Unhealthy THEN "fallback" ELSE "idle"
  /\ UNCHANGED <<deployment, upstream, runVars, row, stored, qualityVars, restarts>>

FallbackRuns ==
  /\ step = "fallback"
  /\ step' = "idle"
  /\ UNCHANGED <<deployment, upstream, runVars, row, stored, qualityVars, restarts>>

\* Another source's run escapes, or the database does not answer the tick's
\* own reads.
TickAborts ==
  /\ step = "check"
  /\ step' = "idle"
  /\ UNCHANGED <<deployment, upstream, runVars, row, stored, qualityVars, restarts>>

-----------------------------------------------------------------------------
(* tick_quality *)

QualityRead ==
  /\ quality = "idle"
  /\ quality' = "write"
  /\ report' = [status |-> IF Stale(row.age) THEN "stale" ELSE row.status,
                changed |-> Stale(row.age) /\ row.status = "live"]
  /\ UNCHANGED <<deployment, upstream, step, runVars, row, stored, frame, restarts>>

\* UPDATE by key alone, commit, then hub.source_health.
QualityWrite ==
  /\ quality = "write"
  /\ quality' = "idle"
  /\ row' = [row EXCEPT !.status = IF report.changed THEN "stale" ELSE @]
  /\ frame' = report.status
  /\ report' = NoReport
  /\ UNCHANGED <<deployment, upstream, step, runVars, stored, restarts>>

\* The database fails: rolled back, nothing published.
QualityFails ==
  /\ quality = "write"
  /\ quality' = "idle"
  /\ report' = NoReport
  /\ UNCHANGED <<deployment, upstream, step, runVars, row, stored, frame, restarts>>

-----------------------------------------------------------------------------
(* Environment *)

Elapse ==
  /\ runAge' = IF step = "record" THEN OlderBy1(runAge) ELSE runAge
  /\ row' = [row EXCEPT !.age = OlderBy1(@)]
  /\ stored' = OlderBy1(stored)
  /\ UNCHANGED <<deployment, upstream, step, attempt, batch, result, qualityVars, restarts>>

UpstreamBecomes(u) ==
  /\ upstream' = u
  /\ UNCHANGED <<deployment, step, runVars, row, stored, qualityVars, restarts>>

\* The worker dies and is started again.
Restart ==
  /\ restarts < MaxRestarts
  /\ restarts' = restarts + 1
  /\ step' = "idle" /\ quality' = "idle"
  /\ attempt' = 1 /\ batch' = "silent" /\ result' = NoResult /\ runAge' = 0
  /\ report' = NoReport
  /\ UNCHANGED <<deployment, upstream, row, stored, frame>>

-----------------------------------------------------------------------------
Fetch == FetchRetry \/ FetchGivesUp \/ FetchAnswers \/ ValidateRaises
Store == StoreOk \/ StoreFails
Record == RecordRun \/ RecordFails
Decide == Check \/ TickAborts

Next ==
  \/ BeginTick \/ Fetch \/ Store \/ Record \/ Decide \/ FallbackRuns
  \/ QualityRead \/ QualityWrite \/ QualityFails
  \/ Elapse \/ Restart
  \/ \E u \in Conditions : UpstreamBecomes(u)

Spec == Init /\ [][Next]_vars

\* Both loops run for ever and time passes; the other sources of the
\* tick do not break it every time, nor does the database fail every store,
\* every record of a run that stored, or every write of the quality loop.
Fairness ==
  /\ WF_vars(BeginTick) /\ WF_vars(Fetch) /\ WF_vars(Store) /\ WF_vars(Record)
  /\ WF_vars(Decide) /\ WF_vars(FallbackRuns)
  /\ SF_vars(StoreOk) /\ SF_vars(result.ok /\ RecordRun) /\ SF_vars(Check)
  /\ WF_vars(QualityRead) /\ SF_vars(QualityWrite)
  /\ WF_vars(Elapse)

FairSpec == Spec /\ Fairness

-----------------------------------------------------------------------------
(* Properties *)

\* Types; an attempt never exceeds max_retries and no age its cap.
TypeOK ==
  /\ config \in {"on", "no_credentials", "disabled"} /\ grid \in BOOLEAN
  /\ upstream \in Conditions /\ batch \in Answers
  /\ step \in {"idle", "fetch", "store", "record", "check", "fallback"}
  /\ attempt \in 1..MaxRetries
  /\ result \in [ok : BOOLEAN, state : SourceState]
  /\ runAge \in 0..Old /\ stored \in 0..Old
  /\ row \in [status : SourceState, age : 0..Never]
  /\ quality \in {"idle", "write"}
  /\ report \in [status : SourceState, changed : BOOLEAN]
  /\ frame \in SourceState
  /\ restarts \in 0..MaxRestarts

\* base.py rule 3: "Stale is never presented as live."  A source that stands as
\* live stored records as lately as the time it gives for its last success,
\* whatever failed or restarted since.
LiveBacked == row.status = "live" => stored <= row.age

\* base.py rule 5: "Retries are bounded, jittered, and give up."  A tick ends
\* whatever the source does, and the loop polls again.
TickEnds == (step # "idle") ~> (step = "idle")

\* orchestrator.py _source_unhealthy: when the primary stays unreachable or
\* refuses, its supplementary source runs again and again.
FallbackTakesOver ==
  <>[](config = "on" /\ grid /\ upstream \in {"down", "refuse"}) => []<>(step = "fallback")

\* base.py rule 3: every consumer of a stale source is told.  A source that is
\* dead for good, in whatever way, is in the end no longer live on a dashboard.
DeadSourceShown ==
  <>[](upstream \in {"down", "refuse", "malformed"}) => <>[](frame # "live")

\* record_run: a source that answers well again stands as live again, however
\* the quality loop's verdict on its old row crosses its recovery.
RecoveredSourceHeals ==
  <>[](config = "on" /\ upstream = "good") => []<>(row.status = "live")
=============================================================================
