--------------------------- MODULE IngestionProofs ---------------------------
(***************************************************************************)
(* A source that stands as live is backed by stored records, for every     *)
(* number of retries, window and number of restarts.  LiveBacked is not    *)
(* inductive: the run that sets the status has to carry the claim from the *)
(* store to the record, across the time that passes in between.            *)
(***************************************************************************)
EXTENDS Ingestion, TLAPS

\* A run on its way to record_run as live is ok and has stored as lately as
\* its finished_at says.
RunBacked ==
  step = "record" /\ result.state = "live" => result.ok /\ stored <= runAge

IInv == TypeOK /\ LiveBacked /\ RunBacked

-----------------------------------------------------------------------------
\* Aging keeps an age in its range and keeps the order of two ages.
LEMMA AgeFacts ==
  /\ \A a \in 0..Old : OlderBy1(a) \in 0..Old
  /\ \A a \in 0..Never : OlderBy1(a) \in 0..Never
  /\ \A a \in 0..Old, b \in 0..Never : a <= b => OlderBy1(a) <= OlderBy1(b)
  /\ 0 \in 0..Old /\ Old \in 0..Old /\ Old <= Never /\ Never \in 0..Never
  /\ 0..Old \subseteq 0..Never
BY IngestionAssumption DEF OlderBy1, Old, Never

LEMMA InitIInv == Init => IInv
<1> SUFFICES ASSUME Init PROVE IInv
  OBVIOUS
<1>1. row \in [status : SourceState, age : 0..Never]
  BY AgeFacts DEF Init, SourceState
<1>2. row.status # "live"
  BY DEF Init
<1>3. TypeOK
  BY <1>1, AgeFacts, IngestionAssumption
     DEF Init, TypeOK, NoResult, NoReport, SourceState, Conditions, Answers
<1> QED
  BY <1>2, <1>3 DEF Init, IInv, LiveBacked, RunBacked

-----------------------------------------------------------------------------
(* What a run does *)

\* Until its result is there a run touches nothing the invariant is about.
LEMMA FetchKeeps ==
  ASSUME IInv, \/ BeginTick \/ FetchRetry \/ FetchGivesUp \/ FetchAnswers
               \/ ValidateRaises
  PROVE  IInv'
<1> USE DEF IInv, TypeOK, LiveBacked, RunBacked, SourceState, Conditions, Answers,
            deployment, runVars, qualityVars
<1>1. CASE BeginTick
  BY <1>1, AgeFacts, IngestionAssumption DEF BeginTick
<1>2. CASE FetchRetry
  BY <1>2, IngestionAssumption DEF FetchRetry
<1>3. CASE FetchGivesUp
  BY <1>3, AgeFacts, IngestionAssumption DEF FetchGivesUp, Returns
<1>4. CASE FetchAnswers
  BY <1>4, IngestionAssumption DEF FetchAnswers
<1>5. CASE ValidateRaises
  BY <1>5, IngestionAssumption DEF ValidateRaises
<1> QED
  BY <1>1, <1>2, <1>3, <1>4, <1>5

\* Only an answer with records accepted makes a live result, and it is stored
\* in the same step.
LEMMA StoreKeeps ==
  ASSUME IInv, Store
  PROVE  IInv'
<1> USE DEF IInv, TypeOK, LiveBacked, RunBacked, SourceState, Answers,
            deployment, qualityVars
<1>1. CASE StoreOk
  <2>1. stored' \in 0..Old /\ runAge' = 0 /\ row' = row
    BY <1>1, AgeFacts DEF StoreOk, Returns
  <2>2. stored' <= stored
    BY <1>1, AgeFacts DEF StoreOk
  <2>3. StateOf(batch) = "live" => stored' = 0
    BY <1>1 DEF StoreOk, StateOf
  <2>4. result' = [ok |-> TRUE, state |-> StateOf(batch)] /\ StateOf(batch) \in SourceState
    BY <1>1 DEF StoreOk, Returns, StateOf
  <2>5. TypeOK'
    BY <1>1, <2>1, <2>4, AgeFacts, IngestionAssumption DEF StoreOk, Returns
  <2>6. LiveBacked'
    BY <2>1, <2>2, AgeFacts
  <2>7. RunBacked'
    BY <2>1, <2>3, <2>4, AgeFacts
  <2> QED
    BY <2>5, <2>6, <2>7
<1>2. CASE StoreFails
  BY <1>2, AgeFacts, IngestionAssumption DEF StoreFails, Returns
<1> QED
  BY <1>1, <1>2 DEF Store

\* The row takes over what the run carried.
LEMMA RecordKeeps ==
  ASSUME IInv, Record
  PROVE  IInv'
<1> USE DEF IInv, TypeOK, LiveBacked, RunBacked, Recorded, NoResult, SourceState,
            deployment, qualityVars
<1>1. CASE RecordRun
  <2>1. row' \in [status : SourceState, age : 0..Never]
    BY <1>1, AgeFacts DEF RecordRun
  <2>2. LiveBacked'
    BY <1>1 DEF RecordRun
  <2>3. TypeOK'
    BY <1>1, <2>1, AgeFacts DEF RecordRun
  <2> QED
    BY <1>1, <2>2, <2>3 DEF RecordRun
<1>2. CASE RecordFails
  BY <1>2, AgeFacts DEF RecordFails
<1> QED
  BY <1>1, <1>2 DEF Record

-----------------------------------------------------------------------------
(* What happens around it *)

LEMMA DecideKeeps ==
  ASSUME IInv, Decide \/ FallbackRuns
  PROVE  IInv'
<1> USE DEF IInv, TypeOK, LiveBacked, RunBacked, deployment, runVars, qualityVars
<1>1. CASE Check
  BY <1>1 DEF Check
<1>2. CASE TickAborts
  BY <1>2 DEF TickAborts
<1>3. CASE FallbackRuns
  BY <1>3 DEF FallbackRuns
<1> QED
  BY <1>1, <1>2, <1>3 DEF Decide

\* The quality loop only ever takes a status away from live.
LEMMA QualityKeeps ==
  ASSUME IInv, QualityRead \/ QualityWrite \/ QualityFails
  PROVE  IInv'
<1> USE DEF IInv, TypeOK, LiveBacked, RunBacked, SourceState, NoReport,
            deployment, runVars
<1>1. CASE QualityRead
  BY <1>1 DEF QualityRead
<1>2. CASE QualityWrite
  BY <1>2 DEF QualityWrite
<1>3. CASE QualityFails
  BY <1>3 DEF QualityFails
<1> QED
  BY <1>1, <1>2, <1>3

\* Time ages the records, the row and the run alike.
LEMMA ElapseKeeps ==
  ASSUME IInv, Elapse
  PROVE  IInv'
<1> USE DEF IInv, TypeOK
<1>1. /\ stored' = OlderBy1(stored) /\ row'.age = OlderBy1(row.age)
      /\ row'.status = row.status /\ step' = step /\ result' = result
      /\ runAge' = IF step = "record" THEN OlderBy1(runAge) ELSE runAge
  BY DEF Elapse
<1>2. row' \in [status : SourceState, age : 0..Never]
  BY <1>1, AgeFacts DEF Elapse
<1>3. stored' \in 0..Old /\ runAge' \in 0..Old
  BY <1>1, AgeFacts
<1>4. TypeOK'
  BY <1>2, <1>3 DEF Elapse, deployment, qualityVars
<1>5. LiveBacked'
  BY <1>1, AgeFacts DEF LiveBacked
<1>6. RunBacked'
  BY <1>1, AgeFacts DEF RunBacked
<1> QED
  BY <1>4, <1>5, <1>6

LEMMA EnvironmentKeeps ==
  ASSUME IInv, Restart \/ \E u \in Conditions : UpstreamBecomes(u)
  PROVE  IInv'
<1> USE DEF IInv, TypeOK, LiveBacked, RunBacked, deployment
<1>1. CASE Restart
  BY <1>1, AgeFacts, IngestionAssumption
     DEF Restart, NoResult, NoReport, SourceState, Answers
<1>2. CASE \E u \in Conditions : UpstreamBecomes(u)
  BY <1>2 DEF UpstreamBecomes, runVars, qualityVars
<1> QED
  BY <1>1, <1>2

LEMMA NextIInv == IInv /\ [Next]_vars => IInv'
<1> SUFFICES ASSUME IInv, [Next]_vars PROVE IInv'
  OBVIOUS
<1>1. CASE UNCHANGED vars
  BY <1>1 DEF IInv, TypeOK, LiveBacked, RunBacked, vars, deployment, runVars, qualityVars
<1> QED
  BY <1>1, FetchKeeps, StoreKeeps, RecordKeeps, DecideKeeps, QualityKeeps, ElapseKeeps,
     EnvironmentKeeps DEF Next, Fetch

-----------------------------------------------------------------------------
\* The strengthening is an invariant.
THEOREM Inductive == Spec => []IInv
BY InitIInv, NextIInv, PTL DEF Spec

\* The state of the run, the row and the quality loop keeps its types; no run
\* makes more than max_retries attempts.
THEOREM TypeCorrect == Spec => []TypeOK
<1>1. IInv => TypeOK
  BY DEF IInv
<1> QED
  BY <1>1, Inductive, PTL

\* base.py rule 3: a source that stands as live stored records as lately as it
\* says, whatever failed, restarted or raced since.
THEOREM LiveIsBacked == Spec => []LiveBacked
<1>1. IInv => LiveBacked
  BY DEF IInv
<1> QED
  BY <1>1, Inductive, PTL
=============================================================================
