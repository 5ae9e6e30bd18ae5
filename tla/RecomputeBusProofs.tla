------------------------- MODULE RecomputeBusProofs -------------------------
(***************************************************************************)
(* Machine-checked proofs about RecomputeBus: type correctness, the safety *)
(* invariants and the refinement of RecomputeService, for every set of     *)
(* keys, every set of triggers and every number of permits.                *)
(***************************************************************************)
EXTENDS RecomputeBus, TLAPS

\* Only entries that exist can have an expired window.
RipeIsPending == \A k \in ripe : pending[k] # NoTrigger

\* The inductive invariant.  Mutual exclusion is not inductive alone: that a
\* new task has no competitor follows from OneTaskPerKey and InflightExact
\* (the loop checks the in-flight set, not the permits), and that no request
\* is lost needs DirtyIsInflight, because a mark is only seen by the finally
\* block of a task.
IInv ==
  /\ TypeOK
  /\ RipeIsPending
  /\ MutualExclusion
  /\ OneTaskPerKey
  /\ InflightExact
  /\ DirtyIsInflight
  /\ NoLostRequest

-----------------------------------------------------------------------------
\* "none" is not a Trigger member, and the follow-up trigger is.
LEMMA TriggerFacts ==
  /\ NoTrigger \notin Triggers
  /\ "scheduled" \in Triggers
BY TriggersAssumption DEF NoTrigger

\* A request of K keeps the entries well typed, gives every key of K an entry
\* and never removes an entry.
LEMMA SubmittedFacts ==
  ASSUME NEW p \in [Keys -> Triggers \cup {NoTrigger}],
         NEW K \in SUBSET Keys, NEW t \in Triggers
  PROVE  /\ Submitted(p, K, t) \in [Keys -> Triggers \cup {NoTrigger}]
         /\ \A k \in K : Submitted(p, K, t)[k] # NoTrigger
         /\ \A k \in Keys : p[k] # NoTrigger => Submitted(p, K, t)[k] # NoTrigger
         /\ \A k \in Keys \ K : Submitted(p, K, t)[k] = p[k]
BY TriggerFacts DEF Submitted, Headline

\* The history gains t for the keys of K and nothing else changes.
LEMMA NotedFacts ==
  ASSUME NEW u \in [Keys -> SUBSET Triggers],
         NEW K \in SUBSET Keys, NEW t \in Triggers
  PROVE  /\ Noted(u, K, t) \in [Keys -> SUBSET Triggers]
         /\ \A k \in K : Noted(u, K, t)[k] # {}
         /\ \A k \in Keys \ K : Noted(u, K, t)[k] = u[k]
BY DEF Noted

\* The initial state satisfies the invariant.
LEMMA InitIInv == Init => IInv
<1> SUFFICES ASSUME Init PROVE IInv
  OBVIOUS
<1>1. TypeOK
  BY TriggerFacts DEF Init, TypeOK
<1>2. QED
  BY <1>1 DEF Init, IInv, RipeIsPending, MutualExclusion, OneTaskPerKey,
     InflightExact, DirtyIsInflight, NoLostRequest, Free

-----------------------------------------------------------------------------
(* One lemma per action *)

\* Requests only add entries and history: no task or mark moves.
LEMMA RequestStep ==
  ASSUME IInv, NEW K \in SUBSET Keys, NEW t \in Triggers, Request(K, t)
  PROVE  IInv'
<1> USE DEF IInv, TypeOK, Request
<1>0. /\ pending \in [Keys -> Triggers \cup {NoTrigger}]
      /\ pending' = Submitted(pending, K, t)
  OBVIOUS
<1>1. /\ pending' \in [Keys -> Triggers \cup {NoTrigger}]
      /\ \A k \in K : pending'[k] # NoTrigger
      /\ \A k \in Keys : pending[k] # NoTrigger => pending'[k] # NoTrigger
  <2> HIDE DEF IInv, TypeOK, Request
  <2> QED
    BY <1>0, SubmittedFacts
<1>2. /\ unserved' \in [Keys -> SUBSET Triggers]
      /\ \A k \in Keys \ K : unserved'[k] = unserved[k]
  BY NotedFacts
<1>3. TypeOK' /\ RipeIsPending'
  BY <1>1, <1>2 DEF RipeIsPending
<1>4. MutualExclusion' /\ OneTaskPerKey' /\ InflightExact' /\ DirtyIsInflight'
  BY DEF MutualExclusion, OneTaskPerKey, InflightExact, DirtyIsInflight, Free
<1>5. NoLostRequest'
  BY <1>1, <1>2 DEF NoLostRequest, Covered
<1>6. QED
  BY <1>3, <1>4, <1>5

\* A window expires: only the expired set grows.
LEMMA DebounceStep ==
  ASSUME IInv, NEW k \in Keys, DebounceExpires(k)
  PROVE  IInv'
BY DEF IInv, TypeOK, DebounceExpires, RipeIsPending, MutualExclusion, OneTaskPerKey,
   InflightExact, DirtyIsInflight, NoLostRequest, Covered, Free

\* The loop starts or stops: nothing else changes.
LEMMA LoopStep ==
  ASSUME IInv, StartLoop \/ Stop
  PROVE  IInv'
BY DEF IInv, TypeOK, StartLoop, Stop, RipeIsPending, MutualExclusion, OneTaskPerKey,
   InflightExact, DirtyIsInflight, NoLostRequest, Covered, Free

\* The flush at the end of an iteration has nothing to do: a mark implies a
\* task in flight.
LEMMA DrainFacts ==
  ASSUME IInv, Drain
  PROVE  /\ created = {}
         /\ created' = {[key |-> k, trigger |-> pending[k]] : k \in ripe \ inflight}
         /\ ripe' = {}
         /\ dirty' = dirty \cup (ripe \cap inflight)
         /\ pending' = [k \in Keys |-> IF k \in ripe THEN NoTrigger ELSE pending[k]]
         /\ unserved' = unserved
         /\ UNCHANGED <<loop, inflight, semQueue, slot>>
<1> DEFINE popped == [k \in Keys |-> IF k \in ripe THEN NoTrigger ELSE pending[k]]
           marked == dirty \cup (ripe \cap inflight)
           flush == IF inflight = {} /\ (\A k \in Keys : popped[k] = NoTrigger)
                    THEN marked ELSE {}
<1>1. flush = {}
  BY DEF IInv, DirtyIsInflight
<1>2. /\ dirty' = marked \ flush
      /\ pending' = Submitted(popped, flush, "scheduled")
      /\ unserved' = Noted(unserved, flush, "scheduled")
  BY DEF Drain
<1>3. Submitted(popped, {}, "scheduled") = popped
  BY DEF Submitted
<1>4. Noted(unserved, {}, "scheduled") = unserved
  BY DEF Noted, IInv, TypeOK
<1> HIDE DEF popped, marked, flush
<1>5. dirty' = marked /\ pending' = popped /\ unserved' = unserved
  BY <1>1, <1>2, <1>3, <1>4
<1>6. QED
  BY <1>5 DEF popped, marked, Drain

\* Popped entries become a task or a mark, never both and never nothing.
LEMMA DrainStep ==
  ASSUME IInv, Drain
  PROVE  IInv'
<1> USE DEF IInv, TypeOK
<1>1. \A c \in created' : \E k \in ripe \ inflight : c = [key |-> k, trigger |-> pending[k]]
  BY DrainFacts
<1>2. TypeOK'
  <2>1. created' \subseteq Task
    BY <1>1 DEF Task, RipeIsPending
  <2>2. pending' \in [Keys -> Triggers \cup {NoTrigger}]
    BY DrainFacts
  <2>3. QED
    BY <2>1, <2>2, DrainFacts
<1>3. RipeIsPending' /\ DirtyIsInflight'
  BY DrainFacts DEF RipeIsPending, DirtyIsInflight
<1>4. MutualExclusion' /\ InflightExact'
  BY DrainFacts DEF MutualExclusion, InflightExact, Free
<1>5. OneTaskPerKey'
  BY <1>1, DrainFacts DEF OneTaskPerKey, Free
<1>6. NoLostRequest'
  <2> SUFFICES ASSUME NEW k \in Keys, unserved'[k] # {}
               PROVE  Covered(k)'
    BY DEF NoLostRequest
  <2>1. Covered(k) /\ created = {}
    BY DrainFacts DEF NoLostRequest
  <2>2. CASE k \in ripe \ inflight
    <3>1. [key |-> k, trigger |-> pending[k]] \in created'
      BY <2>2, DrainFacts
    <3>2. QED
      BY <3>1 DEF Covered
  <2>3. CASE k \in ripe \cap inflight
    BY <2>3, DrainFacts DEF Covered
  <2>4. CASE k \notin ripe
    BY <2>1, <2>4, DrainFacts DEF Covered
  <2>5. QED
    BY <2>2, <2>3, <2>4
<1>7. QED
  BY <1>2, <1>3, <1>4, <1>5, <1>6

\* A task's first step: it enters the in-flight set and either runs or queues.
LEMMA StartStep ==
  ASSUME IInv, NEW task \in created, Start(task)
  PROVE  IInv'
<1> USE DEF IInv, TypeOK
<1>1. /\ task \in Task
      /\ task.key \in Keys \ inflight
      /\ created' = created \ {task}
      /\ inflight' = inflight \cup {task.key}
      /\ UNCHANGED <<loop, pending, ripe, dirty>>
  BY DEF Start, OneTaskPerKey, Task
\* no queued or running task has the key
<1>2. /\ \A i \in 1..Len(semQueue) : semQueue[i].key # task.key
      /\ \A s \in Slots : ~Free(s) => slot[s].key # task.key
  BY <1>1 DEF InflightExact
<1>3. \A c \in created' : c.key # task.key
  BY <1>1 DEF OneTaskPerKey
<1>4. CASE semQueue = <<>> /\ (\E s \in Slots : Run(task, s)) /\ UNCHANGED semQueue
  <2>1. PICK s \in Slots : Run(task, s)
    BY <1>4
  <2>2. /\ slot' = [slot EXCEPT ![s] = task] /\ slot[s] = NoTask /\ task # NoTask
        /\ unserved' = [unserved EXCEPT ![task.key] = {}]
        /\ semQueue = <<>> /\ semQueue' = <<>>
    BY <2>1, <1>1, <1>4, NoTaskAssumption DEF Run, Free
  <2>3. TypeOK' /\ RipeIsPending' /\ DirtyIsInflight'
    BY <1>1, <2>2 DEF RipeIsPending, DirtyIsInflight
  <2>4. MutualExclusion'
    BY <1>2, <2>2 DEF MutualExclusion, Free
  <2>5. OneTaskPerKey'
    BY <1>1, <1>3, <2>2 DEF OneTaskPerKey, Free
  <2>6. InflightExact'
    BY <1>1, <2>2 DEF InflightExact, Free
  <2>7. NoLostRequest'
    BY <1>1, <2>2 DEF NoLostRequest, Covered
  <2>8. QED
    BY <2>3, <2>4, <2>5, <2>6, <2>7
<1>5. CASE semQueue' = Append(semQueue, task) /\ UNCHANGED <<slot, unserved>>
  <2>1. /\ semQueue' \in Seq(Task)
        /\ Len(semQueue') = Len(semQueue) + 1
        /\ \A i \in 1..Len(semQueue) : semQueue'[i] = semQueue[i]
        /\ semQueue'[Len(semQueue) + 1] = task
        /\ Len(semQueue) \in Nat
    BY <1>1, <1>5
  <2>2. \A i \in 1..Len(semQueue') : i \in 1..Len(semQueue) \/ i = Len(semQueue) + 1
    BY <2>1
  <2>3. TypeOK' /\ RipeIsPending' /\ DirtyIsInflight' /\ MutualExclusion'
    BY <1>1, <1>5, <2>1 DEF RipeIsPending, DirtyIsInflight, MutualExclusion, Free
  <2>4. OneTaskPerKey'
    BY <1>1, <1>2, <1>3, <1>5, <2>1, <2>2 DEF OneTaskPerKey, Free
  <2>5. InflightExact'
    BY <1>1, <1>5, <2>1, <2>2 DEF InflightExact, Free
  <2>6. NoLostRequest'
    BY <1>1, <1>5, <2>1, <2>2 DEF NoLostRequest, Covered
  <2>7. QED
    BY <2>3, <2>4, <2>5, <2>6
<1>6. QED
  BY <1>4, <1>5 DEF Start

\* The head of the semaphore queue gets a permit.
LEMMA AcquireStep ==
  ASSUME IInv, Acquire
  PROVE  IInv'
<1> USE DEF IInv, TypeOK
<1> DEFINE task == Head(semQueue)
<1>1. /\ semQueue # <<>>
      /\ semQueue' = Tail(semQueue)
      /\ UNCHANGED <<loop, pending, ripe, created, inflight, dirty>>
      /\ \E s \in Slots : Run(task, s)
  BY DEF Acquire
<1>2. /\ task \in Task
      /\ task = semQueue[1]
      /\ semQueue' \in Seq(Task)
      /\ Len(semQueue) \in Nat /\ 1 \in 1..Len(semQueue)
      /\ Len(semQueue') = Len(semQueue) - 1
      /\ \A i \in 1..Len(semQueue') : /\ semQueue'[i] = semQueue[i + 1]
                                     /\ i + 1 \in 1..Len(semQueue)
                                     /\ i + 1 # 1
  BY <1>1
<1>3. \A i \in 1..Len(semQueue) :
        i # 1 => \E j \in 1..Len(semQueue') : semQueue'[j] = semQueue[i]
  <2> SUFFICES ASSUME NEW i \in 1..Len(semQueue), i # 1
               PROVE  \E j \in 1..Len(semQueue') : semQueue'[j] = semQueue[i]
    OBVIOUS
  <2>1. i - 1 \in 1..Len(semQueue') /\ (i - 1) + 1 = i
    BY <1>2
  <2>2. semQueue'[i - 1] = semQueue[i]
    BY <1>2, <2>1
  <2>3. QED
    BY <2>1, <2>2
\* apart from the head, the same keys are queued
<1>3a. \A k \in Keys : k # task.key =>
         ((\E i \in 1..Len(semQueue') : semQueue'[i].key = k)
            <=> (\E i \in 1..Len(semQueue) : semQueue[i].key = k))
  <2> SUFFICES ASSUME NEW k \in Keys, k # task.key
               PROVE  (\E i \in 1..Len(semQueue') : semQueue'[i].key = k)
                        <=> (\E i \in 1..Len(semQueue) : semQueue[i].key = k)
    OBVIOUS
  <2>1. ASSUME NEW i \in 1..Len(semQueue'), semQueue'[i].key = k
        PROVE  \E j \in 1..Len(semQueue) : semQueue[j].key = k
    BY <1>2, <2>1
  <2>2. ASSUME NEW i \in 1..Len(semQueue), semQueue[i].key = k
        PROVE  \E j \in 1..Len(semQueue') : semQueue'[j].key = k
    BY <1>2, <1>3, <2>2
  <2>3. QED
    BY <2>1, <2>2
<1> HIDE DEF task
<1>4. PICK s \in Slots : Run(task, s)
  BY <1>1
<1>5. /\ slot' = [slot EXCEPT ![s] = task] /\ slot[s] = NoTask /\ task # NoTask
      /\ unserved' = [unserved EXCEPT ![task.key] = {}]
      /\ task.key \in Keys
  BY <1>2, <1>4, NoTaskAssumption DEF Run, Free, Task
\* no other queued task and no running task has the key
<1>6. /\ \A i \in 1..Len(semQueue') : semQueue'[i].key # task.key
      /\ \A r \in Slots : ~Free(r) => slot[r].key # task.key
  BY <1>2 DEF OneTaskPerKey
<1>7. TypeOK' /\ RipeIsPending' /\ DirtyIsInflight'
  BY <1>1, <1>2, <1>5 DEF RipeIsPending, DirtyIsInflight
<1>8. MutualExclusion'
  BY <1>5, <1>6 DEF MutualExclusion, Free
<1>9. OneTaskPerKey'
  <2>1. \A i, j \in 1..Len(semQueue') : i # j => semQueue'[i].key # semQueue'[j].key
    BY <1>2 DEF OneTaskPerKey
  <2>2. \A i \in 1..Len(semQueue'), r \in Slots :
          slot'[r] # NoTask => semQueue'[i].key # slot'[r].key
    BY <1>2, <1>5, <1>6 DEF OneTaskPerKey, Free
  <2>3. QED
    BY <1>1, <2>1, <2>2 DEF OneTaskPerKey, Free
<1>10. InflightExact'
  <2> SUFFICES ASSUME NEW k \in Keys
               PROVE  k \in inflight <=>
                        \/ \E i \in 1..Len(semQueue') : semQueue'[i].key = k
                        \/ \E r \in Slots : slot'[r] # NoTask /\ slot'[r].key = k
    BY <1>1 DEF InflightExact, Free
  <2>1. CASE k = task.key
    BY <1>2, <1>5, <2>1 DEF InflightExact
  <2>2. CASE k # task.key
    <3>1. (\E r \in Slots : slot'[r] # NoTask /\ slot'[r].key = k)
            <=> (\E r \in Slots : slot[r] # NoTask /\ slot[r].key = k)
      BY <1>5, <2>2
    <3>2. QED
      BY <1>3a, <2>2, <3>1 DEF InflightExact, Free
  <2>3. QED
    BY <2>1, <2>2
<1>11. NoLostRequest'
  <2> SUFFICES ASSUME NEW k \in Keys, unserved'[k] # {}
               PROVE  Covered(k)'
    BY DEF NoLostRequest
  <2>1. k # task.key /\ Covered(k)
    BY <1>5 DEF NoLostRequest
  <2>2. QED
    BY <1>1, <1>3a, <2>1 DEF Covered
<1>12. QED
  BY <1>7, <1>8, <1>9, <1>10, <1>11

\* A task ends: its key leaves the in-flight set, and a mark becomes an entry.
LEMMA FinishStep ==
  ASSUME IInv, NEW s \in Slots, Finish(s)
  PROVE  IInv'
<1> USE DEF IInv, TypeOK
<1> DEFINE k == slot[s].key
           again == {k} \cap dirty
<1>1. /\ slot[s] \in Task /\ k \in Keys /\ slot[s] # NoTask
      /\ slot' = [slot EXCEPT ![s] = NoTask]
      /\ inflight' = inflight \ {k}
      /\ dirty' = dirty \ {k}
      /\ UNCHANGED <<loop, ripe, created, semQueue>>
  BY DEF Finish, Free, Task
<1>2. /\ again \in SUBSET Keys /\ "scheduled" \in Triggers
      /\ pending' = Submitted(pending, again, "scheduled")
      /\ unserved' = Noted(unserved, again, "scheduled")
      /\ k \in dirty => k \in again
      /\ \A q \in Keys : q # k => q \notin again
      /\ k \notin dirty => again = {}
  BY <1>1, TriggerFacts DEF Finish
<1> HIDE DEF k, again
<1>3. /\ pending' \in [Keys -> Triggers \cup {NoTrigger}]
      /\ \A q \in again : pending'[q] # NoTrigger
      /\ \A q \in Keys : pending[q] # NoTrigger => pending'[q] # NoTrigger
  <2>1. pending \in [Keys -> Triggers \cup {NoTrigger}]
    OBVIOUS
  <2> HIDE DEF IInv, TypeOK
  <2>2. QED
    BY <1>2, <2>1, SubmittedFacts
<1>4. /\ unserved' \in [Keys -> SUBSET Triggers]
      /\ \A q \in Keys \ again : unserved'[q] = unserved[q]
  BY <1>2, NotedFacts
\* the permit was the only task of k
<1>5. /\ \A i \in 1..Len(semQueue) : semQueue[i].key # k
      /\ \A r \in Slots : r # s /\ slot[r] # NoTask => slot[r].key # k
      /\ \A r \in Slots : r # s => slot'[r] = slot[r]
      /\ slot'[s] = NoTask
  BY <1>1 DEF OneTaskPerKey, MutualExclusion, Free, k
<1>6. TypeOK' /\ RipeIsPending' /\ DirtyIsInflight'
  BY <1>1, <1>3, <1>4 DEF RipeIsPending, DirtyIsInflight
<1>7. MutualExclusion'
  BY <1>1, <1>5 DEF MutualExclusion, Free
<1>8. OneTaskPerKey'
  <2>1. \A i \in 1..Len(semQueue), r \in Slots :
          slot'[r] # NoTask => semQueue[i].key # slot'[r].key
    BY <1>5 DEF OneTaskPerKey, Free
  <2>2. \A c \in created : c.key \notin inflight'
    BY <1>1 DEF OneTaskPerKey
  <2>3. QED
    BY <1>1, <2>1, <2>2 DEF OneTaskPerKey, Free
<1>9. InflightExact'
  <2> SUFFICES ASSUME NEW q \in Keys
               PROVE  q \in inflight' <=>
                        \/ \E i \in 1..Len(semQueue) : semQueue[i].key = q
                        \/ \E r \in Slots : slot'[r] # NoTask /\ slot'[r].key = q
    BY <1>1 DEF InflightExact, Free
  <2>1. CASE q = k
    BY <1>1, <1>5, <2>1
  <2>2. CASE q # k
    <3>1. (\E r \in Slots : slot'[r] # NoTask /\ slot'[r].key = q)
            <=> (\E r \in Slots : slot[r] # NoTask /\ slot[r].key = q)
      BY <1>5, <2>2 DEF k
    <3>2. QED
      BY <1>1, <2>2, <3>1 DEF InflightExact, Free
  <2>3. QED
    BY <2>1, <2>2
<1>10. NoLostRequest'
  <2> SUFFICES ASSUME NEW q \in Keys, unserved'[q] # {}
               PROVE  Covered(q)'
    BY DEF NoLostRequest
  <2>1. CASE q \in again
    BY <1>3, <2>1 DEF Covered
  <2>2. CASE q \notin again
    <3>1. Covered(q)
      BY <1>4, <2>2 DEF NoLostRequest
    <3>2. q \in dirty => q \in dirty'
      BY <1>1, <1>2, <2>2
    <3>3. QED
      BY <1>1, <1>3, <3>1, <3>2 DEF Covered
  <2>3. QED
    BY <2>1, <2>2
<1>11. QED
  BY <1>6, <1>7, <1>8, <1>9, <1>10

\* Every step preserves the invariant.
LEMMA NextIInv == IInv /\ [Next]_vars => IInv'
<1> SUFFICES ASSUME IInv, [Next]_vars PROVE IInv'
  OBVIOUS
<1>1. CASE Requests
  BY <1>1, RequestStep DEF Requests
<1>2. CASE StartLoop \/ Stop
  BY <1>2, LoopStep
<1>3. CASE \E k \in Keys : DebounceExpires(k)
  BY <1>3, DebounceStep
<1>4. CASE Drain
  BY <1>4, DrainStep
<1>5. CASE \E task \in created : Start(task)
  BY <1>5, StartStep
<1>6. CASE Acquire
  BY <1>6, AcquireStep
<1>7. CASE \E s \in Slots : Finish(s)
  BY <1>7, FinishStep
<1>8. CASE UNCHANGED vars
  BY <1>8 DEF vars, IInv, TypeOK, RipeIsPending, MutualExclusion, OneTaskPerKey,
     InflightExact, DirtyIsInflight, NoLostRequest, Covered, Free
<1>9. QED
  BY <1>1, <1>2, <1>3, <1>4, <1>5, <1>6, <1>7, <1>8 DEF Next

LEMMA Invariance == Spec => []IInv
BY InitIInv, NextIInv, PTL DEF Spec

-----------------------------------------------------------------------------
(* Theorems *)

\* The scheduler state of realtime.py keeps its types.
THEOREM TypeCorrect == Spec => []TypeOK
<1>1. IInv => TypeOK
  BY DEF IInv
<1>2. QED
  BY <1>1, Invariance, PTL

\* At most one recompute of a key runs, and the backlog holds at most one task
\* per key.
THEOREM NoConcurrentRecompute == Spec => [](MutualExclusion /\ OneTaskPerKey)
<1>1. IInv => MutualExclusion /\ OneTaskPerKey
  BY DEF IInv
<1>2. QED
  BY <1>1, Invariance, PTL

\* The in-flight set of the code is exact, and a mark always has a task that
\* will see it.
THEOREM InflightSound == Spec => [](InflightExact /\ DirtyIsInflight)
<1>1. IInv => InflightExact /\ DirtyIsInflight
  BY DEF IInv
<1>2. QED
  BY <1>1, Invariance, PTL

\* No request is lost, however it interleaves with the runs.
THEOREM RequestsNotLost == Spec => []NoLostRequest
<1>1. IInv => NoLostRequest
  BY DEF IInv
<1>2. QED
  BY <1>1, Invariance, PTL

-----------------------------------------------------------------------------
(* Refinement of RecomputeService *)

\* A permit granted to a task begins a recompute of its key.
LEMMA RunBegins ==
  ASSUME TypeOK, NEW task \in Task, NEW s \in Slots, Run(task, s),
         task.key \notin Running, UNCHANGED loop
  PROVE  Service!Begin(task.key)
<1> USE DEF TypeOK
<1>1. /\ slot' = [slot EXCEPT ![s] = task] /\ slot[s] = NoTask /\ task # NoTask
      /\ unserved' = [unserved EXCEPT ![task.key] = {}]
      /\ task.key \in Keys
  BY NoTaskAssumption DEF Run, Free, Task
<1>2. Running' = Running \cup {task.key}
  BY <1>1 DEF Running, Free
<1>3. Needed' = Needed \ {task.key}
  BY <1>1 DEF Needed
<1>4. QED
  BY <1>2, <1>3 DEF Service!Begin

\* No queued or created task competes with a running one.
LEMMA IdleKey ==
  ASSUME IInv
  PROVE  /\ \A c \in created : c.key \notin Running
         /\ semQueue # <<>> => Head(semQueue) \in Task /\ Head(semQueue).key \notin Running
<1> USE DEF IInv, TypeOK
<1>1. \A c \in created : c.key \notin Running
  BY DEF OneTaskPerKey, InflightExact, Running, Free
<1>2. ASSUME semQueue # <<>>
      PROVE  Head(semQueue) \in Task /\ Head(semQueue).key \notin Running
  <2>1. /\ Head(semQueue) = semQueue[1] /\ 1 \in 1..Len(semQueue)
        /\ Head(semQueue) \in Task
    BY <1>2
  <2>2. QED
    BY <2>1 DEF OneTaskPerKey, Running, Free
<1>3. QED
  BY <1>1, <1>2

\* Initial states map to initial states.
LEMMA ServiceInit == Init => Service!Init
BY DEF Init, Service!Init, Needed, Running, Free

\* Every step of the bus is a step of the service or leaves it unchanged.
LEMMA ServiceStep ==
  ASSUME IInv, [Next]_vars
  PROVE  [Service!Next]_(Service!vars)
<1> USE DEF IInv, TypeOK
<1>1. ASSUME NEW K \in SUBSET Keys, NEW t \in Triggers, Request(K, t)
      PROVE  Service!Ask(K)
  <2>1. Needed' = Needed \cup K
    BY <1>1 DEF Request, Noted, Needed
  <2>2. Running' = Running /\ loop' = loop
    BY <1>1 DEF Request, Running, Free
  <2>3. QED
    BY <2>1, <2>2 DEF Service!Ask
<1>2. CASE StartLoop \/ (\E k \in Keys : DebounceExpires(k))
  <2>1. /\ UNCHANGED <<unserved, slot>>
        /\ (loop = "stopped")' = (loop = "stopped")
    BY <1>2 DEF StartLoop, DebounceExpires
  <2>2. QED
    BY <2>1 DEF Service!vars, Needed, Running, Free
<1>3. CASE Drain
  <2>1. UNCHANGED <<unserved, slot, loop>>
    BY <1>3, DrainFacts
  <2>2. QED
    BY <2>1 DEF Service!vars, Needed, Running, Free
<1>4. ASSUME NEW task \in created, Start(task)
      PROVE  Service!Begin(task.key) \/ UNCHANGED Service!vars
  <2>1. CASE UNCHANGED <<slot, unserved>>
    BY <1>4, <2>1 DEF Start, Service!vars, Needed, Running, Free
  <2>2. CASE \E s \in Slots : Run(task, s)
    BY <1>4, <2>2, IdleKey, RunBegins DEF Start
  <2>3. QED
    BY <1>4, <2>1, <2>2 DEF Start
<1>5. CASE Acquire
  <2>1. Head(semQueue) \in Task /\ Head(semQueue).key \in Keys
    BY <1>5, IdleKey DEF Acquire, Task
  <2>2. Service!Begin(Head(semQueue).key)
    BY <1>5, <2>1, IdleKey, RunBegins DEF Acquire
  <2>3. QED
    BY <2>1, <2>2 DEF Service!Next
<1>6. ASSUME NEW s \in Slots, Finish(s)
      PROVE  slot[s].key \in Keys /\ Service!End(slot[s].key)
  <2> DEFINE k == slot[s].key
             again == {k} \cap dirty
  <2>1. /\ slot[s] \in Task /\ k \in Keys /\ slot[s] # NoTask /\ UNCHANGED loop
        /\ slot' = [slot EXCEPT ![s] = NoTask]
        /\ unserved' = Noted(unserved, again, "scheduled")
    BY <1>6 DEF Finish, Free, Task
  <2>2. Running' = Running \ {k}
    BY <2>1 DEF Running, Free, MutualExclusion
  <2>3. Needed' = Needed \cup again
    BY <2>1 DEF Noted, Needed
  <2>4. k \in Running /\ (again = {} \/ again = {k})
    BY <2>1 DEF Running, Free
  <2>5. QED
    BY <2>1, <2>2, <2>3, <2>4 DEF Service!End
<1>7. CASE Stop
  BY <1>7 DEF Stop, Service!Halt, Needed, Running, Free, Service!Next
<1>8. CASE UNCHANGED vars
  BY <1>8 DEF vars, Service!vars, Needed, Running, Free
<1>9. \A task \in created : task.key \in Keys
  BY DEF Task
<1>10. QED
  BY <1>1, <1>2, <1>3, <1>4, <1>5, <1>6, <1>7, <1>8, <1>9
     DEF Next, Requests, Service!Next

\* The bus implements the service: requests, at most one run per key, and a run
\* covers exactly the requests made before it began.
THEOREM BusImplementsService == Spec => ServiceSafe
<1>1. QED
  BY ServiceInit, ServiceStep, Invariance, PTL DEF Spec, ServiceSafe, Service!SafeSpec

=============================================================================
