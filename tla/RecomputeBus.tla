---------------------------- MODULE RecomputeBus ----------------------------
(***************************************************************************)
(* The recompute scheduler of backend/app/realtime.py: requests coalesce   *)
(* per (district, hazard) key inside a debounce window, a drain loop pops  *)
(* the entries whose window expired and creates one asyncio task per key,  *)
(* tasks share a FIFO semaphore, and a key that is popped while its task   *)
(* is in flight is marked dirty and requested again when the task ends.    *)
(*                                                                         *)
(* All code runs on one event loop, so a stretch of Python between two     *)
(* awaits is one action.  Wall time is abstracted to "the window of k has  *)
(* expired"; statistics and logging are left out.  Exceptions of the       *)
(* runner leave the same scheduler state as success (the finally block).   *)
(***************************************************************************)
EXTENDS Naturals, Sequences, FiniteSets

CONSTANTS
  Keys,            \* the (district, hazard) pairs requests are keyed by
  Triggers,        \* the Trigger members the environment sends
  MaxConcurrent,   \* permits of the semaphore, MAX_CONCURRENT_RECOMPUTES
  NoTask           \* an unused permit

NoTrigger == "none"

\* A _run task and the request it carries.
Task == [key : Keys, trigger : Triggers]

ASSUME TriggersAssumption ==
  /\ Triggers \subseteq {"official_alert", "push_ingress", "road_status",
                         "shelter_status", "field_report", "observation",
                         "operator_request", "scheduled"}
  /\ "scheduled" \in Triggers
ASSUME MaxConcurrentAssumption == MaxConcurrent \in Nat \ {0}
ASSUME NoTaskAssumption == NoTask \notin Task

VARIABLES
  loop,       \* "new", "running" or "stopped": self._task and self._stopped
  pending,    \* self._pending: the headline trigger per key, or NoTrigger
  ripe,       \* pending keys whose debounce window has expired
  created,    \* tasks created by the loop that have not run a step yet
  inflight,   \* self._inflight
  dirty,      \* self._dirty
  semQueue,   \* tasks waiting on self._sem, in arrival order
  slot,       \* slot[s]: the task holding permit s, awaiting its runner
  unserved    \* history: triggers requested for k since its last run began

vars == <<loop, pending, ripe, created, inflight, dirty, semQueue, slot, unserved>>

Slots == 1..MaxConcurrent

Severity(t) ==
  CASE t = "official_alert" -> 5
    [] t = "push_ingress" -> 4
    [] t \in {"road_status", "shelter_status"} -> 3
    [] t \in {"field_report", "observation", "operator_request"} -> 2
    [] OTHER -> 1

Init ==
  /\ loop = "new"
  /\ pending = [k \in Keys |-> NoTrigger]
  /\ ripe = {}
  /\ created = {}
  /\ inflight = {}
  /\ dirty = {}
  /\ semQueue = <<>>
  /\ slot = [s \in Slots |-> NoTask]
  /\ unserved = [k \in Keys |-> {}]

-----------------------------------------------------------------------------
(* Submitting *)

\* The headline of an entry after one more request: a new entry takes the
\* trigger, an existing one keeps the more severe of the two.
Headline(h, t) ==
  IF h = NoTrigger \/ Severity(t) > Severity(h) THEN t ELSE h

\* The entries p after a request of t for every key of K.
Submitted(p, K, t) == [k \in Keys |-> IF k \in K THEN Headline(p[k], t) ELSE p[k]]

Noted(u, K, t) == [k \in Keys |-> IF k \in K THEN u[k] \cup {t} ELSE u[k]]

\* Mutation: a coalesced request restarts the debounce window.
RequestRestartsWindow(K, t) ==
  /\ pending' = Submitted(pending, K, t)
  /\ ripe' = ripe \ K
  /\ unserved' = Noted(unserved, K, t)
  /\ UNCHANGED <<loop, created, inflight, dirty, semQueue, slot>>

\* request() and request_all(): never blocks.  The window of an existing
\* entry keeps running from its first request.
Request(K, t) ==
  /\ pending' = Submitted(pending, K, t)
  /\ unserved' = Noted(unserved, K, t)
  /\ UNCHANGED <<loop, ripe, created, inflight, dirty, semQueue, slot>>

-----------------------------------------------------------------------------
(* The drain loop *)

StartLoop ==
  /\ loop = "new"
  /\ loop' = "running"
  /\ UNCHANGED <<pending, ripe, created, inflight, dirty, semQueue, slot, unserved>>

\* The window of an entry is measured from its first request.
DebounceExpires(k) ==
  /\ pending[k] # NoTrigger
  /\ k \notin ripe
  /\ ripe' = ripe \cup {k}
  /\ UNCHANGED <<loop, pending, created, inflight, dirty, semQueue, slot, unserved>>

\* Mutation: the in-flight check is forgotten.
DrainIgnoresInflight ==
  /\ loop = "running"
  /\ created = {}
  /\ ripe # {}
  /\ pending' = [k \in Keys |-> IF k \in ripe THEN NoTrigger ELSE pending[k]]
  /\ ripe' = {}
  /\ created' = {[key |-> k, trigger |-> pending[k]] : k \in ripe}
  /\ UNCHANGED <<loop, inflight, dirty, semQueue, slot, unserved>>

\* Mutation: an in-flight key is dropped instead of marked dirty.
DrainDropsInflight ==
  /\ loop = "running"
  /\ created = {}
  /\ ripe # {}
  /\ pending' = [k \in Keys |-> IF k \in ripe THEN NoTrigger ELSE pending[k]]
  /\ ripe' = {}
  /\ created' = {[key |-> k, trigger |-> pending[k]] : k \in ripe \ inflight}
  /\ UNCHANGED <<loop, inflight, dirty, semQueue, slot, unserved>>

\* One iteration of _loop that pops something.  An iteration that pops
\* nothing changes nothing.  Tasks created by the previous iteration have run
\* their first step: the loop suspends in wait_for and ready callbacks are
\* FIFO.  The last IF of the iteration re-requests dirty keys when nothing is
\* pending or in flight.
Drain ==
  LET popped == [k \in Keys |-> IF k \in ripe THEN NoTrigger ELSE pending[k]]
      marked == dirty \cup (ripe \cap inflight)
      flush == IF inflight = {} /\ (\A k \in Keys : popped[k] = NoTrigger)
               THEN marked ELSE {}
  IN /\ loop = "running"
     /\ created = {}
     /\ ripe # {} \/ flush # {}
     /\ created' = {[key |-> k, trigger |-> pending[k]] : k \in ripe \ inflight}
     /\ ripe' = {}
     /\ dirty' = marked \ flush
     /\ pending' = Submitted(popped, flush, "scheduled")
     /\ unserved' = Noted(unserved, flush, "scheduled")
     /\ UNCHANGED <<loop, inflight, semQueue, slot>>

-----------------------------------------------------------------------------
(* The tasks *)

Free(s) == slot[s] = NoTask

\* The task holds permit s and its runner starts reading.
Run(task, s) ==
  /\ Free(s)
  /\ slot' = [slot EXCEPT ![s] = task]
  /\ unserved' = [unserved EXCEPT ![task.key] = {}]

\* First step of _run: enter the in-flight set, then take a permit or queue
\* for one (the semaphore lets nobody overtake its queue).
Start(task) ==
  /\ task \in created
  /\ created' = created \ {task}
  /\ inflight' = inflight \cup {task.key}
  /\ \/ /\ semQueue = <<>>
        /\ \E s \in Slots : Run(task, s)
        /\ UNCHANGED semQueue
     \/ /\ semQueue # <<>> \/ \A s \in Slots : ~Free(s)
        /\ semQueue' = Append(semQueue, task)
        /\ UNCHANGED <<slot, unserved>>
  /\ UNCHANGED <<loop, pending, ripe, dirty>>

\* A released permit is handed to the head of the queue.
Acquire ==
  /\ semQueue # <<>>
  /\ \E s \in Slots : Run(Head(semQueue), s)
  /\ semQueue' = Tail(semQueue)
  /\ UNCHANGED <<loop, pending, ripe, created, inflight, dirty>>

\* Mutation: the key stays dirty after its follow-up was requested.
FinishKeepsDirty(s) ==
  LET k == slot[s].key
      again == {k} \cap dirty
  IN /\ ~Free(s)
     /\ slot' = [slot EXCEPT ![s] = NoTask]
     /\ inflight' = inflight \ {k}
     /\ pending' = Submitted(pending, again, "scheduled")
     /\ unserved' = Noted(unserved, again, "scheduled")
     /\ UNCHANGED <<loop, ripe, created, dirty, semQueue>>

\* Mutation: a finished task forgets to ask for the follow-up pass.
FinishForgetsDirty(s) ==
  LET k == slot[s].key
  IN /\ ~Free(s)
     /\ slot' = [slot EXCEPT ![s] = NoTask]
     /\ inflight' = inflight \ {k}
     /\ dirty' = dirty \ {k}
     /\ UNCHANGED <<loop, pending, ripe, created, semQueue, unserved>>

\* The runner returns or raises: the permit is released and the finally block
\* leaves the in-flight set and asks for the follow-up pass of a dirty key.
Finish(s) ==
  LET k == slot[s].key
      again == {k} \cap dirty
  IN /\ ~Free(s)
     /\ slot' = [slot EXCEPT ![s] = NoTask]
     /\ inflight' = inflight \ {k}
     /\ dirty' = dirty \ again
     /\ pending' = Submitted(pending, again, "scheduled")
     /\ unserved' = Noted(unserved, again, "scheduled")
     /\ UNCHANGED <<loop, ripe, created, semQueue>>

\* stop(): the loop task is cancelled, the _run tasks are not.
Stop ==
  /\ loop' = "stopped"
  /\ UNCHANGED <<pending, ripe, created, inflight, dirty, semQueue, slot, unserved>>

-----------------------------------------------------------------------------
Requests == \E K \in SUBSET Keys \ {{}}, t \in Triggers : Request(K, t)

Next ==
  \/ Requests
  \/ StartLoop
  \/ \E k \in Keys : DebounceExpires(k)
  \/ Drain
  \/ \E task \in created : Start(task)
  \/ Acquire
  \/ \E s \in Slots : Finish(s)
  \/ Stop

Spec == Init /\ [][Next]_vars

\* The event loop runs ready callbacks and timers, and every recompute ends.
\* Nothing is assumed of requests or of Stop.
Fairness ==
  /\ WF_vars(StartLoop)
  /\ \A k \in Keys : WF_vars(DebounceExpires(k))
  /\ WF_vars(Drain)
  /\ WF_vars(\E task \in created : Start(task))
  /\ WF_vars(Acquire)
  /\ \A s \in Slots : WF_vars(Finish(s))

FairSpec == Spec /\ Fairness

-----------------------------------------------------------------------------
(* Properties *)

\* Types of the scheduler state of realtime.py.
TypeOK ==
  /\ loop \in {"new", "running", "stopped"}
  /\ pending \in [Keys -> Triggers \cup {NoTrigger}]
  /\ ripe \subseteq Keys
  /\ created \subseteq Task
  /\ inflight \subseteq Keys
  /\ dirty \subseteq Keys
  /\ semQueue \in Seq(Task)
  /\ slot \in [Slots -> Task \cup {NoTask}]
  /\ unserved \in [Keys -> SUBSET Triggers]

\* "A recompute that is already running is not queued twice" (realtime.py,
\* Backpressure): one key never holds two permits.
MutualExclusion ==
  \A s, t \in Slots :
    s # t /\ ~Free(s) /\ ~Free(t) => slot[s].key # slot[t].key

\* The backlog is bounded by the number of keys whatever the load: no key has
\* two tasks in the queue, or one queued and one running, or one created
\* while another is in flight.
OneTaskPerKey ==
  /\ \A i, j \in 1..Len(semQueue) : i # j => semQueue[i].key # semQueue[j].key
  /\ \A i \in 1..Len(semQueue), s \in Slots :
       ~Free(s) => semQueue[i].key # slot[s].key
  /\ \A c \in created : c.key \notin inflight
  /\ \A c, d \in created : c.key = d.key => c = d

\* self._inflight is exactly the keys with a task between its first step and
\* its finally block.
InflightExact ==
  \A k \in Keys :
    k \in inflight <=> \/ \E i \in 1..Len(semQueue) : semQueue[i].key = k
                       \/ \E s \in Slots : ~Free(s) /\ slot[s].key = k

\* A dirty mark always has a task whose finally block will see it; hence the
\* flush at the end of _loop never has anything to do.
DirtyIsInflight == dirty \subseteq inflight

\* k will be read again: an entry, a mark or a task that has not begun.
Covered(k) ==
  \/ pending[k] # NoTrigger
  \/ k \in dirty
  \/ \E c \in created : c.key = k
  \/ \E i \in 1..Len(semQueue) : semQueue[i].key = k

\* No lost wake-up: a request that no run has begun after is still recorded
\* somewhere in the scheduler, whatever was in flight when it arrived.
NoLostRequest == \A k \in Keys : unserved[k] # {} => Covered(k)

\* Every request is followed by a run of its key that begins after it, even
\* under an unbroken stream of requests, unless the bus is stopped.
EveryRequestServed ==
  \A k \in Keys : (unserved[k] # {}) ~> (unserved[k] = {} \/ loop = "stopped")

Idle ==
  /\ \A k \in Keys : pending[k] = NoTrigger
  /\ created = {} /\ inflight = {} /\ dirty = {}

\* The follow-up pass does not feed itself: once requests cease the bus comes
\* to rest (or is stopped).
SettlesWhenQuiet ==
  []<><<Requests>>_vars \/ <>[]Idle \/ <>(loop = "stopped")

-----------------------------------------------------------------------------
(* Refinement *)

Needed == {k \in Keys : unserved[k] # {}}
Running == {k \in Keys : \E s \in Slots : ~Free(s) /\ slot[s].key = k}

Service == INSTANCE RecomputeService WITH
  need <- Needed, busy <- Running, halted <- (loop = "stopped")

\* The bus keeps the promise of RecomputeService.
ServiceSafe == Service!SafeSpec
ServiceKept == Service!Spec
=============================================================================
