--------------------------------- MODULE Hub ---------------------------------
(***************************************************************************)
(* The dashboard fan-out of backend/app/ws/hub.py and the WebSocket        *)
(* endpoint of backend/app/main.py, in several processes joined by Redis   *)
(* pub/sub.  publish() hands an event to Redis; the listener task of every *)
(* subscribed process fans it out to the bounded outboxes of its sockets;  *)
(* one pump task per socket writes it to the network.                      *)
(*                                                                         *)
(* Events are numbered in publication order and carry only their topic.    *)
(* The outbox is a deque(maxlen): appending to a full one discards the     *)
(* oldest entry.                                                           *)
(***************************************************************************)
EXTENDS Naturals, Sequences, FiniteSets

CONSTANTS
  Processes,       \* processes that run a Hub: API replicas and the worker
  Clients,         \* sockets
  Topics,          \* topics events are published on
  PublicTopics,    \* what a socket that asked for nothing gets
  OutboxLimit,     \* OUTBOX_LIMIT
  ClientHashable,  \* can a Client be put in Hub.clients?  See Register
  MaxEvents,       \* bound: events published
  MaxOutages,      \* bound: Redis outages
  Nowhere          \* home of a socket that is not connected

ASSUME HubAssumption ==
  /\ PublicTopics \subseteq Topics /\ PublicTopics # {}
  /\ OutboxLimit \in Nat \ {0}
  /\ ClientHashable \in BOOLEAN
  /\ MaxEvents \in Nat /\ MaxOutages \in Nat
  /\ Nowhere \notin Processes

VARIABLES
  redisUp,   \* the Redis server answers
  outages,   \* outages so far
  mode,      \* mode[p]: "down", "single" or "redis": self._redis
  listener,  \* listener[p]: "none", "starting", "listening", "cut", "dead"
  channel,   \* channel[p]: messages Redis delivered, not yet read by _listen
  published, \* number of events published
  owed,      \* history: owed[e]: processes up when e was published that have
             \* neither fanned it out nor gone down since
  home,      \* home[c]: the process holding the socket of c, or Nowhere
  clients,   \* clients[p]: self.clients of p
  topics,    \* topics[c]: Client.topics
  outbox,    \* outbox[c]: Client.outbox, event numbers
  dropped,   \* dropped[c]: Client.dropped
  lost,      \* history: lost[c]: the newest event discarded from the outbox, or 0
  pump,      \* pump[c]: "none", "idle", "sending", "gap"
  sending,   \* sending[c]: the event _pump is writing, or 0
  shown,     \* history: shown[c]: the last event written to c, or 0
  gaps       \* history: gaps[c]: lost[c] when the last gap notice was started

serverVars == <<redisUp, outages>>
procVars == <<mode, listener, channel>>
eventVars == <<published, owed>>
sockVars == <<home, clients, topics>>
boxVars == <<outbox, dropped, lost>>
pumpVars == <<pump, sending, shown, gaps>>
vars == <<serverVars, procVars, eventVars, sockVars, boxVars, pumpVars>>

Events == 1..MaxEvents

\* A server that is down when the first process starts counts as an outage.
Init ==
  /\ outages \in 0..1 /\ outages <= MaxOutages
  /\ redisUp = (outages = 0)
  /\ mode = [p \in Processes |-> "down"]
  /\ listener = [p \in Processes |-> "none"]
  /\ channel = [p \in Processes |-> <<>>]
  /\ published = 0
  /\ owed = [e \in Events |-> {}]
  /\ home = [c \in Clients |-> Nowhere]
  /\ clients = [p \in Processes |-> {}]
  /\ topics = [c \in Clients |-> {}]
  /\ outbox = [c \in Clients |-> <<>>]
  /\ dropped = [c \in Clients |-> 0]
  /\ lost = [c \in Clients |-> 0]
  /\ pump = [c \in Clients |-> "none"]
  /\ sending = [c \in Clients |-> 0]
  /\ shown = [c \in Clients |-> 0]
  /\ gaps = [c \in Clients |-> 0]

-----------------------------------------------------------------------------
(* Redis *)

\* The server goes away: a subscribed connection still yields what it had
\* received, then raises in listen().
Outage ==
  /\ redisUp
  /\ outages < MaxOutages
  /\ redisUp' = FALSE
  /\ outages' = outages + 1
  /\ listener' = [p \in Processes |->
                    IF listener[p] = "listening" THEN "cut" ELSE listener[p]]
  /\ UNCHANGED <<mode, channel, eventVars, sockVars, boxVars, pumpVars>>

Recovery ==
  /\ ~redisUp
  /\ redisUp' = TRUE
  /\ UNCHANGED <<outages, procVars, eventVars, sockVars, boxVars, pumpVars>>

-----------------------------------------------------------------------------
(* Hub lifecycle in one process *)

\* Mutation: the hub is built without the Redis URL.
StartHubSingle(p) ==
  /\ mode[p] = "down"
  /\ mode' = [mode EXCEPT ![p] = "single"]
  /\ UNCHANGED <<serverVars, listener, channel, eventVars, sockVars, boxVars, pumpVars>>

\* start(): a failed ping leaves the hub in single-node mode for good.
StartHub(p) ==
  /\ mode[p] = "down"
  /\ mode' = [mode EXCEPT ![p] = IF redisUp THEN "redis" ELSE "single"]
  /\ listener' = [listener EXCEPT ![p] = IF redisUp THEN "starting" ELSE "none"]
  /\ UNCHANGED <<serverVars, channel, eventVars, sockVars, boxVars, pumpVars>>

\* First step of _listen.
SubscribeChannel(p) ==
  /\ listener[p] = "starting"
  /\ listener' = [listener EXCEPT ![p] = IF redisUp THEN "listening" ELSE "dead"]
  /\ UNCHANGED <<serverVars, mode, channel, eventVars, sockVars, boxVars, pumpVars>>

\* The error of a lost connection leaves _listen: nothing restarts the task.
ListenerDies(p) ==
  /\ listener[p] = "cut"
  /\ channel[p] = <<>>
  /\ listener' = [listener EXCEPT ![p] = "dead"]
  /\ UNCHANGED <<serverVars, mode, channel, eventVars, sockVars, boxVars, pumpVars>>

-----------------------------------------------------------------------------
(* Publishing *)

\* Client.wants: an empty topic set wants everything.
Wants(c, t) == topics[c] = {} \/ t \in topics[c]

\* deque(maxlen).append
Push(q, e) == IF Len(q) = OutboxLimit THEN Append(Tail(q), e) ELSE Append(q, e)

Receivers(p, t) == {c \in clients[p] : Wants(c, t)}

Full(c) == Len(outbox[c]) = OutboxLimit

\* Mutation: a discarded event is not counted.
FanoutForgetsDrop(p, e, t) ==
  LET full == {c \in Receivers(p, t) : Full(c)}
  IN /\ outbox' = [c \in Clients |->
                     IF c \in Receivers(p, t) THEN Push(outbox[c], e) ELSE outbox[c]]
     /\ lost' = [c \in Clients |-> IF c \in full THEN Head(outbox[c]) ELSE lost[c]]
     /\ UNCHANGED dropped

\* _fanout in process p of event e with topic t.
Fanout(p, e, t) ==
  LET full == {c \in Receivers(p, t) : Full(c)}
  IN /\ outbox' = [c \in Clients |->
                     IF c \in Receivers(p, t) THEN Push(outbox[c], e) ELSE outbox[c]]
     /\ dropped' = [c \in Clients |-> IF c \in full THEN dropped[c] + 1 ELSE dropped[c]]
     /\ lost' = [c \in Clients |-> IF c \in full THEN Head(outbox[c]) ELSE lost[c]]

\* Redis delivers to every live subscription.
Delivered(e, t) == [p \in Processes |->
  IF listener[p] = "listening" THEN Append(channel[p], <<e, t>>) ELSE channel[p]]

\* The processes an event published now should reach.
Up == {p \in Processes : mode[p] # "down" /\ listener[p] # "starting"}

\* Mutation: the publishing process also fans out locally, and so hears its
\* own event twice.
PublishEchoes(p, t) ==
  LET e == published + 1 IN
  /\ mode[p] # "down"
  /\ published < MaxEvents
  /\ published' = e
  /\ owed' = [owed EXCEPT ![e] = Up \ {p}]
  /\ Fanout(p, e, t)
  /\ channel' = IF mode[p] = "redis" /\ redisUp THEN Delivered(e, t) ELSE channel
  /\ UNCHANGED <<serverVars, mode, listener, sockVars, pumpVars>>

\* publish(): in Redis mode the local sockets are served by the listener; if
\* Redis is down the call raises and the event is nowhere.
Publish(p, t) ==
  LET e == published + 1 IN
  /\ published < MaxEvents
  /\ published' = e
  /\ \/ /\ mode[p] = "redis"
        /\ redisUp
        /\ channel' = Delivered(e, t)
        /\ owed' = [owed EXCEPT ![e] = Up]
        /\ UNCHANGED boxVars
     \/ /\ mode[p] = "single"
        /\ Fanout(p, e, t)
        /\ owed' = [owed EXCEPT ![e] = Up \ {p}]
        /\ UNCHANGED channel
  /\ UNCHANGED <<serverVars, mode, listener, sockVars, pumpVars>>

\* One message of pubsub.listen().
Listen(p) ==
  /\ listener[p] \in {"listening", "cut"}
  /\ channel[p] # <<>>
  /\ channel' = [channel EXCEPT ![p] = Tail(@)]
  /\ LET e == Head(channel[p])[1] IN
       /\ Fanout(p, e, Head(channel[p])[2])
       /\ owed' = [owed EXCEPT ![e] = @ \ {p}]
  /\ UNCHANGED <<serverVars, mode, listener, published, sockVars, pumpVars>>

-----------------------------------------------------------------------------
(* Sockets *)

\* websocket_endpoint accepts the socket: ws.accept() in connect().
Accept(c, p) ==
  /\ mode[p] # "down"
  /\ home[c] = Nowhere
  /\ home' = [home EXCEPT ![c] = p]
  /\ UNCHANGED <<serverVars, procVars, eventVars, clients, topics, boxVars, pumpVars>>

Registered(c) == \E p \in Processes : c \in clients[p]

\* The rest of connect().  Client is a dataclass with eq and without frozen, so
\* Python gives it no __hash__ and self.clients.add raises TypeError: the
\* endpoint ends and the socket is closed.  With ClientHashable = TRUE the
\* module describes the same code after that defect is repaired.
Register(c) ==
  /\ home[c] # Nowhere
  /\ ~Registered(c)
  /\ IF ClientHashable
       THEN /\ clients' = [clients EXCEPT ![home[c]] = @ \cup {c}]
            /\ topics' = [topics EXCEPT ![c] = PublicTopics]
            /\ outbox' = [outbox EXCEPT ![c] = <<>>]
            /\ dropped' = [dropped EXCEPT ![c] = 0]
            /\ lost' = [lost EXCEPT ![c] = 0]
            /\ pump' = [pump EXCEPT ![c] = "idle"]
            /\ shown' = [shown EXCEPT ![c] = 0]
            /\ gaps' = [gaps EXCEPT ![c] = 0]
            /\ UNCHANGED <<home, sending>>
       ELSE /\ home' = [home EXCEPT ![c] = Nowhere]
            /\ UNCHANGED <<clients, topics, boxVars, pumpVars>>
  /\ UNCHANGED <<serverVars, procVars, eventVars>>

\* subscribe: and unsubscribe: messages of a registered socket.
Subscribe(c, t) ==
  /\ Registered(c)
  /\ topics' = [topics EXCEPT ![c] = @ \cup {t}]
  /\ UNCHANGED <<serverVars, procVars, eventVars, home, clients, boxVars, pumpVars>>

Unsubscribe(c, t) ==
  /\ Registered(c)
  /\ topics' = [topics EXCEPT ![c] = @ \ {t}]
  /\ UNCHANGED <<serverVars, procVars, eventVars, home, clients, boxVars, pumpVars>>

\* What disconnect() leaves: no registration and no pump.
Gone(c) ==
  /\ home' = [home EXCEPT ![c] = Nowhere]
  /\ clients' = [clients EXCEPT ![home[c]] = @ \ {c}]
  /\ pump' = [pump EXCEPT ![c] = "none"]
  /\ sending' = [sending EXCEPT ![c] = 0]
  /\ UNCHANGED <<serverVars, procVars, eventVars, topics, boxVars, shown, gaps>>

\* The endpoint ends: the peer left or sent nothing for 120 s.
EndpointEnds(c) ==
  /\ Registered(c)
  /\ Gone(c)

\* stop(): the listener is cancelled and every socket is disconnected.
StopHub(p) ==
  /\ mode[p] # "down"
  /\ mode' = [mode EXCEPT ![p] = "down"]
  /\ listener' = [listener EXCEPT ![p] = "none"]
  /\ channel' = [channel EXCEPT ![p] = <<>>]
  /\ home' = [c \in Clients |-> IF home[c] = p THEN Nowhere ELSE home[c]]
  /\ clients' = [clients EXCEPT ![p] = {}]
  /\ pump' = [c \in Clients |-> IF home[c] = p THEN "none" ELSE pump[c]]
  /\ sending' = [c \in Clients |-> IF home[c] = p THEN 0 ELSE sending[c]]
  /\ owed' = [e \in Events |-> owed[e] \ {p}]
  /\ UNCHANGED <<serverVars, published, topics, boxVars, shown, gaps>>

-----------------------------------------------------------------------------
(* The pump of one socket *)

\* popleft, then await send_text.
PumpTakes(c) ==
  /\ pump[c] = "idle"
  /\ outbox[c] # <<>>
  /\ sending' = [sending EXCEPT ![c] = Head(outbox[c])]
  /\ outbox' = [outbox EXCEPT ![c] = Tail(@)]
  /\ pump' = [pump EXCEPT ![c] = "sending"]
  /\ UNCHANGED <<serverVars, procVars, eventVars, sockVars, dropped, lost, shown, gaps>>

\* Mutation: the count is cleared without a gap notice.
PumpWroteSilently(c) ==
  /\ pump[c] = "sending"
  /\ shown' = [shown EXCEPT ![c] = sending[c]]
  /\ sending' = [sending EXCEPT ![c] = 0]
  /\ dropped' = [dropped EXCEPT ![c] = IF outbox[c] = <<>> THEN 0 ELSE @]
  /\ pump' = [pump EXCEPT ![c] = "idle"]
  /\ UNCHANGED <<serverVars, procVars, eventVars, sockVars, outbox, lost, gaps>>

\* send_text returned; a gap notice follows if something was dropped and the
\* outbox is empty now.
PumpWrote(c) ==
  LET gap == dropped[c] > 0 /\ outbox[c] = <<>> IN
  /\ pump[c] = "sending"
  /\ shown' = [shown EXCEPT ![c] = sending[c]]
  /\ sending' = [sending EXCEPT ![c] = 0]
  /\ pump' = [pump EXCEPT ![c] = IF gap THEN "gap" ELSE "idle"]
  /\ gaps' = [gaps EXCEPT ![c] = IF gap THEN lost[c] ELSE @]
  /\ UNCHANGED <<serverVars, procVars, eventVars, sockVars, boxVars>>

\* The gap notice was written (or failed silently): the count restarts, also
\* for what was dropped while it was being written.
PumpGapDone(c) ==
  /\ pump[c] = "gap"
  /\ dropped' = [dropped EXCEPT ![c] = 0]
  /\ pump' = [pump EXCEPT ![c] = "idle"]
  /\ UNCHANGED <<serverVars, procVars, eventVars, sockVars, outbox, lost, sending, shown, gaps>>

\* Mutation: the pump ends without disconnecting its socket.
PumpFailsQuietly(c) ==
  /\ pump[c] = "sending"
  /\ pump' = [pump EXCEPT ![c] = "none"]
  /\ sending' = [sending EXCEPT ![c] = 0]
  /\ UNCHANGED <<serverVars, procVars, eventVars, sockVars, boxVars, shown, gaps>>

\* send_text raised: the pump disconnects its own socket.
PumpFails(c) ==
  /\ pump[c] = "sending"
  /\ Gone(c)

-----------------------------------------------------------------------------
Next ==
  \/ Outage \/ Recovery
  \/ \E p \in Processes :
       \/ StartHub(p) \/ SubscribeChannel(p) \/ ListenerDies(p) \/ StopHub(p)
       \/ Listen(p)
       \/ \E t \in Topics : Publish(p, t)
       \/ \E c \in Clients : Accept(c, p)
  \/ \E c \in Clients :
       \/ Register(c) \/ EndpointEnds(c)
       \/ \E t \in Topics : Subscribe(c, t) \/ Unsubscribe(c, t)
       \/ PumpTakes(c) \/ PumpWrote(c) \/ PumpGapDone(c) \/ PumpFails(c)

Spec == Init /\ [][Next]_vars

\* The event loop of every process runs its ready tasks, Redis comes back, and
\* a write to a socket ends one way or the other.
Fairness ==
  /\ WF_vars(Recovery)
  /\ \A p \in Processes : WF_vars(SubscribeChannel(p)) /\ WF_vars(Listen(p))
  /\ \A c \in Clients :
       /\ WF_vars(Register(c))
       /\ WF_vars(PumpTakes(c))
       /\ WF_vars(PumpWrote(c) \/ PumpFails(c))
       /\ WF_vars(PumpGapDone(c))

FairSpec == Spec /\ Fairness

-----------------------------------------------------------------------------
(* Properties *)

SeqRange(s) == {s[i] : i \in DOMAIN s}

\* Types of the hub state.
TypeOK ==
  /\ redisUp \in BOOLEAN /\ outages \in 0..MaxOutages
  /\ mode \in [Processes -> {"down", "single", "redis"}]
  /\ listener \in [Processes -> {"none", "starting", "listening", "cut", "dead"}]
  /\ channel \in [Processes -> Seq(Events \X Topics)]
  /\ published \in 0..MaxEvents
  /\ owed \in [Events -> SUBSET Processes]
  /\ home \in [Clients -> Processes \cup {Nowhere}]
  /\ clients \in [Processes -> SUBSET Clients]
  /\ topics \in [Clients -> SUBSET Topics]
  /\ outbox \in [Clients -> Seq(Events)] /\ \A c \in Clients : Len(outbox[c]) <= OutboxLimit
  /\ dropped \in [Clients -> Nat]
  /\ lost \in [Clients -> 0..MaxEvents]
  /\ pump \in [Clients -> {"none", "idle", "sending", "gap"}]
  /\ sending \in [Clients -> 0..MaxEvents]
  /\ shown \in [Clients -> 0..MaxEvents]
  /\ gaps \in [Clients -> 0..MaxEvents]

\* What a socket showed last, is writing and has waiting.
Path(c) == <<shown[c]>> \o (IF sending[c] = 0 THEN <<>> ELSE <<sending[c]>>) \o outbox[c]

\* hub.py, publish, _fanout and _pump: what a dashboard receives is in
\* publication order and holds no event twice, whichever process published it
\* and however much was dropped: an older risk map never replaces a newer one.
InOrderOnce ==
  \A c \in Clients : Registered(c) =>
    \A i, j \in DOMAIN Path(c) : i < j => Path(c)[i] < Path(c)[j]

\* hub.py: when the outbox fills "the *oldest* messages are dropped and a `gap`
\* notice is sent".  What a slow dashboard lost is older than everything still
\* waiting for it, never the newest event meant for it, and it is still owed a
\* gap notice or was sent one.
LossAnnounced ==
  \A c \in Clients : Registered(c) /\ lost[c] > 0 =>
    /\ \A f \in SeqRange(outbox[c]) : lost[c] < f
    /\ lost[c] < Path(c)[Len(Path(c))]
    /\ dropped[c] > 0 \/ gaps[c] > 0

\* hub.py, _pump: every event a live socket has queued is written, superseded
\* by newer ones, or the socket goes away.
OutboxDrains ==
  \A c \in Clients, e \in Events :
    (Registered(c) /\ e \in SeqRange(outbox[c]))
      ~> (~Registered(c) \/ e \notin SeqRange(outbox[c]))

\* hub.py, _pump: a dashboard that fell behind is told so once it catches up,
\* or it goes away.
GapNoticeComes ==
  \A c \in Clients : (dropped[c] > 0 /\ Registered(c)) ~> (pump[c] = "gap" \/ ~Registered(c))

\* hub.py: "Clients subscribe to topics ... and receive only those".  A socket
\* the server accepted becomes a registered client, or its process stops.
AcceptedIsRegistered ==
  \A c \in Clients, p \in Processes :
    (home[c] = p) ~> (c \in clients[p] \/ mode[p] = "down")

\* hub.py: "Multiple API replicas behind a load balancer must all deliver an
\* event raised by whichever worker computed it".  Until Redis is lost for the
\* first time, every process up when an event is published fans it out,
\* whatever becomes of sockets and processes, unless it goes down itself.
HeardUntilOutage ==
  \A p \in Processes, e \in Events : (p \in owed[e]) ~> (p \notin owed[e] \/ outages > 0)
=============================================================================
