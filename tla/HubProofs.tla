------------------------------- MODULE HubProofs -------------------------------
(***************************************************************************)
(* For every number of processes, sockets, topics and events, every outbox *)
(* limit and every outage: what a socket is shown comes in publication     *)
(* order and once, and what it lost is older than everything it gets later *)
(* and is announced.                                                       *)
(*                                                                         *)
(* An event passes three queues on its way to a socket -- the subscription *)
(* of the process that holds it, its outbox, the write under way -- and    *)
(* order at the end rests on order along the whole way: the parts of IInv  *)
(* follow an event from one to the next.                                   *)
(***************************************************************************)
EXTENDS Hub, SequenceTheorems, TLAPS

\* A socket is registered with the process that accepted it, and only a
\* registered one is being written to.
OneHome ==
  \A c \in Clients :
    /\ \A p \in Processes : c \in clients[p] => home[c] = p
    /\ sending[c] # 0 => pump[c] = "sending"
    /\ pump[c] # "none" => Registered(c)
    /\ pump[c] = "sending" => sending[c] # 0

\* Only a subscribed listener has messages waiting; a process without Redis,
\* which serves its sockets itself, has none.
OneWay ==
  \A p \in Processes :
    /\ channel[p] # <<>> => listener[p] \in {"listening", "cut"}
    /\ listener[p] # "none" => mode[p] = "redis"

\* Redis delivers in the order of publication.
ChannelsOrdered ==
  \A p \in Processes :
    /\ \A i, j \in 1..Len(channel[p]) : i < j => channel[p][i][1] < channel[p][j][1]
    /\ \A i \in 1..Len(channel[p]) : channel[p][i][1] <= published

\* Everything a socket was shown, is being sent or has waiting is older than e.
AllBefore(c, e) ==
  /\ shown[c] < e /\ sending[c] < e
  /\ \A i \in 1..Len(outbox[c]) : outbox[c][i] < e

\* What a socket has is older than what its process has still to hand on, and so
\* than anything published from now on.
ChannelsAhead ==
  \A c \in Clients, p \in Processes : c \in clients[p] =>
    /\ AllBefore(c, published + 1)
    /\ \A i \in 1..Len(channel[p]) : AllBefore(c, channel[p][i][1])

\* The path of a socket is in order.
PathOrdered ==
  \A c \in Clients : Registered(c) =>
    /\ sending[c] # 0 => shown[c] < sending[c]
    /\ \A i \in 1..Len(outbox[c]) : shown[c] < outbox[c][i] /\ sending[c] < outbox[c][i]
    /\ \A i, j \in 1..Len(outbox[c]) : i < j => outbox[c][i] < outbox[c][j]

\* A loss is older than what is still to come, and counted or announced.
LossOlder ==
  \A c \in Clients : Registered(c) /\ lost[c] > 0 =>
    /\ \A i \in 1..Len(outbox[c]) : lost[c] < outbox[c][i]
    /\ outbox[c] = <<>> => lost[c] < (IF sending[c] # 0 THEN sending[c] ELSE shown[c])

LossCounted ==
  \A c \in Clients : Registered(c) =>
    /\ dropped[c] > 0 => lost[c] > 0
    /\ lost[c] > 0 => dropped[c] > 0 \/ gaps[c] > 0
    /\ pump[c] = "gap" => gaps[c] > 0

IInv ==
  /\ TypeOK /\ OneHome /\ OneWay /\ ChannelsOrdered
  /\ ChannelsAhead /\ PathOrdered /\ LossOlder /\ LossCounted

-----------------------------------------------------------------------------
(* Queues *)

\* What append leaves in a deque of bounded length: the new event last, before it
\* what there was, less its oldest entry when it was full.
Pushed(q, e, r) ==
  /\ r \in Seq(Events) /\ r # <<>> /\ Len(r) \in Nat \ {0} /\ Len(r) <= OutboxLimit
  /\ r[Len(r)] = e
  /\ \A i \in 1..Len(r) - 1 :
       IF Len(q) = OutboxLimit
         THEN i + 1 \in 1..Len(q) /\ r[i] = q[i + 1]
         ELSE i \in 1..Len(q) /\ r[i] = q[i]

LEMMA PushProperties ==
  ASSUME NEW q \in Seq(Events), NEW e \in Events, Len(q) <= OutboxLimit
  PROVE  Pushed(q, e, Push(q, e))
<1> USE HubAssumption
<1>1. CASE Len(q) = OutboxLimit
  <2>1. q # <<>>
    BY <1>1
  <2>2. /\ Tail(q) \in Seq(Events) /\ Len(Tail(q)) = Len(q) - 1
        /\ \A i \in 1..Len(Tail(q)) : Tail(q)[i] = q[i + 1]
    BY <2>1, HeadTailProperties
  <2>3. /\ Push(q, e) = Append(Tail(q), e)
        /\ Push(q, e) \in Seq(Events) /\ Push(q, e) # <<>>
        /\ Len(Push(q, e)) = Len(Tail(q)) + 1
        /\ \A i \in 1..Len(Tail(q)) : Push(q, e)[i] = Tail(q)[i]
        /\ Push(q, e)[Len(Tail(q)) + 1] = e
    BY <1>1, <2>2, AppendProperties DEF Push
  <2> QED
    BY <1>1, <2>2, <2>3, LenProperties DEF Pushed
<1>2. CASE Len(q) # OutboxLimit
  <2>1. /\ Push(q, e) = Append(q, e)
        /\ Push(q, e) \in Seq(Events) /\ Push(q, e) # <<>>
        /\ Len(Push(q, e)) = Len(q) + 1
        /\ \A i \in 1..Len(q) : Push(q, e)[i] = q[i]
        /\ Push(q, e)[Len(q) + 1] = e
    BY <1>2, AppendProperties DEF Push
  <2> QED
    BY <1>2, <2>1, LenProperties DEF Pushed
<1> QED
  BY <1>1, <1>2

LEMMA InitIInv == Init => IInv
<1> SUFFICES ASSUME Init PROVE IInv
  OBVIOUS
<1>1. TypeOK
  <2>1. /\ channel \in [Processes -> Seq(Events \X Topics)]
        /\ outbox \in [Clients -> Seq(Events)]
        /\ \A c \in Clients : Len(outbox[c]) <= OutboxLimit
    BY HubAssumption, EmptySeq DEF Init
  <2> QED
    BY <2>1, HubAssumption DEF Init, TypeOK
<1>2. OneHome /\ OneWay
  BY DEF Init, OneHome, OneWay
<1>3. ChannelsOrdered /\ ChannelsAhead
  BY DEF Init, ChannelsOrdered, ChannelsAhead
<1>4. PathOrdered /\ LossOlder /\ LossCounted
  BY DEF Init, PathOrdered, LossOlder, LossCounted, Registered
<1> QED
  BY <1>1, <1>2, <1>3, <1>4 DEF IInv

-----------------------------------------------------------------------------
(* Redis and the life of a hub *)

\* A step that moves no event and no socket keeps what is known of both.
LEMMA QueuesUntouched ==
  ASSUME IInv, UNCHANGED <<channel, published, home, clients, boxVars, pumpVars>>
  PROVE  /\ OneHome' /\ ChannelsOrdered' /\ ChannelsAhead'
         /\ PathOrdered' /\ LossOlder' /\ LossCounted'
BY DEF IInv, boxVars, pumpVars, OneHome, ChannelsOrdered, ChannelsAhead, AllBefore, PathOrdered,
       LossOlder, LossCounted, Registered

LEMMA RedisKeeps ==
  ASSUME IInv, Outage \/ Recovery
  PROVE  IInv'
<1>1. /\ UNCHANGED <<mode, channel, eventVars, sockVars, boxVars, pumpVars>>
      /\ redisUp' \in BOOLEAN /\ outages' \in 0..MaxOutages
      /\ listener' \in [Processes -> {"none", "starting", "listening", "cut", "dead"}]
      /\ \A p \in Processes :
           /\ listener[p] \in {"listening", "cut"} => listener'[p] \in {"listening", "cut"}
           /\ listener[p] = "none" <=> listener'[p] = "none"
  <2>1. CASE Outage
    <3>1. /\ UNCHANGED <<mode, channel, eventVars, sockVars, boxVars, pumpVars>>
          /\ redisUp' \in BOOLEAN /\ outages' \in 0..MaxOutages
      <4>1. redisUp' \in BOOLEAN /\ UNCHANGED <<mode, channel, eventVars, sockVars, boxVars, pumpVars>>
        BY <2>1 DEF Outage
      <4>2. outages \in 0..MaxOutages /\ MaxOutages \in Nat
        BY HubAssumption DEF IInv, TypeOK
      <4>3. outages < MaxOutages /\ outages' = outages + 1
        BY <2>1 DEF Outage
      <4> QED
        BY <4>1, <4>2, <4>3
    <3>2. listener \in [Processes -> {"none", "starting", "listening", "cut", "dead"}]
      BY DEF IInv, TypeOK
    <3>3. listener' = [p \in Processes |->
                         IF listener[p] = "listening" THEN "cut" ELSE listener[p]]
      BY <2>1 DEF Outage
    <3> QED
      BY <3>1, <3>2, <3>3
  <2>2. CASE Recovery
    BY <2>2 DEF IInv, TypeOK, Recovery, procVars
  <2> QED
    BY <2>1, <2>2
<1>2. TypeOK' /\ OneWay'
  BY <1>1 DEF IInv, TypeOK, OneWay, eventVars, sockVars, boxVars, pumpVars
<1> QED
  BY <1>1, <1>2, QueuesUntouched DEF IInv, eventVars, sockVars

LEMMA LifecycleKeeps ==
  ASSUME IInv, NEW p \in Processes, StartHub(p) \/ SubscribeChannel(p) \/ ListenerDies(p)
  PROVE  IInv'
<1>1. /\ UNCHANGED <<serverVars, channel, eventVars, sockVars, boxVars, pumpVars>>
      /\ mode' \in [Processes -> {"down", "single", "redis"}]
      /\ listener' \in [Processes -> {"none", "starting", "listening", "cut", "dead"}]
  BY DEF IInv, TypeOK, StartHub, SubscribeChannel, ListenerDies
<1>2. TypeOK'
  BY <1>1 DEF IInv, TypeOK, serverVars, eventVars, sockVars, boxVars, pumpVars
<1>3. OneWay'
  BY <1>1 DEF IInv, TypeOK, OneWay, StartHub, SubscribeChannel, ListenerDies
<1> QED
  BY <1>1, <1>2, <1>3, QueuesUntouched DEF IInv, eventVars, sockVars

\* Accepting a socket and its choice of topics leave the queues alone: a socket
\* that is accepted is registered nowhere yet.
LEMMA TopicsKeep ==
  ASSUME IInv, NEW c \in Clients,
         \/ \E p \in Processes : Accept(c, p)
         \/ \E t \in Topics : Subscribe(c, t) \/ Unsubscribe(c, t)
  PROVE  IInv'
<1>1. /\ UNCHANGED <<serverVars, procVars, eventVars, clients, boxVars, pumpVars>>
      /\ home' \in [Clients -> Processes \cup {Nowhere}]
      /\ topics' \in [Clients -> SUBSET Topics]
      /\ \A d \in Clients, p \in Processes : d \in clients[p] => home'[d] = home[d]
  <2>1. CASE \E p \in Processes : Accept(c, p)
    BY <2>1, HubAssumption DEF IInv, TypeOK, OneHome, Accept
  <2>2. CASE \E t \in Topics : Subscribe(c, t) \/ Unsubscribe(c, t)
    <3>1. PICK t \in Topics : Subscribe(c, t) \/ Unsubscribe(c, t)
      BY <2>2
    <3>2. /\ UNCHANGED <<serverVars, procVars, eventVars, home, clients, boxVars, pumpVars>>
          /\ \E T \in {topics[c] \cup {t}, topics[c] \ {t}} : topics' = [topics EXCEPT ![c] = T]
      BY <3>1 DEF Subscribe, Unsubscribe
    <3>3. topics[c] \cup {t} \in SUBSET Topics /\ topics[c] \ {t} \in SUBSET Topics
      BY DEF IInv, TypeOK
    <3>4. topics' \in [Clients -> SUBSET Topics]
      BY <3>2, <3>3 DEF IInv, TypeOK
    <3>5. home' \in [Clients -> Processes \cup {Nowhere}]
      BY <3>2 DEF IInv, TypeOK
    <3> QED
      BY <3>2, <3>4, <3>5
  <2> QED
    BY <2>1, <2>2
<1>2. TypeOK'
  BY <1>1 DEF IInv, TypeOK, serverVars, procVars, eventVars, boxVars, pumpVars
<1>3. OneHome'
  BY <1>1 DEF IInv, OneHome, Registered, pumpVars
<1>4. OneWay' /\ ChannelsOrdered'
  BY <1>1 DEF IInv, OneWay, ChannelsOrdered, procVars, eventVars
<1>5. ChannelsAhead'
  BY <1>1 DEF IInv, ChannelsAhead, AllBefore, procVars, eventVars, boxVars, pumpVars
<1>6. PathOrdered' /\ LossOlder' /\ LossCounted'
  BY <1>1 DEF IInv, PathOrdered, LossOlder, LossCounted, Registered, boxVars, pumpVars
<1> QED
  BY <1>2, <1>3, <1>4, <1>5, <1>6 DEF IInv

-----------------------------------------------------------------------------
(* Fan-out *)

\* Everything known of one socket.
SocketOK(c) ==
  /\ outbox[c] \in Seq(Events) /\ Len(outbox[c]) <= OutboxLimit
  /\ dropped[c] \in Nat /\ lost[c] \in 0..MaxEvents
  /\ Registered(c) =>
       /\ sending[c] # 0 => shown[c] < sending[c]
       /\ \A i \in 1..Len(outbox[c]) : shown[c] < outbox[c][i] /\ sending[c] < outbox[c][i]
       /\ \A i, j \in 1..Len(outbox[c]) : i < j => outbox[c][i] < outbox[c][j]
       /\ lost[c] > 0 =>
            /\ \A i \in 1..Len(outbox[c]) : lost[c] < outbox[c][i]
            /\ outbox[c] = <<>> => lost[c] < (IF sending[c] # 0 THEN sending[c] ELSE shown[c])
            /\ dropped[c] > 0 \/ gaps[c] > 0
       /\ dropped[c] > 0 => lost[c] > 0
       /\ pump[c] = "gap" => gaps[c] > 0

LEMMA SocketOKIsAll ==
  ASSUME IInv
  PROVE  \A c \in Clients : SocketOK(c)
BY DEF IInv, TypeOK, SocketOK, PathOrdered, LossOlder, LossCounted

\* Fanning out an event younger than everything its receivers have keeps the path
\* of every socket, and what it may add to one is that event.
LEMMA FanoutKeeps ==
  ASSUME TypeOK, \A c \in Clients : SocketOK(c), UNCHANGED <<clients, pumpVars>>,
         NEW p \in Processes, NEW e \in Events, NEW t \in Topics, Fanout(p, e, t),
         \A c \in clients[p] : AllBefore(c, e)
  PROVE  /\ outbox' \in [Clients -> Seq(Events)] /\ dropped' \in [Clients -> Nat]
         /\ lost' \in [Clients -> 0..MaxEvents]
         /\ \A c \in Clients : SocketOK(c)'
         /\ \A c \in Clients, n \in Nat :
              AllBefore(c, n) /\ (c \in clients[p] => e < n) => AllBefore(c, n)'
<1> DEFINE R == Receivers(p, t)
<1>1. R \subseteq clients[p] /\ R \subseteq Clients
  BY DEF Receivers, TypeOK
<1>2. ASSUME NEW c \in Clients
      PROVE  /\ outbox'[c] \in Seq(Events) /\ dropped'[c] \in Nat /\ lost'[c] \in 0..MaxEvents
             /\ SocketOK(c)'
             /\ \A n \in Nat : AllBefore(c, n) /\ (c \in clients[p] => e < n) => AllBefore(c, n)'
  <2>1. /\ SocketOK(c) /\ outbox[c] \in Seq(Events) /\ Len(outbox[c]) \in Nat
        /\ shown[c] \in Nat /\ sending[c] \in Nat /\ e \in Nat \ {0}
    BY LenProperties, HubAssumption DEF SocketOK, TypeOK, Events
  <2>2. /\ shown'[c] = shown[c] /\ sending'[c] = sending[c] /\ pump'[c] = pump[c] /\ gaps'[c] = gaps[c]
        /\ Registered(c)' = Registered(c)
    BY DEF pumpVars, Registered
  <2>3. CASE c \notin R
    <3>1. outbox'[c] = outbox[c] /\ dropped'[c] = dropped[c] /\ lost'[c] = lost[c]
      BY <2>3 DEF Fanout
    <3> QED
      BY <2>1, <2>2, <3>1 DEF SocketOK, AllBefore
  <2>4. CASE c \in R
    <3> DEFINE q == outbox[c]
               full == Len(q) = OutboxLimit
    <3>1. /\ outbox'[c] = Push(q, e)
          /\ dropped'[c] = (IF full THEN dropped[c] + 1 ELSE dropped[c])
          /\ lost'[c] = (IF full THEN q[1] ELSE lost[c])
      BY <2>4 DEF Fanout, Full
    <3>2. AllBefore(c, e) /\ Registered(c)
      BY <2>4, <1>1 DEF Registered
    <3>3. \A i \in 1..Len(q) : q[i] \in Events /\ q[i] < e
      BY <2>1, <3>2, ElementOfSeq DEF AllBefore
    <3> DEFINE r == outbox'[c]
    <3>4. Pushed(q, e, r)
      <4>1. q \in Seq(Events) /\ Len(q) <= OutboxLimit
        BY <2>1 DEF SocketOK
      <4> QED
        BY <3>1, <4>1, PushProperties, Zenon
    <3> HIDE DEF r, q
    <3>5. dropped'[c] \in Nat /\ lost'[c] \in 0..MaxEvents
      <4>1. full => 1 \in 1..Len(q)
        BY <2>1, HubAssumption DEF q
      <4> QED
        BY <2>1, <3>1, <3>3, <4>1 DEF SocketOK, Events
    <3>6. \A i \in 1..Len(r) : shown[c] < r[i] /\ sending[c] < r[i]
      BY <2>1, <3>2, <3>3, <3>4 DEF Pushed, SocketOK, AllBefore, q
    <3>7. \A i, j \in 1..Len(r) : i < j => r[i] < r[j]
      <4>1. \A i, j \in 1..Len(q) : i < j => q[i] < q[j]
        BY <2>1, <3>2 DEF SocketOK, q
      <4> SUFFICES ASSUME NEW i \in 1..Len(r), NEW j \in 1..Len(r), i < j
                   PROVE  r[i] < r[j]
        OBVIOUS
      <4>2. i \in 1..Len(r) - 1
        BY <3>4 DEF Pushed
      <4>3. CASE j = Len(r)
        BY <3>3, <3>4, <4>2, <4>3 DEF Pushed
      <4>4. CASE j # Len(r)
        BY <2>1, <3>4, <4>1, <4>2, <4>4 DEF Pushed, q
      <4> QED
        BY <4>3, <4>4
    <3>8. lost[c] > 0 => lost[c] < e
      <4> SUFFICES ASSUME lost[c] > 0 PROVE lost[c] < e
        OBVIOUS
      <4>1. CASE q = <<>>
        BY <2>1, <3>2, <4>1 DEF SocketOK, AllBefore, q
      <4>2. CASE q # <<>>
        <5>1. 1 \in 1..Len(q) /\ q[1] \in Events
          BY <2>1, <3>3, <4>2, EmptySeq DEF q
        <5> QED
          BY <2>1, <3>2, <3>3, <5>1 DEF SocketOK, Events, q
      <4> QED
        BY <4>1, <4>2
    <3>9. lost'[c] > 0 =>
            /\ \A i \in 1..Len(r) : lost'[c] < r[i]
            /\ dropped'[c] > 0 \/ gaps[c] > 0
      <4>1. CASE full
        <5>1. 1 \in 1..Len(q)
          BY <2>1, <4>1, HubAssumption DEF q
        <5>2. lost'[c] = q[1] /\ dropped'[c] = dropped[c] + 1 /\ dropped[c] \in Nat
          BY <2>1, <3>1, <4>1 DEF SocketOK
        <5>3. \A i, j \in 1..Len(q) : i < j => q[i] < q[j]
          BY <2>1, <3>2 DEF SocketOK, q
        <5>4. ASSUME NEW i \in 1..Len(r)
              PROVE  q[1] < r[i]
          <6>1. CASE i = Len(r)
            BY <3>3, <3>4, <5>1, <6>1 DEF Pushed
          <6>2. CASE i # Len(r)
            BY <2>1, <3>4, <4>1, <5>1, <5>3, <6>2 DEF Pushed, q
          <6> QED
            BY <6>1, <6>2
        <5> QED
          BY <5>2, <5>4
      <4>2. CASE ~full
        BY <2>1, <3>1, <3>2, <3>3, <3>4, <3>8, <4>2 DEF Pushed, SocketOK, Events, q
      <4> QED
        BY <4>1, <4>2
    <3>10. dropped'[c] > 0 => lost'[c] > 0
      <4>1. full => 1 \in 1..Len(q)
        BY <2>1, HubAssumption DEF q
      <4> QED
        BY <2>1, <3>1, <3>2, <3>3, <4>1 DEF SocketOK, Events
    <3>11. \A n \in Nat : AllBefore(c, n) /\ (c \in clients[p] => e < n) => AllBefore(c, n)'
      <4> SUFFICES ASSUME NEW n \in Nat, AllBefore(c, n), e < n
                   PROVE  AllBefore(c, n)'
        BY <1>1, <2>4
      <4>1. \A i \in 1..Len(q) : q[i] < n
        BY DEF AllBefore, q
      <4>2. ASSUME NEW i \in 1..Len(r)
            PROVE  r[i] < n
        <5>1. CASE i = Len(r)
          BY <3>4, <5>1 DEF Pushed
        <5>2. CASE i # Len(r)
          BY <3>4, <4>1, <5>2 DEF Pushed
        <5> QED
          BY <5>1, <5>2
      <4> QED
        BY <2>2, <4>2 DEF AllBefore, r
    <3> QED
      BY <2>1, <2>2, <3>2, <3>4, <3>5, <3>6, <3>7, <3>9, <3>10, <3>11 DEF Pushed, SocketOK, r
  <2> QED
    BY <2>3, <2>4
<1>3. /\ outbox' \in [Clients -> Seq(Events)] /\ dropped' \in [Clients -> Nat]
      /\ lost' \in [Clients -> 0..MaxEvents]
  BY <1>2 DEF Fanout
<1> QED
  BY <1>2, <1>3
-----------------------------------------------------------------------------
(* Publishing and listening *)

\* The entries of the queues are events.
LEMMA EntriesAreEvents ==
  ASSUME TypeOK
  PROVE  /\ \A p \in Processes : /\ Len(channel[p]) \in Nat
                                 /\ \A i \in 1..Len(channel[p]) :
                                      /\ channel[p][i] \in Events \X Topics
                                      /\ channel[p][i][1] \in Nat
         /\ \A c \in Clients : /\ Len(outbox[c]) \in Nat
                               /\ \A i \in 1..Len(outbox[c]) : outbox[c][i] \in Nat
         /\ \A c \in Clients : shown[c] \in Nat /\ sending[c] \in Nat
         /\ published \in Nat
<1>1. MaxEvents \in Nat /\ Events \subseteq Nat
  BY HubAssumption DEF Events
<1>2. ASSUME NEW p \in Processes
      PROVE  /\ Len(channel[p]) \in Nat
             /\ \A i \in 1..Len(channel[p]) :
                  channel[p][i] \in Events \X Topics /\ channel[p][i][1] \in Nat
  <2>1. channel[p] \in Seq(Events \X Topics)
    BY DEF TypeOK
  <2>2. Len(channel[p]) \in Nat /\ \A i \in 1..Len(channel[p]) : channel[p][i] \in Events \X Topics
    BY <2>1, LenProperties, ElementOfSeq
  <2>3. \A m \in Events \X Topics : m[1] \in Nat
    BY <1>1
  <2> QED
    BY <2>2, <2>3
<1>3. ASSUME NEW c \in Clients
      PROVE  /\ Len(outbox[c]) \in Nat
             /\ \A i \in 1..Len(outbox[c]) : outbox[c][i] \in Nat
  <2>1. outbox[c] \in Seq(Events)
    BY DEF TypeOK
  <2> QED
    BY <1>1, <2>1, LenProperties, ElementOfSeq
<1>4. published \in Nat /\ \A c \in Clients : shown[c] \in Nat /\ sending[c] \in Nat
  BY <1>1 DEF TypeOK
<1> QED
  BY <1>2, <1>3, <1>4

\* A fan-out step, whoever takes it: the registrations stand, so only the queues
\* are left to look at.
LEMMA FanoutStep ==
  ASSUME IInv, UNCHANGED <<serverVars, mode, listener, sockVars, pumpVars>>,
         NEW p \in Processes, NEW e \in Events, NEW t \in Topics, Fanout(p, e, t),
         \A c \in clients[p] : AllBefore(c, e),
         published' \in 0..MaxEvents, owed' \in [Events -> SUBSET Processes],
         channel' \in [Processes -> Seq(Events \X Topics)]
  PROVE  TypeOK' /\ OneHome' /\ PathOrdered' /\ LossOlder' /\ LossCounted'
<1>1. UNCHANGED <<redisUp, outages, mode, listener, home, clients, topics, pump, sending, shown, gaps>>
  BY DEF serverVars, sockVars, pumpVars
<1>2. UNCHANGED <<clients, pumpVars>>
  BY DEF sockVars
<1>3. /\ outbox' \in [Clients -> Seq(Events)] /\ dropped' \in [Clients -> Nat]
      /\ lost' \in [Clients -> 0..MaxEvents]
      /\ \A c \in Clients : SocketOK(c)'
  BY <1>2, SocketOKIsAll, FanoutKeeps DEF IInv
<1>4. TypeOK'
  <2>1. \A c \in Clients : Len(outbox'[c]) <= OutboxLimit
    BY <1>3 DEF SocketOK
  <2> QED
    BY <1>1, <1>3, <2>1 DEF IInv, TypeOK
<1>5. OneHome'
  BY <1>1 DEF IInv, OneHome, Registered
<1>6. PathOrdered' /\ LossOlder' /\ LossCounted'
  BY <1>3 DEF SocketOK, PathOrdered, LossOlder, LossCounted
<1> QED
  BY <1>4, <1>5, <1>6

\* Two processes never hold the same socket.
LEMMA HomeIsOne ==
  ASSUME IInv, NEW p \in Processes, NEW q \in Processes, NEW c \in clients[p] \cap clients[q]
  PROVE  p = q
BY DEF IInv, TypeOK, OneHome

LEMMA PublishKeeps ==
  ASSUME IInv, NEW p \in Processes, NEW t \in Topics, Publish(p, t)
  PROVE  IInv'
<1>0. /\ published \in Nat /\ published < MaxEvents /\ published' = published + 1
      /\ UNCHANGED <<serverVars, mode, listener, sockVars, pumpVars>>
  BY HubAssumption DEF IInv, TypeOK, Publish
<1>1. PICK e \in Nat \ {0} : e = published + 1 /\ published' = e
  BY <1>0
<1>2. e \in Events /\ published' \in 0..MaxEvents
  BY <1>0, <1>1, HubAssumption DEF Events
<1>3. owed' \in [Events -> SUBSET Processes]
  <2>1. Up \in SUBSET Processes /\ Up \ {p} \in SUBSET Processes
    BY DEF Up
  <2>2. owed' = [owed EXCEPT ![e] = Up] \/ owed' = [owed EXCEPT ![e] = Up \ {p}]
    BY <1>1 DEF Publish
  <2> QED
    BY <2>1, <2>2 DEF IInv, TypeOK
<1>4. UNCHANGED <<redisUp, outages, mode, listener, home, clients, topics, pump, sending, shown, gaps>>
  BY <1>0 DEF serverVars, sockVars, pumpVars
<1>5. CASE mode[p] = "redis" /\ channel' = Delivered(e, t) /\ UNCHANGED boxVars
  <2> USE DEF IInv
  <2>1. ASSUME NEW q \in Processes
        PROVE  \/ channel'[q] = channel[q]
               \/ /\ listener[q] = "listening"
                  /\ channel'[q] \in Seq(Events \X Topics)
                  /\ Len(channel'[q]) = Len(channel[q]) + 1
                  /\ channel'[q][Len(channel[q]) + 1] = <<e, t>>
                  /\ \A i \in 1..Len(channel[q]) : channel'[q][i] = channel[q][i]
    <3>1. channel[q] \in Seq(Events \X Topics) /\ <<e, t>> \in Events \X Topics
      BY <1>2 DEF TypeOK
    <3> QED
      BY <1>5, <3>1, AppendProperties DEF Delivered
  <2>2. UNCHANGED <<outbox, dropped, lost>>
    BY <1>5 DEF boxVars
  <2>3. TypeOK'
    <3>1. channel' \in [Processes -> Seq(Events \X Topics)]
      BY <1>5, <2>1 DEF TypeOK, Delivered
    <3> QED
      BY <1>2, <1>3, <1>4, <2>2, <3>1 DEF TypeOK
  <2>4. OneHome' /\ OneWay'
    BY <1>4, <2>1, <2>2 DEF OneHome, OneWay, Registered
  <2>5. ChannelsOrdered'
    <3> SUFFICES ASSUME NEW q \in Processes
                 PROVE  /\ \A i, j \in 1..Len(channel'[q]) :
                             i < j => channel'[q][i][1] < channel'[q][j][1]
                        /\ \A i \in 1..Len(channel'[q]) : channel'[q][i][1] <= e
      BY <1>1 DEF ChannelsOrdered
    <3>1. Len(channel[q]) \in Nat /\ \A i \in 1..Len(channel[q]) : channel[q][i][1] \in Nat
      BY EntriesAreEvents
    <3>2. \A i, j \in 1..Len(channel[q]) : i < j => channel[q][i][1] < channel[q][j][1]
      BY DEF ChannelsOrdered
    <3>3. \A i \in 1..Len(channel[q]) : channel[q][i][1] <= published
      BY DEF ChannelsOrdered
    <3>4. \A i \in 1..Len(channel[q]) : channel[q][i][1] < e
      BY <1>0, <1>1, <3>1, <3>3
    <3>5. ASSUME NEW i \in 1..Len(channel'[q])
          PROVE  \/ i \in 1..Len(channel[q]) /\ channel'[q][i] = channel[q][i]
                 \/ i = Len(channel[q]) + 1 /\ channel'[q][i] = <<e, t>>
      BY <2>1, <3>1
    <3>6. ASSUME NEW i \in 1..Len(channel'[q]), NEW j \in 1..Len(channel'[q]), i < j
          PROVE  channel'[q][i][1] < channel'[q][j][1]
      <4>1. i \in 1..Len(channel[q]) /\ channel'[q][i] = channel[q][i]
        BY <2>1, <3>1, <3>6
      <4> QED
        BY <3>2, <3>4, <3>5, <3>6, <4>1
    <3>7. ASSUME NEW i \in 1..Len(channel'[q])
          PROVE  channel'[q][i][1] <= e
      BY <1>1, <3>1, <3>4, <3>5
    <3> QED
      BY <3>6, <3>7
  <2>6. ChannelsAhead'
    <3>1. ASSUME NEW c \in Clients, NEW q \in Processes, c \in clients[q]
          PROVE  /\ AllBefore(c, e) /\ AllBefore(c, e + 1)
                 /\ \A i \in 1..Len(channel'[q]) : AllBefore(c, channel'[q][i][1])
      <4>1. AllBefore(c, e) /\ \A i \in 1..Len(channel[q]) : AllBefore(c, channel[q][i][1])
        BY <1>1, <3>1 DEF ChannelsAhead
      <4>2. AllBefore(c, e + 1)
        BY <1>1, <4>1, EntriesAreEvents DEF AllBefore
      <4>3. ASSUME NEW i \in 1..Len(channel'[q])
            PROVE  AllBefore(c, channel'[q][i][1])
        <5>1. channel'[q][i][1] = e \/ (i \in 1..Len(channel[q]) /\ channel'[q][i] = channel[q][i])
          BY <2>1, EntriesAreEvents
        <5> QED
          BY <4>1, <5>1
      <4> QED
        BY <4>1, <4>2, <4>3
    <3> QED
      BY <1>1, <1>4, <2>2, <3>1 DEF ChannelsAhead, AllBefore
  <2>7. PathOrdered' /\ LossOlder' /\ LossCounted'
    BY <1>4, <2>2 DEF PathOrdered, LossOlder, LossCounted, Registered
  <2> QED
    BY <2>3, <2>4, <2>5, <2>6, <2>7
<1>6. CASE mode[p] = "single" /\ Fanout(p, e, t) /\ UNCHANGED channel
  <2>1. channel[p] = <<>>
    BY <1>6 DEF IInv, OneWay
  <2>2. \A c \in clients[p] : AllBefore(c, e)
    BY <1>1 DEF IInv, TypeOK, ChannelsAhead
  <2>3. TypeOK' /\ OneHome' /\ PathOrdered' /\ LossOlder' /\ LossCounted'
    <3>1. channel' \in [Processes -> Seq(Events \X Topics)]
      BY <1>6 DEF IInv, TypeOK
    <3> QED
      BY <1>0, <1>1, <1>2, <1>3, <1>6, <2>2, <3>1, FanoutStep
  <2>4. OneWay'
    BY <1>4, <1>6 DEF IInv, OneWay
  <2>5. ChannelsOrdered'
    BY <1>0, <1>6, EntriesAreEvents DEF IInv, ChannelsOrdered
  <2>6. ChannelsAhead'
    <3>1. ASSUME NEW c \in Clients, NEW q \in Processes, c \in clients[q]
          PROVE  AllBefore(c, e + 1)' /\ \A i \in 1..Len(channel[q]) : AllBefore(c, channel[q][i][1])'
      <4>1. \A n \in Nat : AllBefore(c, n) /\ (c \in clients[p] => e < n) => AllBefore(c, n)'
        BY <1>2, <1>4, <1>6, <2>2, SocketOKIsAll, FanoutKeeps DEF IInv, pumpVars
      <4>2. AllBefore(c, e + 1)
        BY <1>1, <3>1, EntriesAreEvents DEF IInv, ChannelsAhead, AllBefore
      <4>3. ASSUME NEW i \in 1..Len(channel[q])
            PROVE  AllBefore(c, channel[q][i][1])'
        <5>1. q # p /\ c \notin clients[p]
          BY <2>1, <3>1, HomeIsOne
        <5>2. PICK n \in Nat : n = channel[q][i][1] /\ AllBefore(c, n)
          BY <1>6, <3>1, EntriesAreEvents DEF IInv, ChannelsAhead
        <5>3. AllBefore(c, n)'
          BY <4>1, <5>1, <5>2
        <5> QED
          BY <1>6, <5>2, <5>3 DEF AllBefore
      <4> QED
        BY <4>1, <4>2, <4>3
    <3> QED
      BY <1>1, <1>4, <1>6, <3>1 DEF ChannelsAhead, AllBefore
  <2> QED
    BY <2>3, <2>4, <2>5, <2>6 DEF IInv
<1> QED
  BY <1>0, <1>1, <1>5, <1>6 DEF Publish

LEMMA ListenKeeps ==
  ASSUME IInv, NEW p \in Processes, Listen(p)
  PROVE  IInv'
<1> USE DEF IInv
<1>1. /\ listener[p] \in {"listening", "cut"} /\ channel[p] # <<>>
      /\ channel' = [channel EXCEPT ![p] = Tail(@)]
      /\ UNCHANGED <<serverVars, mode, listener, published, sockVars, pumpVars>>
  BY DEF Listen
<1>2. /\ Head(channel[p]) = channel[p][1] /\ Head(channel[p]) \in Events \X Topics
      /\ Tail(channel[p]) \in Seq(Events \X Topics)
      /\ Len(channel[p]) \in Nat \ {0} /\ Len(Tail(channel[p])) = Len(channel[p]) - 1
      /\ \A i \in 1..Len(Tail(channel[p])) : Tail(channel[p])[i] = channel[p][i + 1]
  <2>1. channel[p] \in Seq(Events \X Topics)
    BY DEF TypeOK
  <2> QED
    BY <1>1, <2>1, HeadTailProperties, EmptySeq
<1>3. PICK e \in Events, t \in Topics : Head(channel[p])[1] = e /\ Head(channel[p])[2] = t
  BY <1>2
<1>4. Fanout(p, e, t) /\ owed' = [owed EXCEPT ![e] = @ \ {p}]
  <2>1. /\ Fanout(p, Head(channel[p])[1], Head(channel[p])[2])
        /\ owed' = [owed EXCEPT ![Head(channel[p])[1]] = @ \ {p}]
    BY DEF Listen
  <2> QED
    BY <1>3, <2>1
<1>5. UNCHANGED <<redisUp, outages, mode, listener, home, clients, topics, pump, sending, shown, gaps,
                  published>>
  BY <1>1 DEF serverVars, sockVars, pumpVars
<1>6. 1 \in 1..Len(channel[p]) /\ channel[p][1][1] = e /\ e \in Nat
  BY <1>2, <1>3, HubAssumption DEF Events
<1>7. \A c \in clients[p] : AllBefore(c, e)
  BY <1>6 DEF TypeOK, ChannelsAhead
<1>8. channel' \in [Processes -> Seq(Events \X Topics)]
  BY <1>1, <1>2 DEF TypeOK
<1>9. owed' \in [Events -> SUBSET Processes]
  BY <1>4 DEF TypeOK
<1>10. TypeOK' /\ OneHome' /\ PathOrdered' /\ LossOlder' /\ LossCounted'
  <2>1. published' \in 0..MaxEvents
    BY <1>5 DEF TypeOK
  <2> QED
    BY <1>1, <1>4, <1>7, <1>8, <1>9, <2>1, FanoutStep
<1>11. ASSUME NEW q \in Processes, NEW i \in 1..Len(channel'[q])
       PROVE  /\ q # p => channel'[q] = channel[q]
              /\ q = p => i + 1 \in 1..Len(channel[q]) /\ channel'[q][i] = channel[q][i + 1]
  BY <1>1, <1>2 DEF TypeOK
<1>12. OneWay'
  BY <1>1, <1>5 DEF OneWay, TypeOK
<1>13. ChannelsOrdered'
  <2>1. ASSUME NEW q \in Processes, NEW i \in 1..Len(channel'[q])
        PROVE  /\ \A j \in 1..Len(channel'[q]) : i < j => channel'[q][i][1] < channel'[q][j][1]
               /\ channel'[q][i][1] <= published
    <3>1. CASE q # p
      BY <1>11, <3>1 DEF ChannelsOrdered
    <3>2. CASE q = p
      <4>1. i + 1 \in 1..Len(channel[p]) /\ channel'[q][i] = channel[p][i + 1]
        BY <1>11, <3>2
      <4>2. channel'[q][i][1] <= published
        BY <4>1 DEF ChannelsOrdered
      <4>3. ASSUME NEW j \in 1..Len(channel'[q]), i < j
            PROVE  channel'[q][i][1] < channel'[q][j][1]
        <5>1. j + 1 \in 1..Len(channel[p]) /\ channel'[q][j] = channel[p][j + 1]
          BY <1>11, <3>2
        <5>2. i + 1 < j + 1
          BY <1>2, <1>11, <3>2, <4>3, EntriesAreEvents
        <5> QED
          BY <4>1, <5>1, <5>2 DEF ChannelsOrdered
      <4> QED
        BY <4>2, <4>3
    <3> QED
      BY <3>1, <3>2
  <2> QED
    BY <1>5, <2>1 DEF ChannelsOrdered
<1>14. ChannelsAhead'
  <2>1. ASSUME NEW c \in Clients, NEW q \in Processes, c \in clients[q]
        PROVE  /\ AllBefore(c, published + 1)'
               /\ \A i \in 1..Len(channel'[q]) : AllBefore(c, channel[q][i][1])'
    <3>1. \A n \in Nat : AllBefore(c, n) /\ (c \in clients[p] => e < n) => AllBefore(c, n)'
      BY <1>4, <1>5, <1>7, SocketOKIsAll, FanoutKeeps DEF pumpVars
    <3>2. PICK n \in Nat : n = published + 1
      BY EntriesAreEvents
    <3>3. AllBefore(c, n) /\ e < n
      BY <1>6, <2>1, <3>2, EntriesAreEvents DEF ChannelsAhead, ChannelsOrdered
    <3>4. AllBefore(c, published + 1)'
      BY <1>5, <3>1, <3>2, <3>3 DEF AllBefore
    <3>5. ASSUME NEW i \in 1..Len(channel'[q])
          PROVE  AllBefore(c, channel[q][i][1])'
      <4>1. PICK m \in Nat : m = channel'[q][i][1] /\ AllBefore(c, m) /\ (q = p => e < m)
        <5>1. CASE q # p
          BY <1>11, <2>1, <5>1, EntriesAreEvents DEF ChannelsAhead
        <5>2. CASE q = p
          <6>1. i + 1 \in 1..Len(channel[p]) /\ channel'[q][i] = channel[p][i + 1]
            BY <1>11, <5>2
          <6>2. 1 < i + 1
            BY <6>1, <1>2
          <6>3. e < channel[p][i + 1][1] /\ channel[p][i + 1][1] \in Nat
            BY <1>6, <6>1, <6>2, EntriesAreEvents DEF ChannelsOrdered
          <6>4. AllBefore(c, channel[p][i + 1][1])
            BY <2>1, <5>2, <6>1 DEF ChannelsAhead
          <6> QED
            BY <6>1, <6>3, <6>4
        <5> QED
          BY <5>1, <5>2
      <4>2. AllBefore(c, m)'
        BY <2>1, <3>1, <4>1, HomeIsOne
      <4> QED
        BY <4>1, <4>2 DEF AllBefore
    <3> QED
      BY <3>4, <3>5
  <2> QED
    BY <1>5, <2>1 DEF ChannelsAhead
<1> QED
  BY <1>10, <1>12, <1>13, <1>14

-----------------------------------------------------------------------------
(* Sockets and their pumps *)

LEMMA RegisterKeeps ==
  ASSUME IInv, NEW c \in Clients, Register(c)
  PROVE  IInv'
<1> USE DEF IInv
<1>1. /\ UNCHANGED <<redisUp, outages, mode, listener, channel, published, owed>>
      /\ home[c] \in Processes /\ ~Registered(c)
  BY DEF Register, TypeOK, serverVars, procVars, eventVars
<1>2. OneWay' /\ ChannelsOrdered'
  BY <1>1 DEF OneWay, ChannelsOrdered
<1>3. CASE ~ClientHashable
  <2>1. home' = [home EXCEPT ![c] = Nowhere] /\ UNCHANGED <<clients, topics, boxVars, pumpVars>>
    BY <1>3 DEF Register
  <2>2. UNCHANGED <<clients, topics, outbox, dropped, lost, pump, sending, shown, gaps>>
    BY <2>1 DEF boxVars, pumpVars
  <2>3. TypeOK'
    BY <1>1, <2>1, <2>2 DEF TypeOK
  <2>4. OneHome'
    BY <1>1, <2>1, <2>2 DEF OneHome, Registered, TypeOK
  <2>5. ChannelsAhead' /\ PathOrdered' /\ LossOlder' /\ LossCounted'
    BY <1>1, <2>2 DEF ChannelsAhead, AllBefore, PathOrdered, LossOlder, LossCounted, Registered
  <2> QED
    BY <1>2, <2>3, <2>4, <2>5
<1>4. CASE ClientHashable
  <2>1. /\ clients' = [clients EXCEPT ![home[c]] = @ \cup {c}]
        /\ topics' = [topics EXCEPT ![c] = PublicTopics]
        /\ outbox' = [outbox EXCEPT ![c] = <<>>]
        /\ dropped' = [dropped EXCEPT ![c] = 0]
        /\ lost' = [lost EXCEPT ![c] = 0]
        /\ pump' = [pump EXCEPT ![c] = "idle"]
        /\ shown' = [shown EXCEPT ![c] = 0]
        /\ gaps' = [gaps EXCEPT ![c] = 0]
        /\ UNCHANGED <<home, sending>>
    BY <1>4 DEF Register
  <2>2. /\ outbox'[c] = <<>> /\ Len(outbox'[c]) = 0 /\ <<>> \in Seq(Events)
        /\ shown'[c] = 0 /\ sending'[c] = 0 /\ lost'[c] = 0 /\ dropped'[c] = 0 /\ pump'[c] = "idle"
    BY <1>1, <2>1, EmptySeq DEF TypeOK, OneHome
  <2>3. ASSUME NEW d \in Clients \ {c}
        PROVE  /\ outbox'[d] = outbox[d] /\ shown'[d] = shown[d] /\ sending'[d] = sending[d]
               /\ lost'[d] = lost[d] /\ dropped'[d] = dropped[d] /\ pump'[d] = pump[d]
               /\ gaps'[d] = gaps[d]
               /\ \A p \in Processes : d \in clients'[p] <=> d \in clients[p]
    BY <1>1, <2>1 DEF TypeOK
  <2>4. TypeOK'
    <3>1. outbox' \in [Clients -> Seq(Events)] /\ \A d \in Clients : Len(outbox'[d]) <= OutboxLimit
      BY <2>1, <2>2, <2>3, HubAssumption DEF TypeOK
    <3>2. topics' \in [Clients -> SUBSET Topics] /\ clients' \in [Processes -> SUBSET Clients]
      BY <1>1, <2>1, HubAssumption DEF TypeOK
    <3>3. /\ dropped' \in [Clients -> Nat] /\ lost' \in [Clients -> 0..MaxEvents]
          /\ shown' \in [Clients -> 0..MaxEvents] /\ gaps' \in [Clients -> 0..MaxEvents]
          /\ pump' \in [Clients -> {"none", "idle", "sending", "gap"}]
      BY <2>1, HubAssumption DEF TypeOK
    <3> QED
      BY <1>1, <2>1, <3>1, <3>2, <3>3 DEF TypeOK
  <2>5. OneHome'
    <3>1. \A p \in Processes : c \in clients'[p] => home'[c] = p
      BY <1>1, <2>1 DEF TypeOK, Registered
    <3>2. c \in clients'[home[c]]
      BY <1>1, <2>1 DEF TypeOK
    <3> QED
      BY <1>1, <2>1, <2>2, <2>3, <3>1, <3>2 DEF OneHome, Registered
  <2>6. ChannelsAhead'
    <3>1. ASSUME NEW d \in Clients, NEW n \in Nat \ {0}, d # c => AllBefore(d, n)
          PROVE  AllBefore(d, n)'
      BY <2>2, <2>3, <3>1 DEF AllBefore
    <3>2. ASSUME NEW d \in Clients, NEW p \in Processes, d \in clients'[p]
          PROVE  /\ AllBefore(d, published + 1)'
                 /\ \A i \in 1..Len(channel'[p]) : AllBefore(d, channel[p][i][1])'
      <4>1. d # c => d \in clients[p]
        BY <2>3, <3>2
      <4>2. PICK m \in Nat \ {0} : m = published + 1
        BY EntriesAreEvents
      <4>3. AllBefore(d, published + 1)'
        BY <1>1, <3>1, <4>1, <4>2 DEF ChannelsAhead, AllBefore
      <4>4. ASSUME NEW i \in 1..Len(channel'[p])
            PROVE  AllBefore(d, channel[p][i][1])'
        <5>1. channel[p][i] \in Events \X Topics
          BY <1>1, EntriesAreEvents
        <5>2. PICK k \in Nat \ {0} : k = channel[p][i][1]
          BY <5>1, HubAssumption DEF Events
        <5>3. d # c => AllBefore(d, k)
          BY <1>1, <4>1, <5>2 DEF ChannelsAhead
        <5> QED
          BY <1>1, <3>1, <5>2, <5>3 DEF AllBefore
      <4> QED
        BY <4>3, <4>4
    <3> QED
      BY <3>2 DEF ChannelsAhead
  <2>7. PathOrdered' /\ LossOlder' /\ LossCounted'
    <3>1. ASSUME NEW d \in Clients \ {c} PROVE Registered(d)' = Registered(d)
      BY <2>3 DEF Registered
    <3> QED
      BY <2>2, <2>3, <3>1 DEF PathOrdered, LossOlder, LossCounted
  <2> QED
    BY <1>2, <2>4, <2>5, <2>6, <2>7
<1> QED
  BY <1>3, <1>4

\* A socket that is gone is known to nobody, so nothing is left to keep of it.
LEMMA GoneKeeps ==
  ASSUME IInv, NEW c \in Clients, Registered(c), Gone(c)
  PROVE  IInv'
<1> USE DEF IInv
<1>1. /\ UNCHANGED <<redisUp, outages, mode, listener, channel, published, owed, topics, outbox,
                    dropped, lost, shown, gaps>>
      /\ home' = [home EXCEPT ![c] = Nowhere]
      /\ clients' = [clients EXCEPT ![home[c]] = @ \ {c}]
      /\ pump' = [pump EXCEPT ![c] = "none"]
      /\ sending' = [sending EXCEPT ![c] = 0]
  BY DEF Gone, serverVars, procVars, eventVars, boxVars
<1>2. \A p \in Processes : c \in clients[p] <=> p = home[c]
  BY DEF OneHome, Registered
<1>3. \A d \in Clients, p \in Processes : d \in clients'[p] <=> d # c /\ d \in clients[p]
  BY <1>1, <1>2 DEF TypeOK
<1>4. ~Registered(c)' /\ \A d \in Clients \ {c} : Registered(d)' = Registered(d)
  BY <1>3 DEF Registered
<1>5. TypeOK'
  <2>1. clients' \in [Processes -> SUBSET Clients]
    BY <1>1 DEF TypeOK
  <2> QED
    BY <1>1, <2>1, HubAssumption DEF TypeOK
<1>6. OneHome'
  BY <1>1, <1>3, <1>4 DEF OneHome, TypeOK
<1>7. OneWay' /\ ChannelsOrdered'
  BY <1>1 DEF OneWay, ChannelsOrdered
<1>8. ChannelsAhead'
  BY <1>1, <1>3 DEF ChannelsAhead, AllBefore, TypeOK
<1>9. PathOrdered' /\ LossOlder' /\ LossCounted'
  BY <1>1, <1>4 DEF PathOrdered, LossOlder, LossCounted, TypeOK
<1> QED
  BY <1>5, <1>6, <1>7, <1>8, <1>9

LEMMA StopKeeps ==
  ASSUME IInv, NEW p \in Processes, StopHub(p)
  PROVE  IInv'
<1> USE DEF IInv
<1>1. /\ UNCHANGED <<redisUp, outages, published, topics, outbox, dropped, lost, shown, gaps>>
      /\ mode' = [mode EXCEPT ![p] = "down"]
      /\ listener' = [listener EXCEPT ![p] = "none"]
      /\ channel' = [channel EXCEPT ![p] = <<>>]
      /\ home' = [c \in Clients |-> IF home[c] = p THEN Nowhere ELSE home[c]]
      /\ clients' = [clients EXCEPT ![p] = {}]
      /\ pump' = [c \in Clients |-> IF home[c] = p THEN "none" ELSE pump[c]]
      /\ sending' = [c \in Clients |-> IF home[c] = p THEN 0 ELSE sending[c]]
      /\ owed' = [e \in Events |-> owed[e] \ {p}]
  BY DEF StopHub, serverVars, boxVars
<1>2. \A c \in Clients, q \in Processes : c \in clients'[q] <=> q # p /\ c \in clients[q]
  BY <1>1 DEF TypeOK
<1>3. \A c \in Clients : Registered(c)' <=> Registered(c) /\ home[c] # p
  BY <1>2 DEF Registered, OneHome
<1>4. \A q \in Processes : channel'[q] = (IF q = p THEN <<>> ELSE channel[q])
  BY <1>1 DEF TypeOK
<1>5. TypeOK'
  <2>1. channel' \in [Processes -> Seq(Events \X Topics)]
    BY <1>1, EmptySeq DEF TypeOK
  <2>2. owed' \in [Events -> SUBSET Processes] /\ clients' \in [Processes -> SUBSET Clients]
    BY <1>1 DEF TypeOK
  <2>3. /\ mode' \in [Processes -> {"down", "single", "redis"}]
        /\ listener' \in [Processes -> {"none", "starting", "listening", "cut", "dead"}]
        /\ home' \in [Clients -> Processes \cup {Nowhere}]
        /\ pump' \in [Clients -> {"none", "idle", "sending", "gap"}]
        /\ sending' \in [Clients -> 0..MaxEvents]
    BY <1>1, HubAssumption DEF TypeOK
  <2> QED
    BY <1>1, <2>1, <2>2, <2>3 DEF TypeOK
<1>6. OneHome'
  BY <1>1, <1>2, <1>3 DEF OneHome, Registered
<1>7. OneWay'
  BY <1>1, <1>4 DEF OneWay, TypeOK
<1>8. ChannelsOrdered'
  BY <1>1, <1>4 DEF ChannelsOrdered
<1>9. ChannelsAhead'
  BY <1>1, <1>2, <1>4 DEF ChannelsAhead, AllBefore, OneHome
<1>10. PathOrdered' /\ LossOlder' /\ LossCounted'
  BY <1>1, <1>3 DEF PathOrdered, LossOlder, LossCounted
<1> QED
  BY <1>5, <1>6, <1>7, <1>8, <1>9, <1>10

\* A step of the pump of c moves nothing of another socket.
LEMMA OtherSocketsKeep ==
  ASSUME IInv, NEW c \in Clients, UNCHANGED <<serverVars, procVars, eventVars, sockVars>>,
         \A d \in Clients \ {c} :
           /\ outbox'[d] = outbox[d] /\ dropped'[d] = dropped[d] /\ lost'[d] = lost[d]
           /\ pump'[d] = pump[d] /\ sending'[d] = sending[d] /\ shown'[d] = shown[d]
           /\ gaps'[d] = gaps[d],
         TypeOK', SocketOK(c)', pump'[c] # "none" => Registered(c),
         sending'[c] # 0 <=> pump'[c] = "sending",
         \A n \in Nat \ {0} : AllBefore(c, n) => AllBefore(c, n)'
  PROVE  IInv'
<1> USE DEF IInv
<1>1. UNCHANGED <<redisUp, outages, mode, listener, channel, published, owed, home, clients, topics>>
  BY DEF serverVars, procVars, eventVars, sockVars
<1>2. OneWay' /\ ChannelsOrdered'
  BY <1>1 DEF OneWay, ChannelsOrdered
<1>3. OneHome'
  BY <1>1 DEF OneHome, Registered
<1>4. ChannelsAhead'
  <2>1. ASSUME NEW d \in Clients, NEW n \in Nat \ {0}, AllBefore(d, n)
        PROVE  AllBefore(d, n)'
    BY <2>1 DEF AllBefore
  <2>2. ASSUME NEW d \in Clients, NEW p \in Processes, d \in clients'[p]
        PROVE  /\ AllBefore(d, published + 1)'
               /\ \A i \in 1..Len(channel'[p]) : AllBefore(d, channel[p][i][1])'
    <3>1. d \in clients[p]
      BY <1>1, <2>2
    <3>2. PICK n \in Nat \ {0} : n = published + 1
      BY EntriesAreEvents
    <3>3. AllBefore(d, published + 1)'
      BY <1>1, <2>1, <3>1, <3>2 DEF ChannelsAhead, AllBefore
    <3>4. ASSUME NEW i \in 1..Len(channel'[p])
          PROVE  AllBefore(d, channel[p][i][1])'
      <4>1. channel[p][i] \in Events \X Topics
        BY <1>1, EntriesAreEvents
      <4>2. PICK m \in Nat \ {0} : m = channel[p][i][1]
        BY <4>1, HubAssumption DEF Events
      <4>3. AllBefore(d, m)
        BY <1>1, <3>1, <4>2 DEF ChannelsAhead
      <4> QED
        BY <1>1, <2>1, <4>2, <4>3 DEF AllBefore
    <3> QED
      BY <3>3, <3>4
  <2> QED
    BY <2>2 DEF ChannelsAhead
<1>5. \A d \in Clients : SocketOK(d)'
  <2>1. ASSUME NEW d \in Clients \ {c} PROVE SocketOK(d)'
    BY <1>1, <2>1, SocketOKIsAll DEF SocketOK, Registered
  <2> QED
    BY <2>1
<1>6. PathOrdered' /\ LossOlder' /\ LossCounted'
  BY <1>5 DEF SocketOK, PathOrdered, LossOlder, LossCounted
<1> QED
  BY <1>2, <1>3, <1>4, <1>6

LEMMA PumpKeeps ==
  ASSUME IInv, NEW c \in Clients, PumpTakes(c) \/ PumpWrote(c) \/ PumpGapDone(c)
  PROVE  IInv'
<1> DEFINE q == outbox[c]
<1>1. /\ UNCHANGED <<serverVars, procVars, eventVars, sockVars, lost>>
      /\ UNCHANGED <<redisUp, outages, mode, listener, channel, published, owed, home, clients, topics>>
      /\ Registered(c)' = Registered(c) /\ Registered(c)
  BY DEF IInv, OneHome, PumpTakes, PumpWrote, PumpGapDone, serverVars, procVars, eventVars,
         sockVars, boxVars, Registered
<1>2. /\ q \in Seq(Events) /\ Len(q) \in Nat /\ Len(q) <= OutboxLimit
      /\ \A i \in 1..Len(q) : q[i] \in Nat \ {0}
      /\ shown[c] \in Nat /\ sending[c] \in Nat /\ lost[c] \in Nat /\ gaps[c] \in Nat /\ dropped[c] \in Nat
      /\ pump[c] \in {"none", "idle", "sending", "gap"} /\ SocketOK(c)
  BY EntriesAreEvents, SocketOKIsAll, ElementOfSeq, HubAssumption DEF IInv, TypeOK, Events
<1>3. CASE PumpTakes(c)
  <2>1. /\ pump[c] = "idle" /\ q # <<>>
        /\ sending' = [sending EXCEPT ![c] = Head(q)]
        /\ outbox' = [outbox EXCEPT ![c] = Tail(@)]
        /\ pump' = [pump EXCEPT ![c] = "sending"]
        /\ UNCHANGED <<dropped, lost, shown, gaps>>
    BY <1>3 DEF PumpTakes
  <2>2. /\ Head(q) = q[1] /\ Head(q) \in Events /\ Tail(q) \in Seq(Events) /\ Len(q) \in Nat \ {0}
        /\ Len(Tail(q)) = Len(q) - 1 /\ \A i \in 1..Len(Tail(q)) : Tail(q)[i] = q[i + 1]
    BY <1>2, <2>1, HeadTailProperties, EmptySeq
  <2>3. /\ sending'[c] = q[1] /\ outbox'[c] = Tail(q) /\ pump'[c] = "sending" /\ q[1] # 0
        /\ sending[c] = 0 /\ 1 \in 1..Len(q)
    BY <1>2, <2>1, <2>2 DEF IInv, TypeOK, OneHome
  <2>4. TypeOK'
    <3>1. outbox' \in [Clients -> Seq(Events)] /\ \A d \in Clients : Len(outbox'[d]) <= OutboxLimit
      BY <1>2, <2>1, <2>2, HubAssumption DEF IInv, TypeOK
    <3>2. sending' \in [Clients -> 0..MaxEvents] /\ pump' \in [Clients -> {"none", "idle", "sending", "gap"}]
      BY <2>1, <2>2 DEF IInv, TypeOK, Events
    <3> QED
      BY <1>1, <2>1, <3>1, <3>2 DEF IInv, TypeOK
  <2>5. SocketOK(c)'
    <3> DEFINE r == outbox'[c]
    <3>1. /\ r \in Seq(Events) /\ Len(r) = Len(q) - 1 /\ Len(r) <= OutboxLimit
          /\ \A i \in 1..Len(r) : i + 1 \in 1..Len(q) /\ r[i] = q[i + 1]
      BY <1>2, <2>2, <2>3, HubAssumption
    <3>2. /\ dropped'[c] = dropped[c] /\ lost'[c] = lost[c] /\ lost[c] \in 0..MaxEvents
          /\ shown'[c] = shown[c] /\ gaps'[c] = gaps[c]
      BY <1>2, <2>1 DEF SocketOK
    <3>3. /\ \A i \in 1..Len(q) : shown[c] < q[i]
          /\ \A i, j \in 1..Len(q) : i < j => q[i] < q[j]
      BY <1>1, <1>2 DEF SocketOK
    <3>4. /\ lost[c] > 0 => /\ \A i \in 1..Len(q) : lost[c] < q[i]
                            /\ dropped[c] > 0 \/ gaps[c] > 0
          /\ dropped[c] > 0 => lost[c] > 0
      BY <1>1, <1>2 DEF SocketOK
    <3> HIDE DEF q, r
    <3>5. shown[c] < sending'[c] /\ \A i \in 1..Len(r) : shown[c] < r[i] /\ sending'[c] < r[i]
      BY <1>2, <2>2, <2>3, <3>1, <3>3
    <3>6. \A i, j \in 1..Len(r) : i < j => r[i] < r[j]
      BY <2>2, <3>1, <3>3
    <3>7. lost[c] > 0 => lost[c] < sending'[c] /\ \A i \in 1..Len(r) : lost[c] < r[i]
      BY <2>3, <3>1, <3>4
    <3> QED
      BY <1>2, <2>3, <3>1, <3>2, <3>4, <3>5, <3>6, <3>7 DEF SocketOK, r
  <2>6. \A n \in Nat \ {0} : AllBefore(c, n) => AllBefore(c, n)'
    BY <2>1, <2>2, <2>3 DEF AllBefore
  <2> QED
    BY <1>1, <2>1, <2>3, <2>4, <2>5, <2>6, OtherSocketsKeep DEF IInv, TypeOK
<1>4. CASE PumpWrote(c)
  <2>1. /\ pump[c] = "sending"
        /\ shown' = [shown EXCEPT ![c] = sending[c]]
        /\ sending' = [sending EXCEPT ![c] = 0]
        /\ pump' = [pump EXCEPT ![c] = IF dropped[c] > 0 /\ q = <<>> THEN "gap" ELSE "idle"]
        /\ gaps' = [gaps EXCEPT ![c] = IF dropped[c] > 0 /\ q = <<>> THEN lost[c] ELSE @]
        /\ UNCHANGED <<outbox, dropped, lost>>
    BY <1>4 DEF PumpWrote, boxVars
  <2>2. /\ shown'[c] = sending[c] /\ sending'[c] = 0 /\ sending[c] # 0 /\ pump'[c] \in {"gap", "idle"}
        /\ pump'[c] = "gap" => gaps'[c] = lost[c] /\ dropped[c] > 0
        /\ gaps'[c] \in {lost[c], gaps[c]} /\ (gaps'[c] # gaps[c] => gaps'[c] = lost[c] /\ dropped[c] > 0)
        /\ outbox'[c] = q /\ dropped'[c] = dropped[c] /\ lost'[c] = lost[c]
    BY <2>1 DEF IInv, TypeOK, OneHome
  <2>3. TypeOK'
    <3>1. /\ shown' \in [Clients -> 0..MaxEvents] /\ sending' \in [Clients -> 0..MaxEvents]
          /\ pump' \in [Clients -> {"none", "idle", "sending", "gap"}]
          /\ gaps' \in [Clients -> 0..MaxEvents]
      BY <2>1, HubAssumption DEF IInv, TypeOK
    <3> QED
      BY <1>1, <2>1, <3>1 DEF IInv, TypeOK
  <2>4. SocketOK(c)'
    BY <1>1, <1>2, <2>2 DEF SocketOK
  <2>5. \A n \in Nat \ {0} : AllBefore(c, n) => AllBefore(c, n)'
    BY <1>2, <2>2 DEF AllBefore
  <2> QED
    BY <1>1, <2>1, <2>2, <2>3, <2>4, <2>5, OtherSocketsKeep DEF IInv, TypeOK
<1>5. CASE PumpGapDone(c)
  <2>1. /\ pump[c] = "gap"
        /\ dropped' = [dropped EXCEPT ![c] = 0]
        /\ pump' = [pump EXCEPT ![c] = "idle"]
        /\ UNCHANGED <<outbox, lost, sending, shown, gaps>>
    BY <1>5 DEF PumpGapDone
  <2>2. /\ dropped'[c] = 0 /\ pump'[c] = "idle" /\ gaps[c] > 0 /\ sending[c] = 0
    BY <1>1, <1>2, <2>1 DEF IInv, TypeOK, OneHome, SocketOK
  <2>3. TypeOK'
    BY <1>1, <2>1 DEF IInv, TypeOK
  <2>4. SocketOK(c)'
    BY <1>1, <1>2, <2>1, <2>2 DEF SocketOK
  <2>5. \A n \in Nat \ {0} : AllBefore(c, n) => AllBefore(c, n)'
    BY <2>1 DEF AllBefore
  <2> QED
    BY <1>1, <2>1, <2>2, <2>3, <2>4, <2>5, OtherSocketsKeep DEF IInv, TypeOK
<1> QED
  BY <1>3, <1>4, <1>5

LEMMA NextIInv == IInv /\ [Next]_vars => IInv'
<1> SUFFICES ASSUME IInv, [Next]_vars PROVE IInv'
  OBVIOUS
<1>1. ASSUME NEW p \in Processes, NEW c \in Clients, Accept(c, p)
      PROVE  IInv'
  BY <1>1, TopicsKeep
<1>2. ASSUME NEW c \in Clients, NEW t \in Topics, Subscribe(c, t) \/ Unsubscribe(c, t)
      PROVE  IInv'
  BY <1>2, TopicsKeep
<1>3. ASSUME NEW c \in Clients, EndpointEnds(c) \/ PumpFails(c)
      PROVE  IInv'
  <2>1. Registered(c)
    BY <1>3 DEF IInv, OneHome, EndpointEnds, PumpFails
  <2> QED
    BY <1>3, <2>1, GoneKeeps DEF EndpointEnds, PumpFails
<1>4. CASE UNCHANGED vars
  <2>1. UNCHANGED <<redisUp, outages, mode, listener, channel, published, owed, home, clients,
                    topics, outbox, dropped, lost, pump, sending, shown, gaps>>
    BY <1>4 DEF vars, serverVars, procVars, eventVars, sockVars, boxVars, pumpVars
  <2>2. TypeOK' /\ OneWay'
    BY <2>1 DEF IInv, TypeOK, OneWay
  <2> QED
    BY <2>1, <2>2, QueuesUntouched DEF IInv, boxVars, pumpVars
<1> QED
  BY <1>1, <1>2, <1>3, <1>4, RedisKeeps, LifecycleKeeps, PublishKeeps, ListenKeeps, RegisterKeeps,
     StopKeeps, PumpKeeps DEF Next

LEMMA Invariance == Spec => []IInv
BY InitIInv, NextIInv, PTL DEF Spec

-----------------------------------------------------------------------------
(* The path of a socket *)

\* What was shown, what is being written if anything is, and what waits, by number.
Leading(c) == IF sending[c] = 0 THEN 1 ELSE 2

LEMMA PathEntries ==
  ASSUME TypeOK, NEW c \in Clients
  PROVE  /\ DOMAIN Path(c) = 1..Leading(c) + Len(outbox[c])
         /\ Len(Path(c)) = Leading(c) + Len(outbox[c])
         /\ Path(c)[1] = shown[c]
         /\ Leading(c) = 2 => Path(c)[2] = sending[c]
         /\ \A i \in 1..Len(outbox[c]) : Path(c)[Leading(c) + i] = outbox[c][i]
<1> DEFINE mid == IF sending[c] = 0 THEN <<>> ELSE <<sending[c]>>
           head == <<shown[c]>> \o mid
           q == outbox[c]
<1>1. shown[c] \in Nat /\ sending[c] \in Nat /\ outbox[c] \in Seq(Nat) /\ Len(outbox[c]) \in Nat
  <2>1. outbox[c] \in Seq(Events) /\ Events \subseteq Nat
    BY HubAssumption DEF TypeOK, Events
  <2> QED
    BY <2>1, EntriesAreEvents, SeqMonotonic
<1>2. /\ head \in Seq(Nat) /\ Len(head) = Leading(c) /\ Leading(c) \in 1..2
      /\ head[1] = shown[c]
      /\ Leading(c) = 2 => head[2] = sending[c]
  BY <1>1 DEF Leading
<1>3. Path(c) = head \o q
  BY DEF Path
<1> HIDE DEF head, q
<1>4. /\ head \o q \in Seq(Nat) /\ Len(head \o q) = Len(head) + Len(q)
      /\ \A i \in 1..Len(head) + Len(q) :
           (head \o q)[i] = IF i <= Len(head) THEN head[i] ELSE q[i - Len(head)]
  BY <1>1, <1>2, ConcatProperties DEF q
<1>5. Path(c) \in Seq(Nat) /\ Len(Path(c)) = Leading(c) + Len(q)
  BY <1>2, <1>3, <1>4
<1>6. DOMAIN Path(c) = 1..Leading(c) + Len(q)
  BY <1>5, LenProperties
<1>7. /\ Path(c)[1] = shown[c]
      /\ Leading(c) = 2 => Path(c)[2] = sending[c]
  BY <1>1, <1>2, <1>3, <1>4 DEF q
<1>8. ASSUME NEW i \in 1..Len(q) PROVE Path(c)[Leading(c) + i] = q[i]
  <2>1. Leading(c) + i \in 1..Len(head) + Len(q) /\ ~(Leading(c) + i <= Len(head))
    BY <1>1, <1>2 DEF q
  <2>2. (Leading(c) + i) - Len(head) = i
    BY <1>1, <1>2 DEF q
  <2> QED
    BY <1>3, <1>4, <2>1, <2>2
<1> QED
  BY <1>5, <1>6, <1>7, <1>8 DEF q

-----------------------------------------------------------------------------
(* Theorems *)

\* The variables of the hub keep their types.
THEOREM TypeCorrect == Spec => []TypeOK
<1>1. IInv => TypeOK
  BY DEF IInv
<1> QED
  BY <1>1, Invariance, PTL

\* hub.py, publish, _fanout and _pump: a dashboard receives events in publication
\* order and none twice, through every process, restart and reconnection.
THEOREM EventsInOrder == Spec => []InOrderOnce
<1>1. IInv => InOrderOnce
  <2> SUFFICES ASSUME IInv, NEW c \in Clients, Registered(c),
                      NEW i \in DOMAIN Path(c), NEW j \in DOMAIN Path(c), i < j
               PROVE  Path(c)[i] < Path(c)[j]
    BY DEF InOrderOnce
  <2> DEFINE q == outbox[c]
             k == Leading(c)
  <2>1. /\ i \in 1..k + Len(q) /\ j \in 1..k + Len(q) /\ Path(c)[1] = shown[c]
        /\ k = 2 => Path(c)[2] = sending[c]
        /\ \A n \in 1..Len(q) : Path(c)[k + n] = q[n]
    BY PathEntries DEF IInv
  <2>2. /\ Len(q) \in Nat /\ shown[c] \in Nat /\ sending[c] \in Nat
        /\ sending[c] # 0 => shown[c] < sending[c]
        /\ \A n \in 1..Len(q) : shown[c] < q[n] /\ sending[c] < q[n]
        /\ \A m, n \in 1..Len(q) : m < n => q[m] < q[n]
    BY EntriesAreEvents DEF IInv, PathOrdered
  <2>3. k \in 1..2 /\ (k = 2 => sending[c] # 0)
    BY DEF Leading
  <2> HIDE DEF q, k
  <2>4. CASE j <= k
    BY <2>1, <2>2, <2>3, <2>4
  <2>5. CASE j > k
    <3>1. PICK n \in 1..Len(q) : j = k + n
      <4>1. j - k \in 1..Len(q) /\ j = k + (j - k)
        BY <2>1, <2>2, <2>3, <2>5
      <4> QED
        BY <4>1
    <3>2. CASE i <= k
      BY <2>1, <2>2, <2>3, <3>1, <3>2
    <3>3. CASE i > k
      <4>1. PICK m \in 1..Len(q) : i = k + m
        <5>1. i - k \in 1..Len(q) /\ i = k + (i - k)
          BY <2>1, <2>2, <2>3, <3>3
        <5> QED
          BY <5>1
      <4>2. m < n
        BY <2>2, <2>3, <3>1, <4>1
      <4> QED
        BY <2>1, <2>2, <3>1, <4>1, <4>2
    <3> QED
      BY <2>1, <2>2, <2>3, <3>2, <3>3
  <2> QED
    BY <2>1, <2>2, <2>3, <2>4, <2>5
<1> QED
  BY <1>1, Invariance, PTL

\* hub.py, _fanout and _pump: what a full outbox discards is older than all that is
\* still to come, and it is announced or counted for an announcement.
THEOREM LossesAnnounced == Spec => []LossAnnounced
<1>1. IInv => LossAnnounced
  <2> SUFFICES ASSUME IInv, NEW c \in Clients, Registered(c), lost[c] > 0
               PROVE  /\ \A f \in SeqRange(outbox[c]) : lost[c] < f
                      /\ lost[c] < Path(c)[Len(Path(c))]
                      /\ dropped[c] > 0 \/ gaps[c] > 0
    BY DEF LossAnnounced
  <2> DEFINE q == outbox[c]
  <2>1. /\ q \in Seq(Events) /\ Len(q) \in Nat /\ DOMAIN q = 1..Len(q)
    BY LenProperties DEF IInv, TypeOK
  <2>2. /\ \A i \in 1..Len(q) : lost[c] < q[i]
        /\ q = <<>> => lost[c] < (IF sending[c] # 0 THEN sending[c] ELSE shown[c])
    BY DEF IInv, LossOlder
  <2>3. lost[c] < Path(c)[Len(Path(c))]
    <3>1. /\ Len(Path(c)) = Leading(c) + Len(q) /\ Path(c)[1] = shown[c]
          /\ Leading(c) = 2 => Path(c)[2] = sending[c]
          /\ \A n \in 1..Len(q) : Path(c)[Leading(c) + n] = q[n]
      BY PathEntries DEF IInv
    <3>2. CASE q = <<>>
      <4>1. Len(Path(c)) = Leading(c)
        BY <3>1, <3>2 DEF Leading
      <4> QED
        BY <2>2, <3>1, <3>2, <4>1 DEF Leading
    <3>3. CASE q # <<>>
      <4>1. Len(q) \in 1..Len(q)
        BY <2>1, <3>3, EmptySeq
      <4> QED
        BY <2>2, <3>1, <4>1
    <3> QED
      BY <3>2, <3>3
  <2> QED
    BY <2>1, <2>2, <2>3 DEF IInv, LossCounted, SeqRange
<1> QED
  BY <1>1, Invariance, PTL
================================================================================
