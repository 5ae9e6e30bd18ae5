------------------------------ MODULE LiveClient ------------------------------
(***************************************************************************)
(* The live feed of one dashboard, frontend/standalone/src/live.js, with a *)
(* backend attached: the socket and its reconnection, the frames applied   *)
(* to the screen, the refetch after a gap, and the generator of boot.js    *)
(* that ticks once a second whatever is attached.                          *)
(*                                                                         *)
(* Assessments of a hazard and shelter reports are numbered in the order   *)
(* the backend commits them.  A score on the screen is the pair of the     *)
(* hazard it was computed for and its number; number 0 is a figure of the  *)
(* generator.                                                              *)
(***************************************************************************)
EXTENDS Naturals, Sequences

CONSTANTS
  Hazards,
  Granted,       \* operational topics the server grants this socket: {} or {"risk"}
  MaxComputes,   \* bound: assessments per hazard
  MaxReports,    \* bound: shelter reports
  Ceiling        \* attempts that mean offline: 7 in the code.  The count stops
                 \* there: beyond it the state and the backoff stay the same

ASSUME LiveClientAssumption ==
  /\ Hazards # {}
  /\ Granted \subseteq {"risk"}
  /\ MaxComputes \in Nat /\ MaxReports \in Nat
  /\ Ceiling \in Nat /\ Ceiling > 0

VARIABLES
  truth,      \* truth[h]: assessments of h committed by the backend
  shelter,    \* shelter reports committed by the backend
  sock,       \* "waiting" (retry timer armed), "opening", "accepted", "open"
  subscribed, \* the server has processed the subscribe: message
  stream,     \* frames the server queued for the socket
  state,      \* LIVE.state
  attempts,   \* LIVE.attempts
  received,   \* LIVE.received > 0
  hazard,     \* S.hazard
  cells,      \* cells[h]: the score shown for h
  shown,      \* the shelter report shown
  fetches,    \* liveResync calls waiting for their response
  lossy       \* history: frames were lost and no refetch was begun since

serverVars == <<truth, shelter>>
sockVars == <<sock, subscribed, stream, attempts>>
screenVars == <<hazard, cells, shown>>
vars == <<serverVars, sockVars, state, received, screenVars, fetches, lossy>>

Gap == <<"gap">>

\* A fetch begun for a hazard; version is read when the server answers.
Asked(h) == [asked |-> h, answered |-> FALSE, version |-> 0]

CapAttempts(n) == IF n > Ceiling THEN Ceiling ELSE n

Init ==
  /\ truth = [h \in Hazards |-> 0]
  /\ shelter = 0
  /\ sock = "opening"
  /\ subscribed = FALSE
  /\ stream = <<>>
  /\ state = "connecting"
  /\ attempts = 0
  /\ received = FALSE
  /\ hazard \in Hazards
  /\ cells = [h \in Hazards |-> <<h, 0>>]
  /\ shown = 0
  /\ fetches = {}
  /\ lossy = FALSE

-----------------------------------------------------------------------------
(* The backend *)

\* An analysis is committed and published on the risk topic.
Recompute(h) ==
  /\ truth[h] < MaxComputes
  /\ truth' = [truth EXCEPT ![h] = @ + 1]
  /\ stream' = IF subscribed /\ "risk" \in Granted
                 THEN Append(stream, <<"risk", h, truth[h] + 1>>) ELSE stream
  /\ UNCHANGED <<shelter, sock, subscribed, attempts, state, received,
                 screenVars, fetches, lossy>>

\* A shelter report is published on a public topic: no subscription needed.
ShelterReport ==
  /\ shelter < MaxReports
  /\ shelter' = shelter + 1
  /\ stream' = IF sock \in {"accepted", "open"}
                 THEN Append(stream, <<"shelter", shelter + 1>>) ELSE stream
  /\ UNCHANGED <<truth, sock, subscribed, attempts, state, received,
                 screenVars, fetches, lossy>>

\* The socket's outbox overflows: the oldest frame is discarded and a gap
\* notice follows what is left.
FallBehind ==
  /\ stream # <<>>
  /\ \A i \in DOMAIN stream : stream[i] # Gap
  /\ stream' = Append(Tail(stream), Gap)
  /\ lossy' = TRUE
  /\ UNCHANGED <<serverVars, sock, subscribed, attempts, state, received,
                 screenVars, fetches>>

ServerAccepts ==
  /\ sock = "opening"
  /\ sock' = "accepted"
  /\ UNCHANGED <<serverVars, subscribed, stream, attempts, state, received,
                 screenVars, fetches, lossy>>

ServerSubscribes ==
  /\ sock = "open"
  /\ ~subscribed
  /\ subscribed' = TRUE
  /\ UNCHANGED <<serverVars, sock, stream, attempts, state, received,
                 screenVars, fetches, lossy>>

-----------------------------------------------------------------------------
(* The socket *)

\* Mutation: an offline dashboard stops trying.
DialUnlessOffline ==
  /\ sock = "waiting"
  /\ state # "offline"
  /\ sock' = "opening"
  /\ UNCHANGED <<serverVars, subscribed, stream, attempts, state, received,
                 screenVars, fetches, lossy>>

\* The retry timer calls liveConnect.
Dial ==
  /\ sock = "waiting"
  /\ sock' = "opening"
  /\ UNCHANGED <<serverVars, subscribed, stream, attempts, state, received,
                 screenVars, fetches, lossy>>

\* Mutation: a reopened socket resumes where it was.
OpensAndResumes ==
  /\ sock = "accepted"
  /\ sock' = "open"
  /\ attempts' = 0
  /\ state' = "live"
  /\ UNCHANGED <<serverVars, subscribed, stream, received, screenVars, fetches, lossy>>

\* onopen
Opens ==
  /\ sock = "accepted"
  /\ sock' = "open"
  /\ attempts' = 0
  /\ state' = "live"
  /\ fetches' = IF received THEN fetches \cup {Asked(hazard)} ELSE fetches
  /\ lossy' = (lossy /\ ~received)
  /\ UNCHANGED <<serverVars, subscribed, stream, received, screenVars>>

\* Mutation: the state is left to the next attempt.
ClosesQuietly ==
  /\ sock # "waiting"
  /\ sock' = "waiting"
  /\ subscribed' = FALSE
  /\ stream' = <<>>
  /\ attempts' = CapAttempts(attempts + 1)
  /\ lossy' = received
  /\ UNCHANGED <<serverVars, state, received, screenVars, fetches>>

\* onclose: liveScheduleReconnect arms the timer.  More than six attempts in
\* a row mean offline.
Closes ==
  /\ sock # "waiting"
  /\ sock' = "waiting"
  /\ subscribed' = FALSE
  /\ stream' = <<>>
  /\ attempts' = CapAttempts(attempts + 1)
  /\ state' = IF attempts + 1 >= Ceiling THEN "offline" ELSE "reconnecting"
  /\ lossy' = received
  /\ UNCHANGED <<serverVars, received, screenVars, fetches>>

-----------------------------------------------------------------------------
(* The screen *)

\* onmessage and liveApply of the next frame.
Receive ==
  /\ sock = "open"
  /\ stream # <<>>
  /\ stream' = Tail(stream)
  /\ received' = TRUE
  /\ state' = "live"
  /\ LET f == Head(stream) IN
       \/ /\ f[1] = "risk"
          /\ cells' = [cells EXCEPT ![f[2]] = <<f[2], f[3]>>]
          /\ UNCHANGED <<shown, fetches, lossy>>
       \/ /\ f[1] = "shelter"
          /\ shown' = f[2]
          /\ UNCHANGED <<cells, fetches, lossy>>
       \/ /\ f = Gap
          /\ fetches' = fetches \cup {Asked(hazard)}
          /\ lossy' = FALSE
          /\ UNCHANGED <<cells, shown>>
  /\ UNCHANGED <<serverVars, sock, subscribed, attempts, hazard>>

\* GET /risk reads the current assessment.
FetchAnswers(f) ==
  /\ ~f.answered
  /\ fetches' = (fetches \ {f}) \cup {[f EXCEPT !.answered = TRUE, !.version = truth[f.asked]]}
  /\ UNCHANGED <<serverVars, sockVars, state, received, screenVars, lossy>>

\* liveResync after its awaits: S.hazard is read again.  Without rows nothing
\* is assigned.
FetchApplies(f) ==
  /\ f.answered
  /\ fetches' = fetches \ {f}
  /\ cells' = IF f.version = 0 THEN cells
              ELSE [cells EXCEPT ![hazard] = <<f.asked, f.version>>]
  /\ UNCHANGED <<serverVars, sockVars, state, received, hazard, shown, lossy>>

\* The request failed: a toast says so.
FetchFails(f) ==
  /\ fetches' = fetches \ {f}
  /\ UNCHANGED <<serverVars, sockVars, state, received, screenVars, lossy>>

\* setHazard
SetHazard(h) ==
  /\ h # hazard
  /\ hazard' = h
  /\ UNCHANGED <<serverVars, sockVars, state, received, cells, shown, fetches, lossy>>

\* pipelineTick: the generator moves every score and counts as a message.
PipelineTick ==
  /\ cells' = [h \in Hazards |-> <<h, 0>>]
  /\ received' = TRUE
  /\ UNCHANGED <<serverVars, sockVars, state, hazard, shown, fetches, lossy>>

-----------------------------------------------------------------------------
Next ==
  \/ \E h \in Hazards : Recompute(h) \/ SetHazard(h)
  \/ ShelterReport \/ FallBehind \/ ServerAccepts \/ ServerSubscribes
  \/ Dial \/ Opens \/ Closes \/ Receive \/ PipelineTick
  \/ \E f \in fetches : FetchAnswers(f) \/ FetchApplies(f) \/ FetchFails(f)

Spec == Init /\ [][Next]_vars

\* The browser runs its timers and events; the server, tried again and again,
\* comes back and reads what it is sent.
Fairness ==
  /\ WF_vars(Dial)
  /\ SF_vars(ServerAccepts)
  /\ SF_vars(Opens)
  /\ SF_vars(Receive)
  /\ WF_vars(ServerSubscribes)
  /\ WF_vars(\E f \in fetches : FetchAnswers(f) \/ FetchApplies(f) \/ FetchFails(f))

FairSpec == Spec /\ Fairness

-----------------------------------------------------------------------------
(* Properties *)

Frames == ({"risk"} \X Hazards \X (1..MaxComputes))
            \cup ({"shelter"} \X (1..MaxReports)) \cup {Gap}

\* Types of the client state.
TypeOK ==
  /\ truth \in [Hazards -> 0..MaxComputes] /\ shelter \in 0..MaxReports
  /\ sock \in {"waiting", "opening", "accepted", "open"}
  /\ subscribed \in BOOLEAN
  /\ \A i \in DOMAIN stream : stream[i] \in Frames
  /\ state \in {"connecting", "live", "reconnecting", "offline"}
  /\ attempts \in 0..Ceiling
  /\ received \in BOOLEAN
  /\ hazard \in Hazards
  /\ cells \in [Hazards -> Hazards \X (0..MaxComputes)]
  /\ shown \in 0..MaxReports
  /\ fetches \subseteq [asked : Hazards, answered : BOOLEAN, version : 0..MaxComputes]
  /\ lossy \in BOOLEAN

\* live.js: "A disconnected dashboard shows 'reconnecting' ... it never shows
\* stale figures as though they were live".  The state says live only on an
\* open socket, and offline only when none is.
StateHonest ==
  /\ state = "live" <=> sock = "open"
  /\ state = "offline" => attempts = Ceiling

\* live.js, liveScheduleReconnect: whatever closes, and however often, the
\* dashboard gets a socket again once the server accepts one.
Reconnects == (sock # "open") ~> (sock = "open")

\* live.js: "A reconnected socket has a gap behind it. Refetch rather than
\* resuming".  Frames lost with a socket, or discarded by the server, are
\* followed by a refetch.
LossRefetched == lossy ~> ~lossy
=============================================================================
