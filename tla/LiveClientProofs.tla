--------------------------- MODULE LiveClientProofs ---------------------------
(***************************************************************************)
(* The connection state on the dashboard is the state of its socket, for   *)
(* every set of hazards, every ceiling, and any number of closures,        *)
(* reconnections and frames.                                               *)
(***************************************************************************)
EXTENDS LiveClient, TLAPS

IInv == StateHonest /\ attempts \in 0..Ceiling

\* Counting attempts stops at the ceiling, and only there.
LEMMA CapAtCeiling ==
  ASSUME NEW n \in 0..Ceiling
  PROVE  /\ CapAttempts(n + 1) \in 0..Ceiling
         /\ n + 1 >= Ceiling => CapAttempts(n + 1) = Ceiling
BY LiveClientAssumption DEF CapAttempts

LEMMA InitIInv == Init => IInv
BY LiveClientAssumption DEF Init, IInv, StateHonest

\* The four steps of the socket.
LEMMA SocketKeeps ==
  ASSUME IInv, ServerAccepts \/ Dial \/ Opens \/ Closes
  PROVE  IInv'
<1> USE DEF IInv, StateHonest
<1>1. CASE ServerAccepts
  BY <1>1 DEF ServerAccepts
<1>2. CASE Dial
  BY <1>2 DEF Dial
<1>3. CASE Opens
  BY <1>3, LiveClientAssumption DEF Opens
<1>4. CASE Closes
  <2>1. attempts' \in 0..Ceiling
    BY <1>4, CapAtCeiling DEF Closes
  <2>2. state' = "offline" => attempts' = Ceiling
    BY <1>4, CapAtCeiling DEF Closes
  <2> QED
    BY <1>4, <2>1, <2>2 DEF Closes
<1> QED
  BY <1>1, <1>2, <1>3, <1>4

\* A frame sets the state to live, and only an open socket has frames.
LEMMA ReceiveKeeps == IInv /\ Receive => IInv'
BY DEF IInv, StateHonest, Receive

\* The backend, the refetches, the generator and the hazard switch leave the
\* socket and the state alone.
LEMMA OthersKeep ==
  ASSUME IInv,
         \/ \E h \in Hazards : Recompute(h) \/ SetHazard(h)
         \/ ShelterReport \/ FallBehind \/ ServerSubscribes \/ PipelineTick
         \/ \E f \in fetches : FetchAnswers(f) \/ FetchApplies(f) \/ FetchFails(f)
         \/ UNCHANGED vars
  PROVE  IInv'
<1>1. UNCHANGED <<state, sock, attempts>>
  BY DEF Recompute, SetHazard, ShelterReport, FallBehind, ServerSubscribes, PipelineTick,
         FetchAnswers, FetchApplies, FetchFails, vars, serverVars, sockVars, screenVars
<1> QED
  BY <1>1 DEF IInv, StateHonest

\* live.js: the dashboard says live exactly while its socket is open, and offline
\* only after as many failures in a row as the ceiling says.
THEOREM StateIsHonest == Spec => []StateHonest
<1>1. IInv /\ [Next]_vars => IInv'
  BY SocketKeeps, ReceiveKeeps, OthersKeep DEF Next
<1>2. IInv => StateHonest
  BY DEF IInv
<1> QED
  BY InitIInv, <1>1, <1>2, PTL DEF Spec
===============================================================================
