-------------------------- MODULE RecomputeService --------------------------
(***************************************************************************)
(* What RecomputeBus (backend/app/realtime.py) promises the rest of the    *)
(* platform, without its queues: for every (district, hazard) key at most  *)
(* one recompute runs at a time, and a request is followed by a recompute  *)
(* that began after it, unless the bus is stopped first.                   *)
(***************************************************************************)
CONSTANT Keys   \* the (district, hazard) pairs

VARIABLES
  need,     \* keys with a request no recompute covers yet
  busy,     \* keys being recomputed
  halted    \* the bus was stopped

vars == <<need, busy, halted>>

Init == need = {} /\ busy = {} /\ halted = FALSE

\* Somebody asks for the keys of K.
Ask(K) ==
  /\ need' = need \cup K
  /\ UNCHANGED <<busy, halted>>

\* A recompute of k begins; it sees every fact stored so far.
Begin(k) ==
  /\ k \notin busy
  /\ busy' = busy \cup {k}
  /\ need' = need \ {k}
  /\ UNCHANGED halted

\* A recompute of k ends, perhaps asking for another one.
End(k) ==
  /\ k \in busy
  /\ busy' = busy \ {k}
  /\ need' \in {need, need \cup {k}}
  /\ UNCHANGED halted

Halt ==
  /\ halted' = TRUE
  /\ UNCHANGED <<need, busy>>

Next ==
  \/ \E K \in SUBSET Keys : Ask(K)
  \/ \E k \in Keys : Begin(k) \/ End(k)
  \/ Halt

SafeSpec == Init /\ [][Next]_vars

\* A needed key that is idle time and again is recomputed, unless halted.
Spec ==
  /\ SafeSpec
  /\ \A k \in Keys : SF_vars(~halted /\ k \in need /\ Begin(k))
=============================================================================
