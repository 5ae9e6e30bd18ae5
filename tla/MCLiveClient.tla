----------------------------- MODULE MCLiveClient -----------------------------
(* LiveClient for TLC: two hazards, a dashboard that may switch between them. *)
EXTENDS LiveClient
=============================================================================
