-------------------------------- MODULE MCHub --------------------------------
(* Hub for TLC: the worker publishes, one API replica holds the sockets. *)
EXTENDS Hub
=============================================================================
