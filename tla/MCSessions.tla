----------------------------- MODULE MCSessions -----------------------------
(* Instance of Sessions for TLC: two clients, one game, up to two logins   *)
(* and two requests served at once.  No symmetry: the run checks liveness.  *)
EXTENDS Sessions
=============================================================================
