-------------------------- MODULE MCSessionSocket --------------------------
(* Small instances of SessionSocket for TLC: both hooks, two sockets. *)
EXTENDS SessionSocket

BothHooks == {"student", "wizard"}
=============================================================================
