---------------------------- MODULE SessionRow ----------------------------
(***************************************************************************)
(* The persisted session row of server/app/models.py: its five states, the *)
(* transitions the access layer allows, and the revision every transition  *)
(* bumps.  This is the promise the realtime layer is checked against: each *)
(* function below is one call of models.py seen as one atomic step.        *)
(***************************************************************************)
EXTENDS Integers

VARIABLES
  status,     \* Session.status
  revision    \* Session.snapshot_revision

rowVars == <<status, revision>>

SESSION_STATES == {"created", "starting", "active", "paused", "ended"}

ALLOWED_TRANSITIONS ==
  [s \in SESSION_STATES |->
     CASE s = "created"  -> {"starting", "active", "ended"}
       [] s = "starting" -> {"active", "paused", "ended"}
       [] s = "active"   -> {"paused", "ended"}
       [] s = "paused"   -> {"active", "ended"}
       [] s = "ended"    -> {}]

Transition(target) ==
  /\ target \in ALLOWED_TRANSITIONS[status]
  /\ status'   = target
  /\ revision' = revision + 1

\* start_session(start_at_ms): schedule the unified start.
Schedule == status # "paused" /\ Transition("starting")

\* start_session(): the scheduled instant has come.
Start == status # "paused" /\ Transition("active")

Pause  == Transition("paused")
Resume == status = "paused" /\ Transition("active")
End    == Transition("ended")

Init == status = "created" /\ revision = 0

Next == Schedule \/ Start \/ Pause \/ Resume \/ End

Spec == Init /\ [][Next]_rowVars
===========================================================================
