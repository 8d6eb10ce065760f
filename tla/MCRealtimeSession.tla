------------------------- MODULE MCRealtimeSession -------------------------
(***************************************************************************)
(* Instances of RealtimeSession for TLC: which message types each client   *)
(* sends in a run.  Every other constant is a number in the .cfg.          *)
(***************************************************************************)
EXTENDS RealtimeSession

Unbounded == -1

WizardSends(types) == [r \in Roles |-> IF r = "wizard" THEN types ELSE {}]

EmitsReplayed ==
  WizardSends({"session_started", "session_paused", "uncovered_question", "request_fallback"})

EmitsFrames ==
  WizardSends({"session_started", "session_resumed", "session_ended", "request_fallback"})

EmitsSlots == WizardSends({"session_started", "clip_command"})

EmitsStartThenMark == WizardSends({"session_started", "uncovered_question"})

EmitsStartOnly == WizardSends({"session_started"})
=============================================================================
