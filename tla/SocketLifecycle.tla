-------------------------- MODULE SocketLifecycle --------------------------
(***************************************************************************)
(* packages/shared/src/socketLifecycle.ts: the bookkeeping the Student and *)
(* the Wizard share about their one socket.  It owns no timer and no       *)
(* socket: each call names a socket and answers what the hook must do.     *)
(*                                                                         *)
(* A lifecycle is a record; a call answers the next record, the status to  *)
(* show ("same" where the field is absent) and the set of effects: "hello", *)
(* "admitted", "detach", "retry", "stop".  The delays of the backoff are   *)
(* left out: timers fire at any time here.                                 *)
(***************************************************************************)
LOCAL INSTANCE Naturals

(* Why a socket ended.  A close frame is named by its reason; "refused"    *)
(* stands for every other 4400/4401/4403/4404, "abnormal" for 1006 and the *)
(* rest.                                                                   *)
classifyClose(frame) ==
  CASE frame = "role_already_connected"    -> "occupied"
    [] frame = "session_state_unavailable" -> "unavailable"
    [] frame = "role_connection_replaced"  -> "replaced"
    [] frame = "token_revoked"             -> "revoked"
    [] frame = "session_ended"             -> "ended"
    [] frame = "refused"                   -> "refused"
    [] frame = "abnormal"                  -> "lost"

isRetryableClose(kind) == kind \in {"occupied", "unavailable", "lost"}

Lives(S) == [current : S \cup {0}, admitted : S \cup {0}, ever : BOOLEAN, stopped : BOOLEAN]
Fresh    == [current |-> 0, admitted |-> 0, ever |-> FALSE, stopped |-> FALSE]

Does(life, status, effects) == [life |-> life, status |-> status, effects |-> effects]
Nothing(life)               == Does(life, "same", {})

begin(life, id) ==
  Does([life EXCEPT !.current = id, !.admitted = 0],
       IF life.ever THEN "reconnecting" ELSE "connecting", {})

isCurrent(life, id) == ~ life.stopped /\ life.current = id

opened(life, id) == IF isCurrent(life, id) THEN Does(life, "same", {"hello"}) ELSE Nothing(life)

snapshot(life, id) ==
  IF isCurrent(life, id) /\ life.admitted # id
    THEN Does([life EXCEPT !.admitted = id, !.ever = TRUE], "open", {"admitted"})
    ELSE Nothing(life)

Vacant(life) == [life EXCEPT !.current = 0, !.admitted = 0]

closed(life, id, frame) ==
  CASE ~ isCurrent(life, id) -> Nothing(life)
    [] isCurrent(life, id) /\ isRetryableClose(classifyClose(frame)) ->
         Does(Vacant(life), "reconnecting", {"retry"})
    [] OTHER -> Does([Vacant(life) EXCEPT !.stopped = TRUE], "closed", {"stop"})

(* A dropped socket is forgotten but its handlers and transport stay.      *)
timedOutAttached(life, id) ==
  IF isCurrent(life, id) THEN Does(Vacant(life), "reconnecting", {"retry"}) ELSE Nothing(life)

timedOut(life, id) ==
  IF isCurrent(life, id) THEN Does(Vacant(life), "reconnecting", {"detach", "retry"})
                         ELSE Nothing(life)
=============================================================================
