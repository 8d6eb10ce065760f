--------------------------- MODULE SessionSocket ---------------------------
(***************************************************************************)
(* The session sockets of the two browser clients: useStudentSocket.ts and *)
(* useSessionSocket.ts (Wizard) around one SocketLifecycle.  One page, the *)
(* sockets it has opened, a network that can die without a close event,    *)
(* and the server as these hooks meet it: an upgrade is accepted before it *)
(* is refused, reconnect_hello answers with a snapshot, a replayed event   *)
(* is a duplicate.                                                         *)
(*                                                                         *)
(* Role "wizard" starts and resumes the session and re-reads the snapshot  *)
(* when a start is due; role "student" reports the clips it plays and flips *)
(* its own view at the scheduled instant.  Time is abstract: a timer fires *)
(* at any time, but one that would fire while its answer is on a working   *)
(* connection counts as a fault.                                           *)
(***************************************************************************)
EXTENDS Naturals, FiniteSets, Sequences, SequencesExt, SocketLifecycle

CONSTANTS
  Roles,        \* which of the two hooks to run: subset of {"wizard", "student"}
  MaxSockets,   \* sockets that may exist at once
  MaxEvents,    \* bound on the events the page authors
  MaxFaults,    \* bound on network and server faults and remounts
  MaxPauses     \* bound on the pauses of the session

ASSUME SocketAssumption ==
  /\ Roles \subseteq {"wizard", "student"} /\ Roles # {}
  /\ MaxSockets \in Nat \ {0}
  /\ {MaxEvents, MaxFaults, MaxPauses} \subseteq Nat

VARIABLES
  role,    \* the hook this page runs
  life,    \* its SocketLifecycle
  page,    \* its refs, timers and shown state
  socks,   \* Slots -> both ends of a socket
  row,     \* state of the session at the server
  token,   \* "good" or "revoked"
  got,     \* events the server has accepted
  issued,  \* the events authored, in order: "start", "resume" or "clip"
  budget   \* what is left of the bounds

vars == <<role, life, page, socks, row, token, got, issued, budget>>

Slots    == 1 .. MaxSockets
States   == {"created", "starting", "active", "paused", "ended"}
Statuses == {"connecting", "reconnecting", "open", "degraded", "closed"}
MaxMissed == 3                                      \* MAX_MISSED_HEARTBEATS

Free   == [at |-> "free", net |-> "up", srv |-> "gone", up |-> <<>>, down |-> <<>>]
NoBeat == [on |-> 0, waits |-> FALSE, missed |-> 0]
Dialling == [Free EXCEPT !.at = "connecting", !.srv = "judging"]

Frame(type, arg) == [type |-> type, arg |-> arg]
Event(e)         == Frame("event", e)

(* Both ends done: the slot can be used again.                             *)
Tidy(ss) == [s \in Slots |-> IF ss[s].at = "closed" /\ ss[s].srv = "gone" THEN Free ELSE ss[s]]

(* A frame put on a dead line, or towards a page that closed, is lost.     *)
Up(ss, s, fs)   == IF ss[s].net = "up" THEN [ss EXCEPT ![s].up = @ \o fs] ELSE ss
Down(ss, s, fs) ==
  IF ss[s].net = "up" /\ ss[s].at # "closed" THEN [ss EXCEPT ![s].down = @ \o fs] ELSE ss

Shut(ss, s) == Tidy([ss EXCEPT ![s].at = "closed", ![s].down = <<>>])

(* rawSend: on the socket the ref holds, when that one is open.            *)
rawSend(p, ss, fs) == IF p.ref # 0 /\ ss[p.ref].at = "open" THEN Up(ss, p.ref, fs) ELSE ss

requestSnapshot(p, ss) == rawSend(p, ss, <<Frame("hello", 0)>>)

-----------------------------------------------------------------------------
(* The view, and what follows a change of it in the same hook.             *)

(* The start stays in flight after the session has left "created".        *)
SetViewInFlight(p, state) ==
  [p EXCEPT !.view = state, !.start = @ /\ (role = "student" \/ state \in {"created", "starting"})]

(* The Wizard's effect on session_state: a session that left "created" has *)
(* no start in flight, one that left "starting" needs no start check.      *)
SetView(p, state) ==
  IF role = "wizard"
    THEN [p EXCEPT !.view = state,
                   !.inFlight = @ /\ state = "created",
                   !.start = @ /\ state \in {"created", "starting"}]
    ELSE [p EXCEPT !.view = state]

(* scheduleAuthoritativeStartCheck and scheduleLocalStart arm one timer.   *)
Scheduled(p) == [SetView(p, "starting") EXCEPT !.start = TRUE]

applySnapshot(p, state) ==
  [SetView(p, state) EXCEPT !.start = (state = "starting"), !.replay = FALSE]

Replays(p) == IF p.replay THEN [i \in 1 .. Len(p.pending) |-> Event(p.pending[i])] ELSE <<>>

handleAck(p, e, verdict) ==
  LET known == e \in ToSet(p.pending)
      start == known /\ issued[e] = "start"
      p1    == [p EXCEPT !.pending = SelectSeq(@, LAMBDA d : d # e)]
  IN  IF role = "student" THEN p1
      ELSE [p1 EXCEPT
             !.inFlight = @ /\ ~ (verdict = "rejected" /\ start),
             !.resync   = @ \/ verdict = "accepted" \/ (verdict = "duplicate" /\ start)]

(* The Student re-reads the snapshot after a clip of its own is accepted.  *)
AsksAfterAck(e, verdict) ==
  role = "student" /\ verdict = "accepted" /\ e \in ToSet(page.pending)

(* A broadcast of another role moves the view at once.                     *)
Mirrored(p, state) == SetView(p, state)

(* What else the broadcast may have changed is read from a snapshot: the   *)
(* Wizard asks after a debounce, the Student straight away.                *)
applyBroadcastEnvelope(p, state) ==
  [Mirrored(p, state) EXCEPT !.resync = @ \/ role = "wizard"]

-----------------------------------------------------------------------------
(* The ping interval and the waits for pongs; dropped, or left running.    *)
keepHeartbeat(beat)  == beat
clearHeartbeat(beat) == NoBeat

(* Admitted: events may go out, the snapshot is followed by a replay of    *)
(* what was not acknowledged, and the heartbeat of this socket starts.     *)
admits(p, s) ==
  [p EXCEPT !.admission = 0, !.admitted = TRUE, !.replay = TRUE, !.beat = [NoBeat EXCEPT !.on = s]]

(* The socket is given up, lost or finally closed: nothing of it runs on.  *)
leaves(p) == [p EXCEPT !.admission = 0, !.admitted = FALSE, !.beat = clearHeartbeat(@)]

(* apply: the effects of a lifecycle call on the page.                     *)
apply(p, s, out) ==
  LET does(e) == e \in out.effects
      shown   == [p EXCEPT !.status    = IF out.status = "same" THEN @ ELSE out.status,
                           !.ref       = IF does("detach") /\ @ = s THEN 0 ELSE @,
                           !.reconnect = @ \/ does("retry")]
  IN  IF does("admitted") THEN admits(shown, s)
      ELSE IF does("detach") \/ does("retry") \/ does("stop") THEN leaves(shown) ELSE shown

(* The connect of a fresh effect, or of the reconnect timer.               *)
connect(p, lf, ss) ==
  LET s   == CHOOSE t \in Slots : ss[t].at = "free"
      out == begin(lf, s)
  IN  /\ life'  = out.life
      /\ page'  = [p EXCEPT !.ref = s, !.status = out.status, !.reconnect = FALSE]
      /\ socks' = [ss EXCEPT ![s] = Dialling]

HasRoom(ss) == \E s \in Slots : ss[s].at = "free"

Reconnect ==
  /\ page.reconnect /\ HasRoom(socks)
  /\ connect(page, life, socks)
  /\ UNCHANGED <<role, row, token, got, issued, budget>>

(* The wait for the snapshot has no end.                                   *)
OpensUnarmed(s) ==
  /\ socks[s].at = "connecting" /\ socks[s].net = "up" /\ socks[s].srv # "judging"
  /\ socks' = requestSnapshot(page, [socks EXCEPT ![s].at = "open"])
  /\ UNCHANGED <<role, life, page, row, token, got, issued, budget>>

(* onopen.  The server accepts before it refuses, so this is no admission. *)
Opens(s) ==
  /\ socks[s].at = "connecting" /\ socks[s].net = "up" /\ socks[s].srv # "judging"
  /\ IF "hello" \in opened(life, s).effects
       THEN /\ page'  = [page EXCEPT !.admission = s]
            /\ socks' = requestSnapshot(page, [socks EXCEPT ![s].at = "open"])
       ELSE /\ socks' = Shut(socks, s)
            /\ UNCHANGED page
  /\ UNCHANGED <<role, life, row, token, got, issued, budget>>

(* onclose, with the code and reason in frame.                             *)
onclose(s, frame, ss) ==
  LET out == closed(life, s, frame)
      p   == [page EXCEPT !.ref = IF isCurrent(life, s) /\ @ = s THEN 0 ELSE @]
      p1  == apply(p, s, out)
  IN  /\ life'  = out.life
      /\ socks' = Shut(ss, s)
      /\ page'  = IF role = "wizard" /\ "stop" \in out.effects /\ frame = "session_ended"
                    THEN SetView(p1, "ended") ELSE p1

handlePong(p) ==
  [p EXCEPT !.beat.waits = FALSE, !.beat.missed = 0,
            !.status = IF @ = "degraded" THEN "open" ELSE @]

(* Control messages: the answers of the server, and the start it scheduled. *)
handleControl(s, f, ss) ==
  CASE f.type = "pong"      -> page' = handlePong(page) /\ socks' = ss /\ UNCHANGED life
    [] f.type = "ack"       ->
         /\ page'  = handleAck(page, f.arg.ev, f.arg.verdict)
         /\ socks' = IF AsksAfterAck(f.arg.ev, f.arg.verdict) THEN requestSnapshot(page, ss) ELSE ss
         /\ UNCHANGED life
    [] f.type = "snapshot"  ->
         LET out == snapshot(life, s)
             p   == apply(page, s, out)
         IN  /\ life'  = out.life
             /\ page'  = applySnapshot(p, f.arg)
             /\ socks' = rawSend(p, ss, Replays(p))
    [] OTHER                -> page' = Scheduled(page) /\ socks' = ss /\ UNCHANGED life

(* onmessage: a control message, or an event another role has sent.        *)
handleMessage(s, f, ss) ==
  IF f.type # "broadcast" THEN handleControl(s, f, ss)
  ELSE /\ page'  = applyBroadcastEnvelope(page, f.arg)
       /\ socks' = IF role = "student" THEN requestSnapshot(page, ss) ELSE ss
       /\ UNCHANGED life

Hears(s) ==
  /\ socks[s].at = "open" /\ socks[s].down # <<>>
  /\ LET f  == Head(socks[s].down)
         ss == [socks EXCEPT ![s].down = Tail(@)]
     IN  IF f.type = "close" THEN onclose(s, f.arg, ss)
         ELSE IF isCurrent(life, s) THEN handleMessage(s, f, ss)
         ELSE socks' = ss /\ UNCHANGED <<life, page>>
  /\ UNCHANGED <<role, row, token, got, issued, budget>>

-----------------------------------------------------------------------------
(* Timers of the page.                                                     *)

Fault == budget.faults > 0 /\ budget' = [budget EXCEPT !.faults = @ - 1]
Silent(s) == socks[s].net = "dead" /\ UNCHANGED budget

(* timedOut: detach, close, and connect again after the backoff.           *)
TimesOut(p, s) ==
  LET out == timedOut(life, s)
  IN  /\ life'  = out.life
      /\ page'  = apply(p, s, out)
      /\ socks' = IF "detach" \in out.effects THEN Shut(socks, s) ELSE socks

AdmissionTimer ==
  /\ page.admission # 0
  /\ Silent(page.admission) \/ Fault
  /\ TimesOut([page EXCEPT !.admission = 0], page.admission)
  /\ UNCHANGED <<role, row, token, got, issued>>

(* The next ping goes out after the wait for the last pong is over.        *)
PingTimer ==
  /\ page.beat.on # 0 /\ ~ page.beat.waits
  /\ page.ref # 0 /\ socks[page.ref].at = "open"
  /\ socks' = rawSend(page, socks, <<Frame("ping", 0)>>)
  /\ page'  = [page EXCEPT !.beat.waits = TRUE]
  /\ UNCHANGED <<role, life, row, token, got, issued, budget>>

PongTimer ==
  /\ page.beat.on # 0 /\ page.beat.waits
  /\ Silent(page.beat.on) \/ Fault
  /\ LET p == [page EXCEPT !.beat.waits = FALSE, !.beat.missed = @ + 1]
     IN  IF p.beat.missed >= MaxMissed
           THEN TimesOut(p, page.beat.on)
           ELSE page' = [p EXCEPT !.status = "degraded"] /\ UNCHANGED <<life, socks>>
  /\ UNCHANGED <<role, row, token, got, issued>>

(* The scheduled instant: the Wizard asks the server, the Student flips.   *)
StartTimer ==
  /\ page.start
  /\ IF role = "wizard"
       THEN page' = [page EXCEPT !.start = FALSE] /\ socks' = requestSnapshot(page, socks)
       ELSE page' = [page EXCEPT !.start = FALSE, !.view = "active"] /\ UNCHANGED socks
  /\ UNCHANGED <<role, life, row, token, got, issued, budget>>

ResyncTimer ==
  /\ page.resync
  /\ page'  = [page EXCEPT !.resync = FALSE]
  /\ socks' = requestSnapshot(page, socks)
  /\ UNCHANGED <<role, life, row, token, got, issued, budget>>

-----------------------------------------------------------------------------
(* Events the page authors.                                                *)

canDispatch(kind) ==
  CASE kind = "start"  -> role = "wizard" /\ page.view = "created" /\ ~ page.inFlight
    [] kind = "resume" -> role = "wizard" /\ page.view = "paused"
    [] kind = "clip"   -> role = "student"

(* sendEnvelope: only while admitted; otherwise nothing is kept.           *)
sendEnvelope(kind, p) ==
  /\ Len(issued) < MaxEvents
  /\ p.admitted /\ p.ref # 0 /\ socks[p.ref].at = "open"
  /\ issued' = Append(issued, kind)
  /\ socks'  = rawSend(p, socks, <<Event(Len(issued'))>>)
  /\ page'   = [p EXCEPT !.pending = Append(@, Len(issued'))]
  /\ UNCHANGED <<role, life, row, token, got, budget>>

(* A start is in flight until the server's answer or a snapshot says more. *)
sendSessionStarted == canDispatch("start") /\ sendEnvelope("start", [page EXCEPT !.inFlight = TRUE])
sendSessionResumed == canDispatch("resume") /\ sendEnvelope("resume", page)
sendClipEvent      == canDispatch("clip") /\ sendEnvelope("clip", page)

(* Cleanup and a fresh effect: StrictMode, or another credential.  Pending *)
(* events, the view and the replay flag are refs and state: they survive.  *)
Remount ==
  /\ Fault
  /\ LET s  == page.ref
         ss == IF s = 0 THEN socks ELSE Shut(socks, s)
         p  == [page EXCEPT !.ref = 0, !.admitted = FALSE, !.beat = NoBeat, !.admission = 0,
                            !.reconnect = FALSE, !.resync = FALSE, !.start = FALSE]
     IN  HasRoom(ss) /\ connect(p, Fresh, ss)
  /\ UNCHANGED <<role, row, token, got, issued>>

-----------------------------------------------------------------------------
(* The network.                                                            *)

(* The connection breaks and the page is told: close 1006.  What was on    *)
(* its way up may still arrive.                                            *)
NetBreaks(s) ==
  /\ socks[s].at \in {"connecting", "open"} /\ Fault
  /\ \E lost \in BOOLEAN :
       onclose(s, "abnormal", [socks EXCEPT ![s].up = IF lost THEN <<>> ELSE @])
  /\ UNCHANGED <<role, row, token, got, issued>>

(* The connection dies without a close event on either side.               *)
NetDies(s) ==
  /\ socks[s].at \in {"connecting", "open"} /\ socks[s].net = "up" /\ Fault
  /\ socks' = [socks EXCEPT ![s].net = "dead", ![s].up = <<>>, ![s].down = <<>>]
  /\ UNCHANGED <<role, life, page, row, token, got, issued>>

(* A browser gives a handshake up; an open socket it may leave for long.   *)
BrowserGivesUp(s) ==
  /\ socks[s].at \in {"connecting", "open"} /\ socks[s].net = "dead"
  /\ onclose(s, "abnormal", socks)
  /\ UNCHANGED <<role, row, token, got, issued, budget>>

-----------------------------------------------------------------------------
(* The server, as the frames of these hooks meet it.                       *)

Held(s) == socks[s].srv = "admitted"

Refusal == IF token = "revoked" THEN "token_revoked"
           ELSE IF row = "ended" THEN "session_ended" ELSE "none"

(* Accepted and closed in one breath, or closed while it was served.       *)
ClosedBy(ss, S, frame) ==
  Tidy([s \in Slots |->
          IF s \notin S THEN ss[s]
          ELSE [Down(ss, s, <<Frame("close", frame)>>)[s] EXCEPT !.srv = "gone", !.up = <<>>]])

(* manager.connect: a holder whose heartbeats stopped is closed 4409, a    *)
(* live one keeps the role.                                                *)
AdmitUpgrade(s) ==
  /\ socks[s].srv = "judging" /\ socks[s].net = "up"
  /\ Refusal = "none" /\ \A t \in Slots : Held(t) => socks[t].net = "dead"
  /\ socks' = [ClosedBy(socks, {t \in Slots : Held(t)}, "role_connection_replaced")
                 EXCEPT ![s].srv = "admitted"]
  /\ UNCHANGED <<role, life, page, row, token, got, issued, budget>>

RefuseUpgrade(s) ==
  /\ socks[s].srv = "judging"
  /\ \/ /\ socks[s].net = "dead"
        /\ socks' = ClosedBy(socks, {s}, "abnormal") /\ UNCHANGED budget
     \/ /\ Refusal # "none"
        /\ socks' = ClosedBy(socks, {s}, Refusal) /\ UNCHANGED budget
     \/ /\ Refusal = "none" /\ \E t \in Slots : Held(t) /\ socks[t].net = "up"
        /\ socks' = ClosedBy(socks, {s}, "role_already_connected") /\ UNCHANGED budget
     \/ /\ Fault
        /\ \E frame \in {"role_already_connected", "session_state_unavailable"} :
             socks' = ClosedBy(socks, {s}, frame)
  /\ UNCHANGED <<role, life, page, row, token, got, issued>>

Target(kind) == IF kind = "start" THEN "starting" ELSE "active"
Legal(kind)  == CASE kind = "start" -> row = "created" [] kind = "resume" -> row = "paused"
                  [] kind = "clip" -> TRUE

Ack(e, verdict) == Frame("ack", [ev |-> e, verdict |-> verdict])

(* One event: known already, refused, or stored and applied.               *)
Handle(s, e, ss) ==
  LET kind == issued[e]
  IN  IF e \in got
        THEN socks' = Down(ss, s, <<Ack(e, "duplicate")>>) /\ UNCHANGED <<row, got, budget>>
      ELSE
      \/ /\ ~ Legal(kind)
         /\ socks' = Down(ss, s, <<Ack(e, "rejected")>>) /\ UNCHANGED <<row, got, budget>>
      \/ /\ Fault                                    \* persistence_unavailable
         /\ socks' = Down(ss, s, <<Ack(e, "rejected")>>) /\ UNCHANGED <<row, got>>
      \/ /\ Legal(kind)
         /\ got' = got \cup {e}
         /\ row' = IF kind = "clip" THEN row ELSE Target(kind)
         /\ socks' = Down(ss, s, <<Ack(e, "accepted")>> \o
                                 (IF kind = "start" THEN <<Frame("scheduled", 0)>> ELSE <<>>))
         /\ UNCHANGED budget

Serve(s) ==
  /\ Held(s) /\ socks[s].up # <<>>
  /\ LET f  == Head(socks[s].up)
         ss == [socks EXCEPT ![s].up = Tail(@)]
     IN  IF Refusal # "none"
           THEN socks' = ClosedBy(ss, {s}, Refusal) /\ UNCHANGED <<row, got, budget>>
         ELSE IF f.type = "event" THEN Handle(s, f.arg, ss)
         ELSE /\ socks' = Down(ss, s, <<IF f.type = "hello" THEN Frame("snapshot", row)
                                                            ELSE Frame("pong", 0)>>)
              /\ UNCHANGED <<row, got, budget>>
  /\ UNCHANGED <<role, life, page, token, issued>>

(* The close of the page reaches the server after the frames before it.    *)
Notices(s) ==
  /\ Held(s) /\ socks[s].at = "closed" /\ (socks[s].up = <<>> \/ socks[s].net = "dead")
  /\ socks' = Tidy([socks EXCEPT ![s].srv = "gone"])
  /\ UNCHANGED <<role, life, page, row, token, got, issued, budget>>

Broadcasts(frames) ==
  socks' = [s \in Slots |-> IF Held(s) THEN Down(socks, s, frames)[s] ELSE socks[s]]

StartComesDue ==
  /\ row = "starting" /\ row' = "active"
  /\ UNCHANGED <<role, life, page, socks, token, got, issued, budget>>

(* Another client of the session, or the server's absence check.           *)
Pause ==
  /\ budget.pauses > 0 /\ row \in {"starting", "active"}
  /\ row' = "paused" /\ Broadcasts(<<Frame("broadcast", "paused")>>)
  /\ budget' = [budget EXCEPT !.pauses = @ - 1]
  /\ UNCHANGED <<role, life, page, token, got, issued>>

WizardActs ==
  /\ role = "student"
  /\ \/ /\ row = "created" /\ row' = "starting"
        /\ Broadcasts(<<Frame("scheduled", 0), Frame("broadcast", "starting")>>)
     \/ /\ row = "paused" /\ row' = "active"
        /\ Broadcasts(<<Frame("broadcast", "active")>>)
  /\ UNCHANGED <<role, life, page, token, got, issued, budget>>

(* POST /end: the row, then every live socket is closed; no broadcast.     *)
EndSession ==
  /\ row # "ended" /\ token = "good" /\ row' = "ended"
  /\ socks' = ClosedBy(socks, {s \in Slots : Held(s)}, "session_ended")
  /\ UNCHANGED <<role, life, page, token, got, issued, budget>>

(* One of the two final causes is enough for a behaviour.                  *)
Revoke ==
  /\ token = "good" /\ row # "ended" /\ token' = "revoked"
  /\ socks' = ClosedBy(socks, {s \in Slots : Held(s)}, "token_revoked")
  /\ UNCHANGED <<role, life, page, row, got, issued, budget>>

(* Another device is admitted to the role in place of this one.            *)
TakenOver ==
  /\ Fault /\ \E s \in Slots : Held(s) /\ socks[s].net = "up"
  /\ socks' = ClosedBy(socks, {s \in Slots : Held(s)}, "role_connection_replaced")
  /\ UNCHANGED <<role, life, page, row, token, got, issued>>

-----------------------------------------------------------------------------
(* The refs and the state of a page whose first socket is connecting.      *)
Mounted ==
  [ref |-> 1, admitted |-> FALSE, replay |-> FALSE, reconnect |-> FALSE, admission |-> 0,
   beat |-> NoBeat, status |-> "connecting", view |-> "created", start |-> FALSE,
   resync |-> FALSE, inFlight |-> FALSE, pending |-> <<>>]

Init ==
  /\ role \in Roles
  /\ life = begin(Fresh, 1).life
  /\ page = Mounted
  /\ socks = [s \in Slots |-> IF s = 1 THEN Dialling ELSE Free]
  /\ token = "good" /\ got = {} /\ issued = <<>>
  /\ \/ row = "created" /\ budget = [faults |-> MaxFaults, pauses |-> MaxPauses]
     \/ /\ row = "paused" /\ MaxPauses > 0             \* a page opened during a pause
        /\ budget = [faults |-> MaxFaults, pauses |-> MaxPauses - 1]

Timers == Reconnect \/ AdmissionTimer \/ PingTimer \/ PongTimer \/ StartTimer \/ ResyncTimer

Next ==
  \/ Timers \/ Remount
  \/ sendSessionStarted \/ sendSessionResumed \/ sendClipEvent
  \/ \E s \in Slots :
       \/ Opens(s) \/ Hears(s) \/ NetBreaks(s) \/ NetDies(s) \/ BrowserGivesUp(s)
       \/ AdmitUpgrade(s) \/ RefuseUpgrade(s) \/ Serve(s) \/ Notices(s)
  \/ StartComesDue \/ Pause \/ WizardActs \/ EndSession \/ Revoke \/ TakenOver

Spec == Init /\ [][Next]_vars

(* Timers fire, a working connection delivers, the server answers, a       *)
(* handshake is given up in the end and a scheduled start comes due.  No   *)
(* fairness for the user, for faults, or for the close event of a socket   *)
(* that is open on a dead line.                                            *)
Judges(s) == AdmitUpgrade(s) \/ RefuseUpgrade(s)
FairSpec ==
  /\ Spec
  /\ WF_vars(Reconnect) /\ WF_vars(AdmissionTimer) /\ WF_vars(PingTimer)
  /\ WF_vars(PongTimer) /\ WF_vars(StartTimer) /\ WF_vars(ResyncTimer)
  /\ WF_vars(StartComesDue)
  /\ \A s \in Slots :
       /\ WF_vars(Opens(s)) /\ WF_vars(Hears(s)) /\ WF_vars(Judges(s))
       /\ WF_vars(Serve(s)) /\ WF_vars(Notices(s))
       /\ WF_vars(socks[s].at = "connecting" /\ BrowserGivesUp(s))

-----------------------------------------------------------------------------
(* The lifecycle and what the page keeps of its link name sockets there    *)
(* are, and a socket is at one of its four places.                         *)
TypeOK ==
  /\ life \in Lives(Slots)
  /\ DOMAIN page = DOMAIN Mounted /\ {page.admitted, page.reconnect} \subseteq BOOLEAN
  /\ {page.ref, page.admission} \subseteq Slots \cup {0} /\ page.status \in Statuses
  /\ page.beat \in [on : Slots \cup {0}, waits : BOOLEAN, missed : Nat]
  /\ DOMAIN socks = Slots
  /\ \A s \in Slots : /\ DOMAIN socks[s] = DOMAIN Free
                       /\ socks[s].at \in {"free", "connecting", "open", "closed"}

ShownAdmitted(p) == p.status \in {"open", "degraded"}

Live(s) == socks[s].at \in {"connecting", "open"}

\* Never two live sockets, and never a live socket beside a reconnect timer
\* or after a final close: whatever is armed belongs to the current socket, so
\* no timer of a replaced socket can close its successor.
OneLiveSocket ==
  /\ \A s \in Slots : Live(s) => s = life.current /\ s = page.ref /\ ~ page.reconnect
  /\ page.admission # 0 => page.admission = life.current
  /\ life.stopped => page.ref = 0 /\ ~ page.reconnect

\* The page shows itself admitted (useStudentSocket.ts:63-65: "Recording may
\* start only while this holds") exactly while a snapshot has arrived on the
\* current socket: only then it sends events, and only on that socket its
\* heartbeat runs.
AdmissionShown ==
  LET admitted == life.admitted # 0
  IN  /\ ShownAdmitted(page) = admitted
      /\ page.admitted = admitted
      /\ page.beat.on = life.admitted

\* Faults being bounded, the page is admitted again or finally refused, even
\* when the network dies without a close event.
Reconnects == life.admitted = 0 ~> (life.admitted # 0 \/ life.stopped)

\* What the page shows of the session, and a start in flight, is settled by
\* the server in the end, across reconnects, lost answers and replays.
Agrees  == page.view = row /\ ~ page.inFlight
Settles == ~ Agrees ~> (Agrees \/ life.stopped)
=============================================================================
