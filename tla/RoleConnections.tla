-------------------------- MODULE RoleConnections --------------------------
(***************************************************************************)
(* ConnectionManager.connect, disconnect, touch_heartbeat and              *)
(* lost_critical_roles of server/app/websocket.py with the frame of        *)
(* session_ws that calls them, for one session and one role that may hold  *)
(* a single connection.  Everything runs on one event loop, so a step is   *)
(* what runs between two awaits: connect() suspends at the close of the    *)
(* connection it takes over and at the accept of its own socket, and other *)
(* handlers run meanwhile.                                                 *)
(***************************************************************************)
EXTENDS Integers, Sequences, FiniteSets, SequencesExt

CONSTANT Sockets  \* bound: the upgrade requests ever made for the role

VARIABLES
  registry,   \* _connections[session][role]: the sockets of its entries
  phase,      \* where the handler of each socket is, see Phases
  captured,   \* handlers whose `existing` is still the list in _connections
  stale,      \* sockets whose last_heartbeat_ms is past HEARTBEAT_STALE_MS
  mark,       \* _disconnected_since: "none", "pending", "expired" (grace over)
  crossed     \* history: an admission, or the late disconnect() of a socket that
              \* had been displaced before, fell into a suspended admission

vars == <<registry, phase, captured, stale, mark, crossed>>

Registered == ToSet(registry)
At(s) == CHOOSE i \in DOMAIN registry : registry[i] = s
Without(s) == IF s \in Registered THEN RemoveAt(registry, At(s)) ELSE registry
In(phases) == {s \in Sockets : phase[s] \in phases}

\* Admitting: waiting for the close of the prior connection, or for its own
\* accept (after a takeover: "replacing").  Served: registered, telling the
\* other roles of the takeover, or in the receive loop.  Reporting: will call
\* disconnect().  "failed": left during its handshake; "dead": an exception
\* left session_ws and disconnect() is never called; "closed": it was.
Admitting == {"closing", "accepting", "replacing"}
Served    == {"announcing", "open"}
Reporting == Served \cup {"closedByServer"}
Phases    == Admitting \cup Reporting \cup {"new", "refused", "failed", "dead", "closed"}

BeginAdmission == crossed' = (crossed \/ In(Admitting) # {})

-----------------------------------------------------------------------------
(***************************************************************************)
(* connect()                                                               *)
(***************************************************************************)
AdmitFirst(s) ==
  /\ phase[s] = "new" /\ registry = <<>>
  /\ phase' = [phase EXCEPT ![s] = "accepting"]
  /\ BeginAdmission
  /\ UNCHANGED <<registry, captured, stale, mark>>

\* RoleConnectionConflict: 4429, never registered.
Refuse(s) ==
  /\ phase[s] = "new" /\ registry # <<>> /\ Head(registry) \notin stale
  /\ phase' = [phase EXCEPT ![s] = "refused"]
  /\ UNCHANGED <<registry, captured, stale, mark, crossed>>

\* The prior connection is stale: close it, and wait for the close.
TakeOver(s) ==
  /\ phase[s] = "new" /\ registry # <<>> /\ Head(registry) \in stale
  /\ phase[Head(registry)] \in Served
  /\ phase' = [phase EXCEPT ![s] = "closing", ![Head(registry)] = "closedByServer"]
  /\ captured' = captured \cup {s}
  /\ BeginAdmission
  /\ UNCHANGED <<registry, stale, mark>>

\* It was closed before: close() raises at once, which is ignored.
TakeOverClosed(s) ==
  /\ phase[s] = "new" /\ registry # <<>> /\ Head(registry) \in stale
  /\ phase[Head(registry)] \notin Served
  /\ phase' = [phase EXCEPT ![s] = "replacing"]
  /\ registry' = <<>>
  /\ BeginAdmission
  /\ UNCHANGED <<captured, stale, mark>>

\* Mutant: the entries of the prior connection are left in place.
CloseReturnsKeeps(s) ==
  /\ phase[s] = "closing"
  /\ captured' = captured \ {s}
  /\ phase' = [phase EXCEPT ![s] = "replacing"]
  /\ UNCHANGED <<registry, stale, mark, crossed>>

\* existing.clear(), on the list read before the await: it is not the list of
\* the role any more if a disconnect() has replaced that meanwhile.
CloseReturns(s) ==
  /\ phase[s] = "closing"
  /\ registry' = IF s \in captured THEN <<>> ELSE registry
  /\ captured' = captured \ {s}
  /\ phase' = [phase EXCEPT ![s] = "replacing"]
  /\ UNCHANGED <<stale, mark, crossed>>

\* Mutant: the disconnect mark is cleared when the takeover begins.
AcceptedMarkKept(s) ==
  /\ phase[s] \in {"accepting", "replacing"}
  /\ registry' = Append(registry, s)
  /\ stale' = stale \ {s}
  /\ mark' = IF phase[s] = "replacing" THEN mark ELSE "none"
  /\ phase' = [phase EXCEPT ![s] = IF @ = "replacing" THEN "announcing" ELSE "open"]
  /\ UNCHANGED <<captured, crossed>>

Accepted(s) ==
  /\ phase[s] \in {"accepting", "replacing"}
  /\ registry' = Append(registry, s)
  /\ stale' = stale \ {s}
  /\ mark' = "none"
  /\ phase' = [phase EXCEPT ![s] = IF @ = "replacing" THEN "announcing" ELSE "open"]
  /\ UNCHANGED <<captured, crossed>>

\* The peer left during the handshake; no disconnect() is called for it.
AcceptFails(s) ==
  /\ phase[s] \in {"accepting", "replacing"}
  /\ phase' = [phase EXCEPT ![s] = "failed"]
  /\ UNCHANGED <<registry, captured, stale, mark, crossed>>

-----------------------------------------------------------------------------
(***************************************************************************)
(* The rest of session_ws.                                                 *)
(***************************************************************************)
\* The takeover is audited and broadcast to the other roles.
Announce(s) ==
  /\ phase[s] = "announcing"
  /\ phase' = [phase EXCEPT ![s] = "open"]
  /\ UNCHANGED <<registry, captured, stale, mark, crossed>>

Frame(s) ==
  /\ phase[s] = "open" /\ s \in stale
  /\ stale' = IF s \in Registered THEN stale \ {s} ELSE stale
  /\ UNCHANGED <<registry, phase, captured, mark, crossed>>

\* A revocation closes the registered sockets; their handlers notice later.
CloseLive(s) ==
  /\ phase[s] \in Served /\ s \in Registered
  /\ phase' = [phase EXCEPT ![s] = "closedByServer"]
  /\ UNCHANGED <<registry, captured, stale, mark, crossed>>

\* A broadcast that raises leaves session_ws, and so does the answer to a
\* frame that was read before the close by the server completed.
HandlerDies(s) ==
  /\ phase[s] \in Reporting
  /\ stale' = IF phase[s] = "closedByServer" /\ s \in Registered THEN stale \ {s} ELSE stale
  /\ phase' = [phase EXCEPT ![s] = "dead"]
  /\ UNCHANGED <<registry, captured, mark, crossed>>

\* Mutant: the mark of an absent role is set only when a socket leaves that
\* the role was held by.
DisconnectHolder(s) ==
  LET remaining == Without(s)
  IN /\ phase[s] \in {"open", "closedByServer"}
     /\ phase' = [phase EXCEPT ![s] = "closed"]
     /\ registry' = remaining /\ captured' = {}
     /\ mark' = IF remaining = <<>> /\ s \in Registered THEN "pending" ELSE mark
     /\ UNCHANGED <<stale, crossed>>

Disconnect(s) ==
  LET remaining == Without(s)
  IN /\ phase[s] \in {"open", "closedByServer"}
     /\ phase' = [phase EXCEPT ![s] = "closed"]
     /\ registry' = remaining /\ captured' = {}
     /\ mark' = IF remaining = <<>> THEN "pending" ELSE mark
     /\ crossed' = (crossed \/ (captured # {} /\ s \notin Registered))
     /\ UNCHANGED stale

\* HEARTBEAT_STALE_MS without a frame; DISCONNECT_GRACE_MS since the mark.
GoesStale(s) ==
  /\ s \in Registered \ stale
  /\ stale' = stale \cup {s}
  /\ UNCHANGED <<registry, phase, captured, mark, crossed>>

GraceExpires ==
  /\ mark = "pending"
  /\ mark' = "expired"
  /\ UNCHANGED <<registry, phase, captured, stale, crossed>>

Init ==
  /\ registry = <<>>
  /\ phase = [s \in Sockets |-> "new"]
  /\ captured = {} /\ stale = {} /\ mark = "none" /\ crossed = FALSE

Next ==
  \/ GraceExpires
  \/ \E s \in Sockets :
       \/ AdmitFirst(s) \/ Refuse(s) \/ TakeOver(s) \/ TakeOverClosed(s)
       \/ CloseReturns(s) \/ Accepted(s) \/ AcceptFails(s)
       \/ Announce(s) \/ Frame(s) \/ CloseLive(s) \/ HandlerDies(s) \/ Disconnect(s) \/ GoesStale(s)

Spec == Init /\ [][Next]_vars

\* The loop runs every handler on; a closed socket is reported to its handler
\* in the end; clocks advance.
Fairness ==
  /\ WF_vars(GraceExpires)
  /\ \A s \in Sockets :
       /\ WF_vars(CloseReturns(s)) /\ WF_vars(Accepted(s) \/ AcceptFails(s))
       /\ WF_vars(Announce(s)) /\ WF_vars(GoesStale(s))
       /\ WF_vars(phase[s] = "closedByServer" /\ Disconnect(s))

FairSpec == Spec /\ Fairness
-----------------------------------------------------------------------------
TypeOK ==
  /\ registry \in Seq(Sockets)
  /\ \A i, j \in DOMAIN registry : registry[i] = registry[j] => i = j
  /\ phase \in [Sockets -> Phases]
  /\ \A i \in DOMAIN registry : phase[registry[i]] \in Reporting \cup {"dead"}
  /\ captured \subseteq In({"closing"})
  /\ stale \subseteq Sockets
  /\ mark \in {"none", "pending", "expired"} /\ crossed \in BOOLEAN

\* As long as nothing crossed an admission, a takeover leaves a single entry
\* (ADR-0001 section 9) ...
SingleHolder == ~crossed => Len(registry) <= 1

\* ... and a socket whose frames are handled is the one that broadcasts go to
\* and whose heartbeats count: the disconnect() of a displaced socket does not
\* remove its successor.
ServedIsRegistered == ~crossed => In(Served) \subseteq Registered

\* A role that is back carries no disconnect mark, whatever its displaced
\* sockets report while its own accept is in flight (websocket.py:377).
MarkMeansEmpty == mark # "none" => registry = <<>>

\* When all sockets a role ever had are gone and their handlers have said so,
\* the clock of ADR-0002 section 8 has been started.
AbsenceIsMarked ==
  (registry = <<>> /\ In(Admitting \cup Reporting \cup {"dead"}) = {} /\ In({"closed"}) # {})
    => mark # "none"

\* lost_critical_roles, for this role.
Lost == IF registry = <<>> THEN mark = "expired" ELSE Registered \subseteq stale

Gone == /\ In(Admitting) = {} /\ In(Served) \subseteq stale
        /\ In(Reporting \cup {"dead", "closed"}) # {}

\* The one hole: a handler died, its entry was cleared by a takeover, and that
\* one failed in its handshake.
Unreported == In({"dead"}) # {} /\ registry = <<>> /\ mark = "none"

\* A role that is gone for good is found lost: its socket goes stale, or its
\* disconnect is marked and the grace expires, even through takeovers that
\* overlap, fail, or meet a handler that died.
AbsenceIsNoticed == (Gone /\ ~Unreported) ~> (Lost \/ ~Gone \/ Unreported)

\* websocket.py:1849: a live connection must not be silently evicted by a new
\* one for the same role.
LiveNotEvicted ==
  [][\A s \in Registered \ stale : phase[s] \in Served /\ phase'[s] \in Served
       => s \in ToSet(registry')]_vars
=============================================================================
