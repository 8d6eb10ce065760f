-------------------------- MODULE RealtimeSession --------------------------
(***************************************************************************)
(* One session of the realtime layer (server/app/websocket.py) with its    *)
(* row and event log (server/app/models.py) and the two clients that write *)
(* to it (apps/wizard useSessionSocket, apps/student useStudentSocket).    *)
(*                                                                         *)
(* The event loop handles one frame at a time: `h` is its program counter, *)
(* with one step per database access, so that POST /end (which runs in a   *)
(* worker thread), a crash and a database failure can fall between any two *)
(* of them.  A row transaction of models.py reads the row, computes in     *)
(* Python and writes the result back: SQLite starts its write transaction  *)
(* at the first DML statement, so the read is not protected.               *)
(***************************************************************************)
EXTENDS Integers, Sequences, FiniteSets

CONSTANTS
  Roles,        \* the single-connection roles whose clients take part
  Emits,        \* which message types each role's client sends
  MaxEvents,    \* bound: messages the clients author
  MaxFaults,    \* bound: database calls that fail and sends that raise
  MaxRestarts,  \* bound: server crashes
  MaxReloads,   \* bound: page reloads, or a new device taking over a role
  MaxDrops      \* bound: sockets that close or go silent; negative: no bound

Lifecycle  == {"session_started", "session_paused", "session_resumed", "session_ended"}
ShortLived == {"clip_command", "session_paused", "request_fallback"}
Types      == Lifecycle \cup ShortLived \cup {"clip_started", "uncovered_question"}
Bumping    == Types \ {"uncovered_question"}

ASSUME ConstantsOK ==
  /\ Roles \subseteq {"student", "wizard"} /\ "wizard" \in Roles
  /\ Emits \in [Roles -> SUBSET Types]
  /\ MaxEvents \in Nat /\ MaxFaults \in Nat
  /\ MaxRestarts \in Nat /\ MaxReloads \in Nat /\ MaxDrops \in Int

VARIABLES
  row,        \* sessions row: [status, rev]
  revoked,    \* the live tokens were revoked by POST /end
  events,     \* ids of the durable event rows
  mem,        \* SessionSnapshot: [state, due, rev]
  processed,  \* _processed_event_ids of this process
  h,          \* the event loop: [pc, kind, role, ev, tx, next]
  rest,       \* POST /end in its worker thread: [pc, rev]
  issued,     \* every message authored so far; a message's id is its index
  client,     \* per role: [seq, rev, pending, admitted]
  wire,       \* per role: ids sent on the current socket, not yet received
  presence,   \* per role: what the connection manager knows of its socket
  grace,      \* roles whose delayed disconnect check has not run yet
  acks,       \* history: ids answered "accepted", "duplicate", "rejected"
  applied,    \* history: how often each id changed the snapshot
  moves,      \* history: how often each id moved the row
  budget      \* what is left of the bounds: [faults, restarts, reloads, drops]

dbVars     == <<row, revoked, events>>
memVars    == <<mem, processed>>
clientVars == <<issued, client, wire, presence, grace>>
histVars   == <<acks, applied, moves>>
vars == <<dbVars, memVars, h, rest, clientVars, histVars, budget>>

Ids    == 1 .. Len(issued)
Frames == [role : Roles \cup {"server"}, type : Types, seq : Nat, rev : Nat]
Rows   == [status : {"created", "starting", "active", "paused", "ended"}, rev : Nat]

Larger(a, b) == IF a < b THEN b ELSE a

(***************************************************************************)
(* The lifecycle contract of models.py, as the handler preflights it and   *)
(* as the transition functions enforce it again on a fresh read.           *)
(***************************************************************************)
Row == INSTANCE SessionRow WITH status <- row.status, revision <- row.rev

\* Mutant: the scheduled start gets a status of its own.
TargetStarted(type) ==
  CASE type = "session_started" -> "started"
    [] type = "session_paused"  -> "paused"
    [] type = "session_resumed" -> "active"
    [] type = "session_ended"   -> "ended"

Target(type) ==
  CASE type = "session_started" -> "starting"
    [] type = "session_paused"  -> "paused"
    [] type = "session_resumed" -> "active"
    [] type = "session_ended"   -> "ended"

\* Mutant: a session may be resumed whatever its status.
LegalResume(status, type) ==
  \/ type = "session_resumed" /\ status # "ended"
  \/ type = "session_ended" /\ status = "ended"
  \/ type = "session_started" /\ status = "created"
  \/ /\ type \in {"session_paused", "session_ended"}
     /\ Target(type) \in Row!ALLOWED_TRANSITIONS[status]

Legal(status, type) ==
  \/ type = "session_resumed" /\ status = "paused"
  \/ type = "session_ended" /\ status = "ended"
  \/ type = "session_started" /\ status = "created"
  \/ /\ type \in {"session_paused", "session_ended"}
     /\ Target(type) \in Row!ALLOWED_TRANSITIONS[status]

\* Mutant: only the in-memory set recognises a replay.
TakenInProcess(e) == e \in processed

\* append_event finds a stored row with the same key or the same
\* (source, sequence) slot.
Taken(e) ==
  \E d \in events : \/ d = e
                    \/ /\ issued[d].role = issued[e].role
                       /\ issued[d].seq  = issued[e].seq

-----------------------------------------------------------------------------
(***************************************************************************)
(* The event loop.                                                         *)
(***************************************************************************)
NoTx     == [status |-> "created", rev |-> 0]
LoopIdle == [pc |-> "idle", kind |-> "grace", role |-> "wizard", ev |-> 0,
             tx |-> NoTx, next |-> "evaluate"]

At(pc) == h.pc = pc
GoTo(pc) == h' = [h EXCEPT !.pc = pc, !.tx = NoTx, !.next = "evaluate"]

\* The read half of a row transaction.
ReadRow(pc, next) == h' = [h EXCEPT !.pc = pc, !.tx = row, !.next = next]

WriteRow(target) == row' = [status |-> target, rev |-> h.tx.rev + 1]

Fault == /\ budget.faults > 0
         /\ budget' = [budget EXCEPT !.faults = @ - 1]

Live == row.status # "ended" /\ ~revoked
Lost == {r \in Roles : presence[r] \in {"lost", "stale", "orphanStale"}}

\* A socket delivers its frames in the order they were sent.
\* session_ws + the first lines of _handle_message: a frame on a live socket.
Inbound(r, kind, e) ==
  /\ At("idle") /\ Live
  /\ presence[r] \in {"up", "stale"}
  /\ presence' = [presence EXCEPT ![r] = "up"]
  /\ h' = [LoopIdle EXCEPT !.pc = "evaluate", !.kind = kind, !.role = r, !.ev = e]
  /\ UNCHANGED <<dbVars, memVars, rest, issued, client, grace, histVars, budget>>

Receive(r) ==
  /\ wire[r] # <<>>
  /\ wire' = [wire EXCEPT ![r] = Tail(@)]
  /\ Inbound(r, "event", Head(wire[r]))

\* reconnect_hello: the first frame on a socket, and every resync.
Hello(r) ==
  /\ wire[r] = <<>>
  /\ ~client[r].admitted \/ client[r].rev # mem.rev
  /\ Inbound(r, "hello", 0) /\ UNCHANGED wire

Ping(r) ==
  /\ wire[r] = <<>> /\ client[r].admitted
  /\ Inbound(r, "ping", 0) /\ UNCHANGED wire

\* _live_socket_rejection: the session has ended or the token was revoked.
RefuseFrame(r) ==
  /\ At("idle") /\ ~Live
  /\ presence[r] \in {"up", "stale"}
  /\ presence' = [presence EXCEPT ![r] = "gone"] /\ grace' = grace \cup {r}
  /\ wire' = [wire EXCEPT ![r] = <<>>]
  /\ client' = [client EXCEPT ![r].admitted = FALSE]
  /\ UNCHANGED <<dbVars, memVars, h, rest, issued, histVars, budget>>

\* Mutant: the grace task marks the role lost and leaves the pause to the
\* next inbound frame.
GraceMarkOnly(r) ==
  /\ At("idle")
  /\ r \in grace /\ grace' = grace \ {r}
  /\ presence' = [presence EXCEPT ![r] = IF @ = "gone" THEN "lost" ELSE @]
  /\ UNCHANGED <<dbVars, memVars, h, rest, issued, client, wire, histVars, budget>>

\* _delayed_disconnect_pause_check, DISCONNECT_GRACE_MS after the last
\* disconnect of r.  A reconnection does not cancel it.
GraceCheck(r) ==
  /\ At("idle")
  /\ r \in grace /\ grace' = grace \ {r}
  /\ presence' = [presence EXCEPT ![r] = IF @ = "gone" THEN "lost" ELSE @]
  /\ h' = [LoopIdle EXCEPT !.pc = "evaluate", !.role = r]
  /\ UNCHANGED <<dbVars, memVars, rest, issued, client, wire, histVars, budget>>

(***************************************************************************)
(* _resolve_scheduled_start: memory first, then the row.                   *)
(***************************************************************************)
Active(m) == [m EXCEPT !.state = "active", !.due = FALSE]

\* SessionSnapshot.resolve_scheduled_start, which touches memory only.
ResolvedInMemory == IF mem.state = "starting" /\ mem.due THEN Active(mem) ELSE mem

Resolves == /\ mem.state = "starting" /\ mem.due
            /\ \/ At("evaluate") /\ Lost # {}
               \/ /\ At("dispatch") /\ h.kind \in {"hello", "event"}
                  /\ ~(h.kind = "event" /\ h.ev \in processed
                       /\ issued[h.ev].type = "request_fallback")

ResolveStart ==
  /\ Resolves
  /\ mem' = Active(mem)
  /\ IF row.status \in {"created", "starting"}
       THEN ReadRow("resolving", h.pc)
       ELSE UNCHANGED h
  /\ UNCHANGED <<dbVars, processed, rest, clientVars, histVars, budget>>

ResolveCommit ==
  /\ At("resolving")
  /\ WriteRow("active")
  /\ GoTo(h.next)
  /\ UNCHANGED <<revoked, events, memVars, rest, clientVars, histVars, budget>>

\* The failure is logged; memory stays active and the row stays starting.
ResolveFail ==
  /\ At("resolving") /\ Fault
  /\ GoTo(h.next)
  /\ UNCHANGED <<dbVars, memVars, rest, clientVars, histVars>>

(***************************************************************************)
(* _evaluate_lost_critical_roles and _pause_for_network_failure.           *)
(***************************************************************************)
NothingToPause ==
  /\ At("evaluate") /\ ~Resolves
  /\ ~(mem.state = "active" /\ Lost # {} /\ row.status = "active")
  /\ GoTo("dispatch")
  /\ UNCHANGED <<dbVars, memVars, rest, clientVars, histVars, budget>>

AutoPauseBegin ==
  /\ At("evaluate")
  /\ mem.state = "active" /\ Lost # {} /\ row.status = "active"
  /\ ReadRow("pausing", "evaluate")
  /\ UNCHANGED <<dbVars, memVars, rest, clientVars, histVars, budget>>

AutoPauseCommit ==
  /\ At("pausing")
  /\ WriteRow("paused")
  /\ h' = [h EXCEPT !.pc = "pauseEvent"]
  /\ UNCHANGED <<revoked, events, memVars, rest, clientVars, histVars, budget>>

AutoPauseFail ==
  /\ At("pausing") /\ Fault
  /\ GoTo("dispatch")
  /\ UNCHANGED <<dbVars, memVars, rest, clientVars, histVars>>

\* What leaves the registered socket of r without a handler: an exception
\* that session_ws does not catch never reaches manager.disconnect.
Orphaned(r) ==
  /\ presence' = [presence EXCEPT ![r] = IF @ = "stale" THEN "orphanStale" ELSE "orphan"]
  /\ client' = [client EXCEPT ![r].admitted = FALSE]
  /\ wire' = [wire EXCEPT ![r] = <<>>]

\* The reads of get_session and of _next_server_sequence are in no try: the
\* frame in hand is lost with its handler (a grace task only logs it).
HandlerDies ==
  /\ \/ At("evaluate") /\ ~Resolves /\ mem.state = "active" /\ Lost # {}
     \/ At("pauseEvent")
  /\ Fault
  /\ IF h.kind # "grace" /\ presence[h.role] \in {"up", "stale"}
       THEN Orphaned(h.role)
       ELSE UNCHANGED <<presence, client, wire>>
  /\ h' = LoopIdle
  /\ UNCHANGED <<dbVars, memVars, rest, issued, grace, histVars>>

ServerRows == {d \in events : issued[d].role = "server"}

\* Mutant: the automatic pause reaches the row and not the snapshot's state.
PausedRevOnly == [mem EXCEPT !.rev = Larger(@ + 1, h.tx.rev + 1)]

PausedInMemory ==
  [mem EXCEPT !.state = "paused", !.due = FALSE, !.rev = Larger(@ + 1, h.tx.rev + 1)]

\* The timeline event is best effort; the pause itself is already durable.
AutoPauseEvent ==
  LET id == Len(issued) + 1
  IN /\ At("pauseEvent")
     /\ issued' = Append(issued, [role |-> "server", type |-> "session_paused",
                                  seq |-> Cardinality(ServerRows), rev |-> mem.rev])
     /\ \/ events' = events \cup {id} /\ UNCHANGED budget
        \/ Fault /\ UNCHANGED events
     /\ mem' = PausedInMemory
     /\ processed' = processed \cup {id}
     /\ applied' = Append(applied, 1) /\ moves' = Append(moves, 1)
     /\ GoTo("dispatch")
     /\ UNCHANGED <<row, revoked, rest, client, wire, presence, grace, acks>>

(***************************************************************************)
(* The answer to a frame.  An ACK written to a socket that is gone is      *)
(* lost.  The client forgets the frame on any ACK, and mirrors the bump of *)
(* an accepted event it still tracks (not of a fallback, whose bump comes  *)
(* with the broadcast).                                                    *)
(***************************************************************************)
Reply(answer) ==
  LET r == h.role
      f == issued[h.ev]
      mirrored == /\ answer = "accepted" /\ h.ev \in client[r].pending
                  /\ f.role = "wizard" /\ f.type \in Bumping \ {"request_fallback"}
  IN /\ acks' = [acks EXCEPT ![answer] = @ \cup {h.ev}]
     /\ client' = IF presence[r] = "up" /\ client[r].admitted
                    THEN [client EXCEPT ![r].pending = @ \ {h.ev},
                                        ![r].rev = IF mirrored THEN @ + 1 ELSE @]
                    ELSE client
     /\ h' = LoopIdle
     /\ UNCHANGED <<revoked, rest, issued, wire, presence, grace>>

FinishCheck ==
  /\ At("dispatch") /\ h.kind \in {"ping", "grace"}
  /\ h' = LoopIdle
  /\ UNCHANGED <<dbVars, memVars, rest, clientVars, histVars, budget>>

\* Snapshot first, then the client replays what was never answered.  The
\* Wizard drops its short-lived commands instead of replaying them.
\* to_message reads the clock again: a start that comes due between that
\* and _resolve_scheduled_start becomes active in memory alone.
Replayed(r) == {e \in client[r].pending : issued[e].type \notin ShortLived}

\* Mutants: the client replays its newest event first; it replays nothing.
NewestFirst(S) ==
  {q \in [1 .. Cardinality(S) -> S] : \A i, j \in DOMAIN q : i < j => q[i] > q[j]}
NothingResent(S) == {<<>>}

InOrder(S) ==
  {q \in [1 .. Cardinality(S) -> S] : \A i, j \in DOMAIN q : i < j => q[i] < q[j]}

AnswerHello ==
  LET r == h.role
  IN /\ At("dispatch") /\ h.kind = "hello" /\ ~Resolves
     /\ mem' = mem \/ (mem.state = "starting" /\ mem' = Active(mem))
     /\ IF presence[r] = "up"
          THEN /\ client' = [client EXCEPT ![r].rev = mem.rev, ![r].admitted = TRUE,
                                           ![r].pending = Replayed(r)]
               /\ \E q \in IF client[r].admitted THEN {wire[r]} ELSE InOrder(Replayed(r)) :
                    wire' = [wire EXCEPT ![r] = q]
          ELSE UNCHANGED <<client, wire>>
     /\ h' = LoopIdle
     /\ UNCHANGED <<dbVars, processed, rest, issued, presence, grace, histVars, budget>>

(***************************************************************************)
(* The envelope path of _handle_message and _handle_request_fallback.      *)
(***************************************************************************)
Handling == At("dispatch") /\ h.kind = "event" /\ ~Resolves

Refused(f) ==
  \/ f.type \in ShortLived /\ f.rev < mem.rev
  \/ f.type = "request_fallback" /\ mem.state = "paused"
  \/ /\ f.type \in {"session_started", "uncovered_question", "request_fallback"}
     /\ f.role # "wizard"

AckDuplicate ==
  /\ Handling /\ h.ev \in processed
  /\ Reply("duplicate")
  /\ UNCHANGED <<row, events, memVars, applied, moves, budget>>

\* Refused by validation (a short-lived command may also have expired), or
\* because the row read by the preflight does not allow the transition.
AckRejected ==
  /\ Handling /\ h.ev \notin processed
  /\ LET f == issued[h.ev]
     IN \/ Refused(f) \/ f.type \in ShortLived
        \/ f.type \in Lifecycle /\ ~Legal(row.status, f.type)
  /\ Reply("rejected")
  /\ UNCHANGED <<row, events, memVars, applied, moves, budget>>

PreflightFail ==
  /\ Handling /\ h.ev \notin processed
  /\ issued[h.ev].type \in Lifecycle /\ ~Refused(issued[h.ev])
  /\ Fault /\ Reply("rejected")
  /\ UNCHANGED <<row, events, memVars, applied, moves>>

Preflight ==
  /\ Handling /\ h.ev \notin processed
  /\ ~Refused(issued[h.ev])
  /\ issued[h.ev].type \in Lifecycle => Legal(row.status, issued[h.ev].type)
  /\ GoTo("checked")
  /\ UNCHANGED <<dbVars, memVars, rest, clientVars, histVars, budget>>

PersistDuplicate ==
  /\ At("checked") /\ Taken(h.ev)
  /\ processed' = processed \cup {h.ev}
  /\ Reply("duplicate")
  /\ UNCHANGED <<row, events, mem, applied, moves, budget>>

Persist ==
  /\ At("checked") /\ ~Taken(h.ev)
  /\ events' = events \cup {h.ev}
  /\ GoTo(IF issued[h.ev].type \in Lifecycle THEN "persisted" ELSE "apply")
  /\ UNCHANGED <<row, revoked, memVars, rest, clientVars, histVars, budget>>

\* Mutant: an event is marked processed before it is stored.
PersistFailMarked ==
  /\ At("checked") /\ Fault
  /\ processed' = processed \cup {h.ev}
  /\ Reply("rejected")
  /\ UNCHANGED <<row, events, mem, applied, moves>>

PersistFail ==
  /\ At("checked") /\ Fault
  /\ Reply("rejected")
  /\ UNCHANGED <<row, events, memVars, applied, moves>>

\* _sync_lifecycle_to_db: a second transaction, on a fresh read of the row.
SyncBegin ==
  /\ At("persisted") /\ Legal(row.status, issued[h.ev].type)
  /\ ReadRow("syncing", "evaluate")
  /\ UNCHANGED <<dbVars, memVars, rest, clientVars, histVars, budget>>

SyncRefused ==
  /\ At("persisted") /\ ~Legal(row.status, issued[h.ev].type)
  /\ Reply("rejected")
  /\ UNCHANGED <<row, events, memVars, applied, moves, budget>>

SyncCommit ==
  /\ At("syncing")
  /\ IF h.tx.status = "ended" THEN UNCHANGED row   \* end_session is idempotent
                              ELSE WriteRow(Target(issued[h.ev].type))
  /\ moves' = [moves EXCEPT ![h.ev] = @ + 1]
  /\ h' = [h EXCEPT !.pc = "apply", !.tx.rev =
             IF h.tx.status = "ended" THEN @ ELSE @ + 1]
  /\ UNCHANGED <<revoked, events, memVars, rest, clientVars, acks, applied, budget>>

\* Mutant: a failed transition is logged and the event accepted, as
\* _resolve_scheduled_start does with its own.
SyncFailSwallowed ==
  /\ At("syncing") /\ Fault
  /\ h' = [h EXCEPT !.pc = "apply"]
  /\ UNCHANGED <<dbVars, memVars, rest, clientVars, histVars>>

SyncFail ==
  /\ At("syncing") /\ Fault
  /\ Reply("rejected")
  /\ UNCHANGED <<row, events, memVars, applied, moves>>

\* Mutant: the row's revision is assigned instead of adopted by maximum.
UpdatedByRow(f) ==
  LET m == ResolvedInMemory
      n == IF f.type \in Bumping THEN [m EXCEPT !.rev = @ + 1] ELSE m
  IN IF f.type \in Lifecycle
       THEN [n EXCEPT !.state = Target(f.type), !.due = FALSE, !.rev = h.tx.rev]
       ELSE n

\* _schedule_session_start, _apply_snapshot_update and _adopt_db_revision.
Updated(f) ==
  LET m == ResolvedInMemory
      n == IF f.type \in Bumping THEN [m EXCEPT !.rev = @ + 1] ELSE m
  IN IF f.type \in Lifecycle
       THEN [n EXCEPT !.state = Target(f.type), !.due = FALSE, !.rev = Larger(@, h.tx.rev)]
       ELSE n

Apply ==
  LET f == issued[h.ev]
  IN /\ At("apply")
     /\ mem' = Updated(f)
     /\ processed' = processed \cup {h.ev}
     /\ applied' = [applied EXCEPT ![h.ev] = @ + 1]
     /\ Reply("accepted")
     /\ UNCHANGED <<row, events, moves, budget>>

-----------------------------------------------------------------------------
(***************************************************************************)
(* POST /sessions/{id}/end, in a worker thread of its own.                 *)
(***************************************************************************)
RestEndBegin ==
  /\ rest.pc = "idle" /\ row.status # "ended" /\ ~revoked
  /\ rest' = [pc |-> "ending", rev |-> row.rev]
  /\ UNCHANGED <<dbVars, memVars, h, clientVars, histVars, budget>>

RestEndCommit ==
  /\ rest.pc = "ending"
  /\ row' = [status |-> "ended", rev |-> rest.rev + 1]
  /\ revoked' = TRUE
  /\ rest' = [pc |-> "idle", rev |-> 0]
  /\ UNCHANGED <<events, memVars, h, clientVars, histVars, budget>>

-----------------------------------------------------------------------------
(***************************************************************************)
(* The clients, the network, the clock and the process.                    *)
(***************************************************************************)
Authored == {e \in 1 .. Len(issued) : issued[e].role # "server"}

\* Mutant: the client mirrors the bump when it sends, not when it is told
\* "accepted".
SendBumping(r, type) ==
  LET id == Len(issued) + 1
  IN /\ Cardinality(Authored) < MaxEvents
     /\ client[r].admitted /\ presence[r] \in {"up", "stale"}
     /\ type \in Emits[r]
     /\ issued' = Append(issued, [role |-> r, type |-> type, seq |-> client[r].seq,
                                  rev |-> client[r].rev])
     /\ client' = [client EXCEPT ![r].seq = @ + 1, ![r].pending = @ \cup {id},
                                 ![r].rev = @ + 1]
     /\ wire' = [wire EXCEPT ![r] = Append(@, id)]
     /\ applied' = Append(applied, 0) /\ moves' = Append(moves, 0)
     /\ UNCHANGED <<dbVars, memVars, h, rest, presence, grace, acks, budget>>

Send(r, type) ==
  LET id == Len(issued) + 1
  IN /\ Cardinality(Authored) < MaxEvents
     /\ client[r].admitted /\ presence[r] \in {"up", "stale"}
     /\ type \in Emits[r]
     /\ issued' = Append(issued, [role |-> r, type |-> type, seq |-> client[r].seq,
                                  rev |-> client[r].rev])
     /\ client' = [client EXCEPT ![r].seq = @ + 1, ![r].pending = @ \cup {id}]
     /\ wire' = [wire EXCEPT ![r] = Append(@, id)]
     /\ applied' = Append(applied, 0) /\ moves' = Append(moves, 0)
     /\ UNCHANGED <<dbVars, memVars, h, rest, presence, grace, acks, budget>>

\* A socket is admitted, or replaces the role's stale one, whose handler then
\* schedules a check; while the entry of the old one is not stale the new one
\* is refused with 4429.
Connect(r) ==
  /\ At("idle") /\ Live
  /\ presence[r] \notin {"up", "orphan"}
  /\ presence' = [presence EXCEPT ![r] = "up"]
  /\ grace' = IF presence[r] = "stale" THEN grace \cup {r} ELSE grace
  /\ client' = [client EXCEPT ![r].admitted = FALSE]
  /\ wire' = [wire EXCEPT ![r] = <<>>]
  /\ UNCHANGED <<dbVars, memVars, h, rest, issued, histVars, budget>>

Drop(r, c) ==
  /\ presence[r] \in {"up", "stale"}
  /\ presence' = [presence EXCEPT ![r] = "gone"] /\ grace' = grace \cup {r}
  /\ client' = [client EXCEPT ![r] = c]
  /\ wire' = [wire EXCEPT ![r] = <<>>]
  /\ UNCHANGED <<dbVars, memVars, h, rest, issued, histVars>>

SpendDrop == /\ budget.drops # 0
             /\ budget' = [budget EXCEPT !.drops = IF @ < 0 THEN @ ELSE @ - 1]

Disconnect(r) == Drop(r, [client[r] EXCEPT !.admitted = FALSE]) /\ SpendDrop

\* A reloaded page, or the device that takes the role over, counts its
\* sequence from 0 again and has nothing pending.
NewClient == [seq |-> 0, rev |-> 0, pending |-> {}, admitted |-> FALSE]
Reload(r) ==
  /\ budget.reloads > 0
  /\ budget' = [budget EXCEPT !.reloads = @ - 1]
  /\ Drop(r, NewClient)

\* HEARTBEAT_STALE_MS pass without a frame on a socket that looks open.
Silence(r) ==
  /\ At("idle") /\ presence[r] \in {"up", "orphan"}
  /\ presence' = [presence EXCEPT ![r] = IF @ = "up" THEN "stale" ELSE "orphanStale"]
  /\ IF presence[r] = "up" THEN SpendDrop ELSE UNCHANGED budget
  /\ UNCHANGED <<dbVars, memVars, h, rest, issued, client, wire, grace, histVars>>

\* A broadcast to a peer that is being closed raises RuntimeError in the
\* handler of the sender, after its frame was answered.
SendRaises(r) ==
  /\ At("idle") /\ presence[r] = "up" /\ Fault
  /\ Orphaned(r)
  /\ UNCHANGED <<dbVars, memVars, h, rest, issued, grace, histVars>>

StartComesDue ==
  /\ mem.state = "starting" /\ ~mem.due
  /\ mem' = [mem EXCEPT !.due = TRUE]
  /\ UNCHANGED <<dbVars, processed, h, rest, clientVars, histVars, budget>>

FreshSnapshot == [state |-> "created", due |-> FALSE, rev |-> 0]

\* The process dies and comes back with nothing but the database.
Restart ==
  /\ budget.restarts > 0
  /\ budget' = [budget EXCEPT !.restarts = @ - 1]
  /\ mem' = FreshSnapshot
  /\ processed' = {}
  /\ h' = LoopIdle /\ rest' = [pc |-> "idle", rev |-> 0]
  /\ presence' = [r \in Roles |-> "never"] /\ grace' = {}
  /\ client' = [r \in Roles |-> [client[r] EXCEPT !.admitted = FALSE]]
  /\ wire' = [r \in Roles |-> <<>>]
  /\ UNCHANGED <<dbVars, issued, acks, applied, moves>>

-----------------------------------------------------------------------------
Init ==
  /\ row = [status |-> "created", rev |-> 0]
  /\ revoked = FALSE /\ events = {}
  /\ mem = FreshSnapshot /\ processed = {}
  /\ h = LoopIdle /\ rest = [pc |-> "idle", rev |-> 0]
  /\ issued = <<>>
  /\ client = [r \in Roles |-> NewClient]
  /\ wire = [r \in Roles |-> <<>>]
  /\ presence = [r \in Roles |-> "never"] /\ grace = {}
  /\ acks = [a \in {"accepted", "duplicate", "rejected"} |-> {}]
  /\ applied = <<>> /\ moves = <<>>
  /\ budget = [faults |-> MaxFaults, restarts |-> MaxRestarts, reloads |-> MaxReloads,
               drops |-> MaxDrops]

\* One step of the frame or check in hand; between two frames none is enabled.
LoopStep ==
  \/ ResolveStart \/ ResolveCommit \/ ResolveFail
  \/ NothingToPause \/ AutoPauseBegin \/ AutoPauseCommit \/ AutoPauseFail \/ AutoPauseEvent
  \/ HandlerDies
  \/ FinishCheck \/ AnswerHello
  \/ AckDuplicate \/ AckRejected \/ PreflightFail \/ Preflight
  \/ PersistDuplicate \/ Persist \/ PersistFail
  \/ SyncBegin \/ SyncRefused \/ SyncCommit \/ SyncFail \/ Apply

Next ==
  \/ LoopStep
  \/ RestEndBegin \/ RestEndCommit
  \/ StartComesDue \/ Restart
  \/ \E r \in Roles :
       \/ Receive(r) \/ Hello(r) \/ Ping(r) \/ RefuseFrame(r) \/ GraceCheck(r)
       \/ Connect(r) \/ Disconnect(r) \/ Reload(r) \/ Silence(r) \/ SendRaises(r)
       \/ \E type \in Types : Send(r, type)

Spec == Init /\ [][Next]_vars

(***************************************************************************)
(* Fairness: the event loop and the worker thread run, a scheduled instant *)
(* comes and a grace task fires.  A client whose socket stays usable gets  *)
(* its frames through, and sends hello when it must and a ping every 10 s, *)
(* well inside the 30 s of HEARTBEAT_STALE_MS; a socket that stays silent  *)
(* is closed in the end by the keepalive of the WebSocket server.          *)
(***************************************************************************)
Up(r) == presence[r] = "up"
Speaks(r) == Up(r) /\ (Receive(r) \/ Hello(r) \/ Ping(r))

Fairness ==
  /\ WF_vars(LoopStep) /\ WF_vars(RestEndCommit) /\ WF_vars(StartComesDue)
  /\ \A r \in Roles :
       /\ SF_vars(GraceCheck(r))
       /\ SF_vars(Speaks(r))
       /\ WF_vars(presence[r] = "stale" /\ Disconnect(r))
       /\ WF_vars(presence[r] = "orphan" /\ Silence(r))

FairSpec == Spec /\ Fairness
-----------------------------------------------------------------------------
(***************************************************************************)
(* What the realtime layer promises.                                       *)
(***************************************************************************)
DbTyped == row \in Rows /\ revoked \in BOOLEAN /\ events \subseteq Ids

Snapshots == [state : Row!SESSION_STATES, due : BOOLEAN, rev : Nat]
MemTyped == mem \in Snapshots /\ processed \subseteq Ids

Pcs == {"idle", "evaluate", "resolving", "pausing", "pauseEvent", "dispatch",
        "checked", "persisted", "syncing", "apply"}
LoopStates == [pc : Pcs, kind : {"grace", "ping", "hello", "event"}, role : Roles,
               ev : Ids \cup {0}, tx : Rows, next : {"evaluate", "dispatch"}]
LoopTyped ==
  /\ h \in LoopStates
  /\ h.kind = "event" => h.ev \in Ids
  /\ h.pc \in {"checked", "persisted", "syncing", "apply"} => h.kind = "event"
  /\ h.pc \in {"persisted", "syncing"} => issued[h.ev].type \in Lifecycle
  /\ rest \in [pc : {"idle", "ending"}, rev : Nat]

Presences == {"never", "up", "stale", "orphan", "orphanStale", "gone", "lost"}
Clients == [seq : Nat, rev : Nat, pending : SUBSET Ids, admitted : BOOLEAN]
ClientsTyped ==
  /\ issued \in Seq(Frames)
  /\ client \in [Roles -> Clients]
  /\ wire \in [Roles -> Seq(Ids)]
  /\ presence \in [Roles -> Presences] /\ grace \subseteq Roles

Budgets == [faults : Nat, restarts : Nat, reloads : Nat, drops : Int]
HistoryTyped ==
  /\ acks \in [{"accepted", "duplicate", "rejected"} -> SUBSET Ids]
  /\ applied \in Seq(Nat) /\ Len(applied) = Len(issued)
  /\ moves \in Seq(Nat) /\ Len(moves) = Len(issued)
  /\ budget \in Budgets

TypeOK == DbTyped /\ MemTyped /\ LoopTyped /\ ClientsTyped /\ HistoryTyped

\* An event is never told "accepted" before its row is durable, its row
\* transition committed and the snapshot changed, and no crash, failure or
\* retry undoes that (ADR-0004 section 4: durable before the ACK).
AcceptedIsDone ==
  \A e \in acks["accepted"] :
    /\ e \in events /\ applied[e] = 1
    /\ issued[e].type \in Lifecycle => moves[e] = 1

\* Replays after a lost ACK, a reconnect or a restart apply nothing twice,
\* neither to the snapshot nor to the session row.
AppliedOnce == \A e \in Ids : applied[e] <= 1 /\ moves[e] <= 1

\* Why the two hold, whatever is lost or retried in between: a frame reaches
\* the server only as a message of the role that authored it, what is not in
\* the log has had no effect, and the frame in hand has had exactly the
\* effects that its program counter says.
Owned ==
  /\ \A r \in Roles : \A e \in client[r].pending : issued[e].role = r
  /\ \A r \in Roles : \A i \in 1 .. Len(wire[r]) : issued[wire[r][i]].role = r
  /\ h.kind = "event" => issued[h.ev].role = h.role
InFlight ==
  /\ h.pc \in {"persisted", "syncing", "apply"} => h.ev \in events /\ applied[h.ev] = 0
  /\ h.pc \in {"persisted", "syncing"} => moves[h.ev] = 0
  /\ h.pc = "apply" /\ issued[h.ev].type \in Lifecycle => moves[h.ev] = 1
Untouched ==
  \A e \in Ids \ events : issued[e].role # "server" => applied[e] = 0 /\ moves[e] = 0
Bookkeeping == Owned /\ InFlight /\ Untouched /\ AcceptedIsDone /\ AppliedOnce

\* Replays keep the order in which a client authored its events: nothing is
\* applied after a later event of the same client.
AppliedInOrder ==
  [][\A e \in Ids : applied'[e] > applied[e]
       => \A d \in e + 1 .. Len(issued) :
            issued[d].role = issued[e].role => applied[d] = 0]_applied

\* The in-memory dedup set never refuses an event whose key and slot are
\* both free in the log: only server pauses are marked without a row.
ProcessedIsTaken ==
  \A e \in processed : Taken(e) \/ issued[e].role = "server"

\* While no database call has failed in this process, the state served to the
\* clients is the state of the row; the one divergence left is a scheduled
\* start that was resolved in memory and did not reach the row.
Undisturbed == budget.restarts = MaxRestarts /\ budget.faults = MaxFaults
MemoryFollowsRow ==
  (At("idle") /\ Undisturbed /\ row.status # "ended")
    => \/ mem.state = row.status
       \/ mem.state = "active" /\ row.status = "starting"

\* An admitted client never holds a revision the server has not reached, so
\* the staleness check of a short-lived command is never void.
ClientNeverAhead ==
  \A r \in Roles : client[r].admitted => client[r].rev <= mem.rev

\* Within a process the snapshot revision never decreases, and every change
\* of state a client was not told the time of beforehand raises it.
RevisionTracksState ==
  [][budget'.restarts = budget.restarts =>
       /\ mem'.rev >= mem.rev
       /\ mem'.state # mem.state /\ ~(mem.state = "starting" /\ mem'.state = "active")
            => mem'.rev > mem.rev]_<<mem, budget>>

\* What a transaction overlaps with is POST /end: it commits after the event
\* loop has read the row, and then the tokens are revoked, or the loop commits
\* after POST /end has read it.  The later commit is computed from the row that
\* was read.
InTx == h.pc \in {"resolving", "pausing", "syncing"}
WriteFrom(read) ==
  /\ row'.status \in Row!ALLOWED_TRANSITIONS[read.status]
  /\ row'.rev = read.rev + 1
OverlapsEnd ==
  \/ InTx /\ h.tx # row /\ revoked /\ WriteFrom(h.tx)
  \/ rest.pc = "ending" /\ rest.rev # row.rev /\ row' = [status |-> "ended", rev |-> rest.rev + 1]

\* Every write of the row is one of the transitions of models.py, whatever the
\* two roles, the server and failures make of the session; only a write that
\* overlaps with POST /end is one of the row its transaction has read, which
\* may no longer be the row (models.py _transition takes no lock to read it).
RowFollowsContract == Row!Init /\ [][Row!Next \/ OverlapsEnd]_(Row!rowVars)

\* A role that is away for good does not leave the row active for good: in
\* the end the session is paused, or POST /end has ended it, whose row a
\* transaction it overlaps may leave active (ADR-0002 section 8).
Away(r) == presence[r] \notin {"never", "up"}
AbsenceEndsActive ==
  \A r \in Roles : (row.status = "active" /\ Away(r))
                     ~> (row.status # "active" \/ ~Away(r) \/ revoked)

\* A frame a connected client has sent is answered in the end: a replay
\* after a lost ACK, a crash or a failed database call does not stay pending.
NothingStaysPending ==
  \A r \in Roles : \A e \in 1 .. MaxEvents :
    (e \in client[r].pending) ~> (e \notin client[r].pending \/ ~Up(r) \/ ~Live)

(***************************************************************************)
(* What comments and documents of the repository say, and TLC refutes with *)
(* the constants section 6 of README.md gives.                             *)
(***************************************************************************)
\* websocket.py:1657: "duplicate" is answered for an event that is durable.
DuplicateIsDurable == acks["duplicate"] \subseteq events

\* models.py:120: ended is terminal.
EndedIsTerminal == [][row.status = "ended" => row'.status = "ended"]_row

\* websocket.py:1386, ADR-0002 section 8: a session served as active is
\* paused when a role is away for good.
ServedActiveIsPaused ==
  \A r \in Roles : (mem.state = "active" /\ Away(r))
                     ~> (mem.state # "active" \/ ~Away(r) \/ ~Live)
=============================================================================
