# MindProbe: a verification project in TLA+

MindProbe is a Wizard-of-Oz interrogation trainer: a *wizard* drives a virtual
suspect that a *student* questions in real time; a FastAPI server keeps the
session (`src/server/app`), and four browser applications talk to it over
WebSocket and HTTP (`src/apps`). This directory holds TLA+ models of the parts
of that system whose correctness depends on interleavings, failures and
restarts, the TLC configurations that check them, and proofs for TLAPS.

Everything below is translated from the source. Comments, ADRs and tests say
something else than the code does in a number of places. Two of them have a
*violation* run (`RJ_latch_lost`, `ST_slice_lost`); the others are listed in
section 6, with the property and the constants by which TLC shows the first four.

## 1. Inventory

| Part | State it keeps | Operations | What is hard | What makes it correct |
|---|---|---|---|---|
| Session row (`models.py` 117-201, 560-997) | `status`, `snapshot_revision`, scheduled start | `create/start/pause/resume/end_session` | read, compute in Python, commit: two transactions overlap (`websocket.py` on the loop, `POST /end` in a worker thread) | only the listed transitions, `ended` is final, one revision per transition |
| Event log (`models.py` 1005-1112) | `events` rows, unique `(session, source, sequence)` | `append_event`, `load_events` | dedup by key *or* slot across processes | durable before the ACK, at most once |
| Realtime handler (`websocket.py` 228-286, 814-1738) | per-session `SessionSnapshot`, `_processed_event_ids`; nothing of it is persisted | one inbound frame at a time: hello, ping, envelope, fallback request; automatic pause; scheduled start | database calls that fail between steps, crash between event row, transition, snapshot and ACK; a start that comes due inside a handler | a reply tells the truth, nothing is applied twice, snapshot and row agree, an absent role pauses the session |
| Connection roles (`websocket.py` 297-436, 1765-1927) | per role: list of entries with heartbeat; disconnect marks | `connect`, `disconnect`, `touch_heartbeat`, `lost_critical_roles`, closing of live sockets | two awaits inside `connect`, displaced sockets that report late, handlers that die | one served holder per role, no absence forgotten, no return forgotten |
| Wizard and student clients (`useSessionSocket.ts`, `useStudentSocket.ts`) | sequence, pending events, local revision | send, ACK, snapshot-first resync with replay, reload | lost ACK, reload with a sequence that starts again at 0 | every event answered, never ahead of the server, replay in order |
| Client socket lifecycle (`packages/shared/src/socketLifecycle.ts`, the hooks `useSessionSocket.ts`, `useStudentSocket.ts`) | current socket, admission, heartbeat, reconnect and start timers, shown status and view | `begin/opened/snapshot/closed/timedOut`; connect, admission, ping and pong, replay, start check, close codes | callbacks of a socket that was given up, a network that dies without a close event, a start whose answer is lost | one live socket, shown as admitted only when it is, admitted again or finally refused, what is shown agrees with the server in the end |
| Recording take (`recording.py`, `recording_integrity.py`) | `recordings` row with a status, chunk rows and files, claim | upload chunk, finalize, claim, operator incomplete, upload-grace sweep | chunk upload, finalize, session end and the sweep race on one row read before | complete only with every chunk; a take is decided once |
| Background jobs (`jobs.py`) | `jobs` rows, lease, worker thread | enqueue, claim, recover, reconcile, run, finish | crash of a worker, lease expiry, cancel | a job is run to the end or retried, and not by two workers |
| Join codes, session tokens, revocation (`models.py` 623-800, 1208-1460; `auth.py`) | code rows, revoked hashes in the audit log | issue, consume, reissue, revoke | conditional update, listeners after commit | one device per code |
| Upload codes and grants (`models.py` 821-925; `auth.py` 192-231) | code and grant rows | issue, consume, grace | clock against deadlines | a late upload is accepted exactly within the grace |
| Review login (`packages/shared/src/reviewSession.ts`, teacher `api.ts`, `App.tsx`; `main.py` and `models.py` 1473-1647) | the tokens in the memory of a document and in `sessionStorage`; the chain of grants | login, refresh, logout, revoke; reload, duplicate, back/forward | a refresh token may be used once, and the browser copies `sessionStorage` and keeps documents | one holder of a refresh token, reuse only after a reload, no cleared login comes back |
| Student recorder and upload queue (`recordingController.ts`, `useMediaRecorder.ts`, `uploadQueue.ts`, `recordingDb.ts`) | `recording_meta` row and slices in IndexedDB, Web Lock, the recorder and the timers of each tab | start with its claim, slices, stop, interruption, reconcile, pump, finalize, purge, upload code | two tabs and one row; revocation between two awaits; a tab killed at any point; writes and answers that fail | a declaration covers every slice, nothing is lost that was stored, a verdict stands, a revoked tab stops |
| Case content (`cases.py`) | JSON files, read only | lookup of clips | none: pure lookup | |
| Clock synchronisation (`websocket.py`, ADR-0003) | offset per connection | median of samples | none concurrent | |
| Teacher and op consoles, deployment scripts | views, shell scripts | HTTP forms | pure I/O | |

How they interact: a client frame reaches `session_ws`, which re-checks that
the session is live and hands it to `_handle_message`; this may first pause the
session for a lost role or resolve a scheduled start, then validates the frame
against the snapshot, appends the event row (transaction 1), moves the session
row (transaction 2), changes the snapshot, broadcasts and ACKs. `POST /end`
writes the same row from another thread, revokes the tokens and asks the loop
to close the sockets. Connection changes feed back into the handler only
through `lost_critical_roles` and the delayed check after a disconnect.

`PROJECT.json` lists every part with its status and every hazard at its line.

## 2. Plan

Most important first; row 7 is what is left.

| # | Modules | Abstract specification | Runs | Theorems |
|---|---|---|---|---|
| 1 | `SessionRow`, `RealtimeSession` | `SessionRow` is the contract of the row that `RealtimeSession` implements | `RT_*` (3) | typing, bookkeeping invariant, at-most-once, revision, refinement, memory and row, order |
| 2 | `RoleConnections` | none: its predicates are those `RealtimeSession` assumes of a role | `RC_takeovers` | typing, marks, absence, single holder |
| 3 | `RecordingTake` (requests), `RecordingJobs` (worker, faults, and their composition) | `TakeLife` is the life of a take that `RecordingJobs` implements | `RJ_*` (3) | typing, one take, refinement, latches, complete takes, media and objects, no stranded take |
| 4 | `UploadQueue` (decisions on the row), `StudentRecording` (tabs, storage, the server) | the server of `StudentRecording` is the take of 3, seen from outside | `ST_*` (3) | typing, interruption, sequences, slices kept, verdict, declaration, normal end, safe to close |
| 5 | `SocketLifecycle` (the shared record), `SessionSocket` (the two hooks, network, server) | the server is the session of 1, seen by one client | `SK_hooks` | typing, one live socket, admission |
| 6 | `ReviewSession` | none | `RV_tabs` | invariant, one holder, reuse, cleared logins |
| 7 | issue of join, upload and review codes; the refinement of 3 by 4 and of 1 by 5 | | not built | |

Modules are written to be proved about: parameters are CONSTANTS with one named
assumption, one action per operation, invariants are conjunctions of named
parts, and no operator is RECURSIVE.

## 3. The modules

### SessionRow
The lifecycle contract of `models.py`: the five states, `ALLOWED_TRANSITIONS`,
`create/start/pause/resume/end_session` as actions, each raising the revision
by one. Note that `start_session` (created to starting) and `_transition` write
the revision the same way, and that an announced start becomes active by a
`_transition` of its own (`Schedule` and `Start`).

### RealtimeSession
One session, its row and log, the event loop, `POST /end`, and the clients.

| Variable | Code |
|---|---|
| `row`, `revoked`, `events` | `sessions` row; revocation of the live tokens; `events` rows |
| `mem`, `processed` | `SessionSnapshot` (state, whether the scheduled start is due, revision); `_processed_event_ids` |
| `h` | program counter of `_handle_message` with the frame in hand and the row a transaction has read |
| `rest` | `POST /sessions/{id}/end` between its read and its commit |
| `issued`, `client`, `wire` | messages authored; each client's sequence, revision, pending set; frames on the current socket |
| `presence`, `grace` | what the connection manager knows of a role; delayed disconnect checks not yet run |
| `acks`, `applied`, `moves`, `budget` | history for the properties; what is left of the bounds |

`_handle_message` is cut at every database access. A frame goes
`evaluate` (lost roles, automatic pause) - `dispatch` (hello, ping, dedup,
staleness, preflight) - `checked` - `persisted` - `syncing` - `apply` - idle.
Each `except` branch of the code is an action (`PreflightFail`, `PersistFail`,
`SyncFail`, `ResolveFail`, `AutoPauseFail`), and the reads that stand outside
any `try` (`websocket.py` 1335, 1354) are `HandlerDies`. A transaction of
`models.py` is two steps, read and write, because SQLite takes its write lock
at the first DML statement: `POST /end` may commit between them, and the loop
between the two steps of `POST /end`. `RowFollowsContract` asks that every write
be an action of `SessionRow` and names the one exception, a write of either side
that overlaps with `POST /end` (`OverlapsEnd`): it is computed from the row that
its transaction has read.

Abstracted: payloads, clip ids, playback position, the fallback streak, clock
offsets; `return_to_idle` behaves like `clip_command`; server-to-client delivery
is immediate, and broadcasts are not messages (one that raises is `SendRaises`,
which orphans a handler); a failed re-check of the token closes with a
retryable code and is a `Disconnect`; the read-only roles are left out.

### RoleConnections
One role of one session. The state is the list of entries, the place of every
handler (`phase`), whether the list that a suspended `connect()` has read is
still the list of the role (`captured`: `disconnect()` installs a new list
object), which heartbeats are stale, and the disconnect mark. A step is what
runs between two awaits. `crossed` is a history flag: an admission, or the late
`disconnect()` of a socket displaced earlier, fell into a suspended admission.
`RealtimeSession` shows the same role as never / up / stale / orphan / gone /
lost, which is `Lost` and `Served` of this module without crossings.

### TakeLife, RecordingTake and RecordingJobs
One session's take and its jobs. `RecordingTake` holds what requests do;
`RecordingJobs` adds the worker thread, the files it writes, the object store
and the faults, and composes the two.

| Variable | Code |
|---|---|
| `row` | the `recordings` row: state, finalize state, declaration (`final`, `dur`, `lost`), `inc` (incomplete reason), `op` (needs_operator), manifest, key, take id |
| `files`, `mp4`, `object` | slices in the chunk directory; slices remuxed into `student.mp4`; slices of the stored object |
| `jobs` | the latest job of each kind (`uq_active_job` admits one that is active); succeeded, cancelled and none are `closed` |
| `reading`, `loop`, `thread` | uploads that await their body; the upload running on the event loop; a finalize request on a worker thread, each with the row it has read |
| `worker` | the job in hand, its step, and the facts `_guard` has returned |
| `phase`, `granted`, `faults` | live, ended or past the upload grace; history of granted claims; faults spent |
| `overtaken` | history: a commit that was decided on an earlier row wrote what its handler would not have written on the row of that moment |

`SessionLocal` is made with `autoflush=False, expire_on_commit=False`
(`models.py:108`), so a handler goes on with the row object it has read and its
commit writes the columns it changed: `Flush` merges them into the row of that
moment, without a look at what else has changed. Three commits are decided on a
row read earlier: that of an upload (`ChunkRefreshes`), that of a finalize
(`FinalizeWrites`), and the close of the grace, which looks at the state alone
(`GraceCloses`). Each states what the handler would write on the fresh row
(`Witness`), and the first time it writes something else the take is `overtaken`.
All of it is in the model; the properties say what they promise of a take until
then (`overtaken \/ ...`), `OneTake`, `Settled` and `Erased` promise it always,
and `RJ_latch_lost` shows what an overtaking does.

`TakeLife` is what the two promise of the row alone. The ten states of `models.py`
and the marks beside them become stages: absent, open, then incomplete, or
complete, verified (there is a manifest) and stored (there is a key), and from
each of them deleting and deleted; `end`, the declared end, stands from complete
on. `Stage` and `TakeEnd` read them off a row. `transcoding` and
`transcode_failed` are no stages: they settle nothing, and a retried transcode
takes a stored take back to them (section 6) without undoing what it has.
`Overtake` takes any stage to `void`, of which nothing more is said.

Abstracted: a slice is its sequence and its bytes; the checks of duration and
codecs of an MP4 compare sequences, where slices under a second (`Short`) may be
missing unnoticed (`jobs.py:398`); `missing_sequences`, chunk rows, audit and
timestamps are left out; claim, `/end`, process, view and delete are a step each
(their writes are conditional or cannot be overtaken by one that matters);
finalize reads row and disk in one step; the worker takes queued jobs in any
order, which includes that of their ids; back-off is not timed.

### UploadQueue and StudentRecording
`UploadQueue` holds the decisions of `uploadQueue.ts` as operators on the
`recording_meta` row; `StudentRecording` holds the page, in every tab of one
browser, around them.

| Variable | Code |
|---|---|
| `row`, `chunks` | the row in IndexedDB: `next_sequence`, recorder state, finalize payload and its stamp (`finalize_persisted_at`), server state, block, flush hold; the slices, waiting or blocked |
| `lock` | the tab that holds the Web Lock `mindprobe-recorder:<session>` |
| `tab` | per tab: what is loaded, admission, revoked or replaced, where `startRecordingOnce` is, the recorder, slices on the persist chain, `committingStop`, `stopAsLost`, `chunkPersistLost`, a reconcile and a finalize in flight |
| `srv` | the server: live token, session phase, the socket that holds the role, the take id, the slices, declaration and verdict it has |
| `captured`, `slips`, `opens`, `faults` | history: slices the recorder delivered; which of the two slips below have happened; loads and faults spent |

A step is what the page does between two awaits, and an IndexedDB transaction is
one step. `startRecordingOnce` is `Start` (status read) - `ClaimGranted` - `Arm`
(lock, row written) - `Begin` (`recorder.start()`), with the refusal or the
exception of each as an action of its own; revocation (`HearRevoked`) and takeover
(`HearReplaced`) fall between any two of them, and the stop they ask for is a
later step (`InterruptStops`). IndexedDB may refuse the row of a start, a slice,
the row that declares its loss, the commit of a stop and the declaration of an
interruption, at the price of a fault: `PersistFails` loses a slice and then may
or may not manage to declare the loss, and `...Unheeded` is the refusal of what is
written before a tab that was put out stops its recorder, which then runs on
(`unheeded`). A finalize takes the payload
of the row when it is sent and is judged against the row of the moment its answer
comes.

Abstracted: the bytes of a slice and its checksum; delays (a timer may always be
due, `waited` is the wait of 30 s); a request that is refused for a reason the
page does not tell apart is a lost one; a browser without Web Locks, or one that
refuses the lock (`recordingController.ts:203-205`, `230`), where no tab excludes
another.

Two slips of the code are in the model and recorded in `slips`: `late_loss`, a
loss declared after `stop()` and therefore not held (661), and `abandon`, a tab
that reads the row of a recorder that threw between the release of the lock and
the removal of the row (938). `DeclaredIsOver` speaks of a page before either;
the other properties do not depend on them.

### SocketLifecycle and SessionSocket
`SocketLifecycle` is the class of that name: a record, and for each call the
next record with the effects the hook must carry out. `SessionSocket` is one
page with either hook around it (`role`), the sockets it has opened, the network
and the server as the hooks meet it.

| Variable | Code |
|---|---|
| `life` | the `SocketLifecycle` of the effect |
| `page` | `wsRef`, admission flag and timer, heartbeat with its missed pongs, reconnect, resync and start timers, shown status and view, start in flight, pending events, replay flag |
| `socks` | each socket's two ends and the frames in either direction; a line may be dead without either end knowing |
| `row`, `token`, `got` | at the server: session state, token, events accepted |
| `issued`, `budget` | the events authored; what is left of the bounds |

`onopen`, `onmessage`, `onclose` and every timer are actions; `Hears` takes one
frame, and does nothing for a socket that is not current. `begin` and the
creation of the socket are one step (`connect`), as in the code, where no event
can fall between. `NetDies` leaves both ends unaware, `NetBreaks` is a close
1006. `Remount` is the cleanup of the effect and a new one, which loses the
lifecycle and keeps the refs.

Abstracted: backoff delays; the playback and fallback parts of the hooks; a
timer may fire at any time, but one that fires while the answer is on a working
connection is paid from the faults.

### ReviewSession
Three documents of the teacher app in two tabs (two history entries of one, and
its duplicate), against the grant rows.

| Variable | Code |
|---|---|
| `docs` | per document: shown, cached or gone; navigation type; the login in memory; the refresh in flight; history of the chains it has cleared |
| `store` | `sessionStorage` of each tab |
| `calls` | requests in flight: login, page, logout, refresh; where they are and what they answer; whether the epoch moved since |
| `grants` | `review_grants`: chain, `rotated_from`, revoked, age; how often its refresh token was shown, and whether a reload cut it off |
| `turns` | what is left of the bound |
| `foundLogin` | history: the back/forward cache gave a document without a login back to a tab that stores one |

`reviewSession.ts` is a set of operators on what a browser holds, with the
names of its functions. `review_refresh` is read and mint, two transactions.

Abstracted: a grant stands for its two tokens; time (any token may expire, and
stays expired); requests with a token the document does not know; one session.

### MC modules
`MCStudentRecording` names the tabs and their symmetry, `MCReviewSession` the
calls and `UntilFound`, `MCSessionSocket` the pair of hooks. `MCRecordingJobs`
names the slices, the declarations and `UntilOvertaken`. The two constraints end
the search at the first state about which the properties of the run are silent
(`foundLogin`, `overtaken`); they cut away no state of which one speaks.
`MCRealtimeSession` names the sets of message types each run lets the wizard
send, `MCRoleConnections` the sets of sockets.

## 4. Runs

| Run | Question | Bounds |
|---|---|---|
| `RT_replays` | across a crash, a failed call, a reload, a lost socket and a `POST /end` that overlaps a transaction: typing, `AcceptedIsDone`, `AppliedOnce`, `ProcessedIsTaken`, `ClientNeverAhead`, `MemoryFollowsRow`, `AppliedInOrder` | 2 messages, 1 of each disturbance |
| `RT_frames` | `RowFollowsContract` (refinement of `SessionRow`, but for the writes that overlap with `POST /end`), `RevisionTracksState`, `NothingStaysPending`, under fairness | 2 messages, 1 fault, 1 restart, 1 drop |
| `RT_absence` | `AbsenceEndsActive`: a row that is active does not stay so while a role is away for good, unless `POST /end` has ended the session | 2 roles, 1 message, unbounded closing and silence, no failures |
| `RC_takeovers` | `SingleHolder`, `MarkMeansEmpty`, `AbsenceIsMarked`, `AbsenceIsNoticed` | 4 upgrade requests |
| `RJ_takes` | `CompleteIsWhole`, `ObjectHolds`, `MediaKept`, `TakeFollowsLife` (refinement of `TakeLife`), `LatchHolds`, for all interleavings of upload, finalize, end of the grace, deletion and worker, until a commit overtakes its row (constraint `UntilOvertaken`) | 2 sequences, the header in two versions, 3 declarations (shorter, full, recorder_lost), 1 upload and 1 finalize in flight, 1 attempt |
| `RJ_settled` | typing, `OneTake`, `NotStranded`, `Settled`, `Processed`, `Erased`, under fairness of the worker, stale commits of uploads included | 1 slice, 2 take ids, 1 attempt, 1 fault (restart, failed step, lost finish, stop); a declaration only as the first request of the take (in any order with the slices in `RJ_takes`) |
| `RJ_latch_lost` (violation) | `recording_integrity.py:5` says a lost take never becomes complete: the upload that stores the last slice commits the verdict it reached on the row from before the latch (`LatchFinal`) | as `RJ_takes`, without the constraint |
| `ST_tabs` | two tabs of the session race for the take, the lock and the row: `DeclaredIsOver`, `NextNeverRewinds` | 2 tabs (symmetric), 1 slice, 2 loads, 1 fault |
| `ST_page` | one tab that is closed and opened again, with lost answers, revocation, takeover and the end: `NormalIsWhole`, `StoredIsKept`, `NeverResumes`, `VerdictHolds`, and under fairness `Declares` | 2 slices, 3 loads, 2 faults |
| `ST_slice_lost` (violation) | `recordingController.ts` says a declaration that may go out covers what is stored: a slice lost after `stop()` declares the take without the hold, and the next slice of the chain lands past the declared end (`EverySliceDeclared`) | 2 slices, 1 load, 1 fault |
| `SK_hooks` | either hook, with dead and broken lines, remounts, takeover, refusals and lost timers: `OneLiveSocket`, `AdmissionShown`, and under fairness `Reconnects`, `Settles` | 2 sockets at once (slots are used again without end), 1 event, 1 fault, 1 pause |
| `RV_tabs` | `OneHolder`, `ReuseNeedsReload`, `NeverResurrected` over reloads, a duplicated tab, the back/forward cache, late answers and revocations, until the cache gives a document without a login back to a tab that stores one (constraint `UntilFound`) | 3 grants, 2 calls in flight, 3 turns |

Why the bounds are enough to meet the cases. Two messages are what an order, a
replay behind a later event and a reused slot need; a message costs up to eight
steps of the handler, so a crash and a fault already fall at every place of each
of them. Three sockets are a holder and two competing takeovers, the fourth is the
late report of one displaced before. Two sequences are a header and a last slice:
a take can be short of either, grow, or be declared too short; two tabs and two
loads are a recorder and a second tab that finds its row, or a tab that comes
back; two socket slots are the current socket and one given up whose callbacks are
still to come, and one fault meets every state of either; three grants are a
login, its successor and a second login. In `RJ_settled` the only attempt of a job
is its last, and one fault meets it at every step: a retry is a queued job with
fewer attempts left, which the theorems treat for every number of attempts. All
bounds are CONSTANTS, spent from `budget` or by the set `Sockets`, and named
there. Deadlock is not checked: with the bounds used up and the session ended the
system rightly stops.

Every property has a mutant in `PROJECT.json`: a plausible bug in a mapped
definition that makes it fail, defined in the module just above the definition.

### Fairness
`RealtimeSession.Fairness`: the event loop goes on with the frame in hand
(`LoopStep`), the worker thread commits, a scheduled instant comes; a delayed
check, a task on a loop that keeps being idle, runs in the end (strong
fairness, since frames interleave with it); a client with a usable socket gets
its frames through and sends hello and a ping every 10 s, well inside the 30 s
of `HEARTBEAT_STALE_MS`; a silent socket is closed in the end by the keepalive
of the WebSocket server. Nothing makes a client send a message, reconnect, or a
database call succeed on its own. `RoleConnections.Fairness`: awaits return,
clocks advance, a socket that the server closed is reported to its handler.
`RecordingJobs.FairSpec`: the worker thread goes on with its job; a queued job
is claimed (strong fairness: the code claims by id, and other jobs run
between); maintenance runs between jobs. Requests are under no obligation, not
even to finish, and faults are finite but fall anywhere.
`StudentRecording.FairSpec`: the events of the recorder, the persist chain, the
reconcile and the finalize timer of an open page run on; nothing is assumed of
the student, of loads, of uploads, or of the network. `SessionSocket.FairSpec`:
timers fire (they are `setTimeout` and `setInterval` of an open page), a working
connection delivers, the server judges a handshake and answers, a browser gives
up a handshake on a dead line, a scheduled start comes due. No fairness for the
close event of an open socket on a dead line, which may never come: that the
page recovers all the same (`Reconnects`) is the work of its own timers.

## 5. Proofs

Eight modules: `RealtimeSessionProofs`, `RoleConnectionsProofs`,
`RecordingJobsProofs`, `SessionSocketProofs`, `ReviewSessionProofs`, and for the
recorder `StudentRecordingProofs`, `StudentVerdictProofs` (the verdict and the
declaration) and `StudentTakeProofs`, each built on the one before. They hold
for every value of the constants that the named assumptions admit (any number of
messages, faults, crashes, sockets, slices, declarations, attempts, tabs, loads,
grants, requests).

- `TypeCorrect`: `Spec => []TypeOK`, one step per action.
- `BooksCorrect`: `[]Bookkeeping`. Neither `AppliedOnce` nor `AcceptedIsDone` is
  inductive: a frame may be replayed at any time, so that it is not applied a
  second time depends on the log. The strengthening says where an event's
  effects are: an event that is not in the log has had none (`Untouched`); the
  frame in hand has had exactly those its program counter says (`InFlight`); and
  a frame is always in the hands of the role that authored it (`Owned`), without
  which the slot test of `_find_existing_event` could not stand for the identity
  of an event. `AcceptedCorrect` and `AppliedOnceCorrect` follow.
- `ProcessedCorrect`, `RevisionCorrect`, `ClientCorrect`: the dedup set never
  refuses an event that is free in the log; within a process the revision rises
  with every change of state; a client is never ahead of the server.
- `ContractCorrect`: the refinement `RowFollowsContract`. `Fresh` says what each
  transaction knows of the row between its read and its write: until `POST /end`
  has committed (`revoked`) the row is the one the loop has read, and `POST /end`
  has read an earlier revision or that of now. So a write that overlaps with
  nothing is an action of `SessionRow`, and one that overlaps with `POST /end` is
  one of the row that was read, which the property names (`OverlapsEnd`; section
  6, `EndedIsTerminal`).
- `MemoryCorrect`: `MemoryFollowsRow`, also when `POST /end` overlaps, from
  `InStep`: a start is resolved in memory before it reaches the row, every other
  transition reaches the row first, and at the other steps of a frame the two
  match.
- `OrderCorrect`: `AppliedInOrder`, from `InTurn`: what is on a socket is
  ascending, a client that is admitted has nothing pending that is neither on
  its socket nor in the handler's hands (`Queued`), and nothing younger than a
  message that can still be delivered has been applied (`Unspent`). A frame that
  outlives its socket ends before the next one is admitted.
- `RolesTyped`, `MarkCorrect`: the shape of the registry; a role with an entry
  carries no disconnect mark, also when admissions cross.
- `AbsenceCorrect`: `AbsenceIsMarked`, from `Owed`: an empty registry without a
  mark, of a role that a socket has left, is still owed a report by a handler.
- `HolderCorrect`: `SingleHolder` and `ServedIsRegistered`, from `Alone`: while
  a takeover waits for the close of the prior socket nobody is served and the
  list it has read is current or empty, while it waits for its accept the
  registry is empty.
- `TakeTyped`: the types of `RecordingJobs`, from two facts that make them
  inductive: a queued job has an attempt left (`Counted`; recover, `_finish` and
  a stop keep it), and a handler that has read a row finds one when it commits,
  since a row is never removed (`Held`).
- `OneTakeCorrect`: `OneTake`, from `Granted`: whoever was granted the take is the
  one named in the row. It needs no condition on stale commits, because none of
  them writes the column of the take id.
- `LatchCorrect`: `LatchHolds`. `InFlight` says that a handler has read a row
  which it may change (`~Refused`, `Refreshable`), `Latch` that a latched row is
  incomplete in its verdict too, which keeps every UPDATE that asks for a complete
  one away; `Rightly` is what is asked of one change of the row. A commit that
  would lift the latch is one its handler would not make on the latched row, so
  that the step is `overtaken`: that is the only way to lift a latch but a
  deletion, and a version column on the row would close it.
- `CompleteCorrect`, `ObjectCorrect`, `StrandedCorrect`, `MediaCorrect`:
  `CompleteIsWhole`, `ObjectHolds`, `NotStranded` and `MediaKept`, from one
  invariant, `Sound`: the take is overtaken, or `Kept`. Every other change of the
  row is `Steady`: an open take is called complete only when its slices are
  stored, and a complete one stays so, with its declared end, until it is deleted.
  `RowWhole` and `Stored` say where its slices are: in the directory or the
  manifest, in the MP4 as soon as anything refers to one, and in the object as
  soon as there is a key. `Seen` and `Hand` carry that through the handlers and
  the job in flight: what a finalize has read of the directory is still there as
  long as the take is open, the grace closes with the end it judged, a transcode
  works for the end and the manifest of the row, an upload stores the MP4 it
  checked, and an orphan is removed only when no take can have the key any more.
- `LifeCorrect`: the refinement `TakeFollowsLife`, from `Sound`, which maps an
  overtaking to `Overtake` and otherwise decides a take once and keeps its end,
  and from `Verified`: what goes on to the object has its manifest, and so has
  every upload that is queued or runs and the transcode about to queue one.
  Without it a key could be set on a take whose slices are not on record. `Onward`
  adds what one step does to the key and to a deleted row. A deletion that nothing
  lifts is part of it.
- `SocketsTyped`, `OneLiveSocketCorrect`, `AdmissionCorrect`: the shape of a page
  and its sockets, `OneLiveSocket` and `AdmissionShown`, from `LinkOK`: a socket
  that is connecting or open is the lifecycle's current one and the page's
  `wsRef`, with no reconnect waiting (`One`); the lifecycle, the admission flag,
  the heartbeat and the status agree on whether it is admitted (`Admission`); and
  a lifecycle without a socket is stopped or waits to reconnect (`Vacancy`). A
  step is `connect`, the admission, a way a socket is given up, or calm: no
  socket comes to life and the page's links stay.
- `RecordingTyped`, `InterruptCorrect`, `SequencesGrow`, `SlicesKept`: typing,
  `NeverResumes`, `NextNeverRewinds` and the first half of `StoredIsKept`. The
  invariant adds `Sound` to the types: a tab that is in its start does not record,
  a tab that was put out has its stop on the way or could not write what comes
  before it (`unheeded`), nothing is recorded before the take id is forgotten, and
  a claim is in the hands of one tab, without a row until then, so that the row it
  writes cannot cover another. Most steps are quiet: they give no sequence out and
  take no claim.
- `VerdictCorrect`: `VerdictHolds`, from `VInv`: what the row, a status read and a
  finalize answer in flight say of a take that is over is what the server says
  (`True`), and a take that is open or complete was declared without a loss, so
  that repeating its declaration cannot close it (`SrvSound`).
- `DeclaredCorrect`: `DeclaredIsOver`, from an invariant, `DInv`, that holds until
  a slip. `Whole`: a declaration covers the stored slices, unless it is held for
  the flush or the take is settled. `Alone`: the tab that works, from the row it
  arms with to the commit of its stop, holds the lock, the row cannot go out, no
  other tab has read it and no verdict is on its way. `Unused`: before the take id
  is forgotten there is no row but that of the recorder that starts. Either slip
  makes `EverySliceDeclared` false: `late_loss` in `ST_slice_lost`, `abandon` in
  section 6.
- `NormalCorrect`, `StoredCorrect`: `NormalIsWhole` and the whole of
  `StoredIsKept`, whatever slips. `NInv` rests on one fact, that only the stop
  button declares a normal end (`Alters` describes every other change of the row):
  another tab may declare a loss over a take that is still recorded, but the
  server then has at most closed it (`Ongoing`, `Unended`). `Counts`: what the
  working recorder has delivered is stored or on its persist chain, unless a slice
  was lost, and a commit finds the chain empty; so a normal end counts what was
  delivered (`Plain`). `Sent`: a declaration without a loss that the server has
  was made when nobody works any more, so its end stays that of the row; `Held`: a
  complete take is held by the server up to that end.

- `ReviewInvariant`, `OneHolderCorrect`, `ReuseCorrect`, `ClearedForGood`:
  `OneHolder`, `ReuseNeedsReload` and `NeverResurrected`, from one invariant,
  `Until`: the cache has given a document without a login back to a tab that
  stores one (`foundLogin`), or `IInv`. None of the three is inductive, each for
  its own reason.
  - One holder: a refresh that answers puts a new token in a document, so
    `Unique` also says of a token just won that it is in no document and in no
    other answer; and a document that starts takes what its tab stores, so
    `Pages` says that the tab of a shown document stores that document's login
    without its refresh token.
  - Reuse: `Shows` ties the times the server has seen a token to where it is. A
    request that is out was counted (`Counted`), a token with a successor was
    seen, and a document whose token was seen has its refresh still in flight or
    was cut off by a reload (`Seen`). `Flights` makes that flight the one refresh
    of the document that no clear has crossed, however many logins are out.
  - Cleared logins: a refresh that no clear has crossed answers for a chain that
    its document has not cleared (`Flights`), and a login for a chain nobody has
    heard of (`NewChain`).

  The 19 actions do ten kinds of things (`Kinds`): nothing to a document
  (`Calm`), a clear, a sign-in, a token presented, a grant minted by a login or a
  refresh, a reload, a navigation, a return from the cache, a duplication. Each
  action is shown to be one of them (`Step_...`), from what the functions of
  `reviewSession.ts` do to a browser field by field, and each kind keeps the
  invariant (`...Keeps`).

  The exception is the one case of section 6 in which the code breaks all three;
  the theorems say that this return is the only way there: no order of requests,
  answers, clears, reloads, duplicates and other navigations breaks any of them.

Only model-checked: liveness (`NothingStaysPending`, `AbsenceEndsActive`,
`AbsenceIsNoticed`, `Settled`, `Processed`, `Erased`, `Declares`, `Reconnects`,
`Settles`), which with ENABLED is out of reach of TLAPS. Every invariant and
every action property of a passing run is a theorem of `Spec`, under no other
assumption than those on the constants. Where the code breaks what a property is
about, the property itself names the case: `OverlapsEnd`, `overtaken`, `slips`,
`unheeded`, `foundLogin`, `crossed`.

## 6. What the models say of the code, beyond the violation runs

Four disagreements with comments of the code, each found by TLC in a few steps.
They have no violation run; the property, which is defined in its module, and the
constants that show it:

| Property | Constants | What |
|---|---|---|
| `RealtimeSession!EndedIsTerminal` | as `RT_replays`, `Emits <- EmitsSlots`, no reload, restart or fault, 1 drop | `models.py:120` says `ended` is terminal: a transition that read the row before `POST /end` committed takes it out again |
| `RealtimeSession!DuplicateIsDurable` | the same with `MaxReloads = 1` | `websocket.py:1657` says a duplicate is already durable: after a reload the sequence starts at 0, and the slot of an older event hides a new one |
| `RealtimeSession!ServedActiveIsPaused` | `FairSpec`, `Emits <- EmitsStartThenMark`, 2 messages, `MaxDrops <- Unbounded`, the rest 0 | `websocket.py:1387` says the session is paused when a role drops out: a start that comes due while a frame is being stored becomes active in memory alone, and a later absence finds a row that is not active |
| `RoleConnections!LiveNotEvicted` | `Spec`, `Sockets <- ThreeSockets` | `websocket.py:1849` says a live connection is not evicted by a new one: the list is cleared after an await without a second look |

- A failed second transaction leaves the event row of a command that was
  answered *rejected* (`websocket.py:989` says there is no orphan row); the
  retry is answered *duplicate* and the transition never happens.
- A `clip_command` with the current revision is accepted while the session is
  paused (`websocket.py:1173` and ADR-0002 say the wizard may not push answers).
- A restarted process serves `created`, revision 0, whatever the row says.
- The automatic pause reads the database outside any `try`. When the read of the
  row fails (`websocket.py:1335`), no later check is scheduled and only another
  frame can pause the session; when that of the next server sequence fails (1354),
  the pause is committed and the snapshot stays active.
- A disconnect of an earlier displaced socket during a takeover detaches the
  list of the role, so the takeover leaves the stale entry in place beside its own
  (395); a takeover that meets another one's admission removes its entry (361).
  `SingleHolder` leaves both orders out (`crossed`).
- When a handler died, its entry was cleared by a takeover and that one failed
  in its handshake, nobody ever marks the role as absent (`Unreported`).
- A row that a transaction has taken out of `ended` belongs to a session without
  a live token: nobody comes back to it, and it may stay active although both
  roles are away (`AbsenceEndsActive` excepts a session that `POST /end` ended).

Of a take that a stale commit has overtaken (`overtaken`), `RJ_latch_lost` shows
the lost latch. By the same way:

- A tombstone is lifted: a finalize that read the row before `DELETE
  .../recording` writes its state over `deleting` (`jobs-storage-delete.md` says
  finalize refuses tombstones). The deletion then erases the media of a row that
  no longer says so.
- A grown declaration that is committed over a row completed in the meantime
  leaves a complete take with a slice missing (`recording_integrity.py:3-5`).
- A refresh that completes a take over its latch leaves it complete with its
  incomplete reason set: the transcode job that is queued for it refuses it, and
  the take is never processed (`Processed` and `NotStranded` except it).
- The grace job closes by the row's state alone (`recording_integrity.py:709`): a
  declaration that grew after it looked is completed by the verdict on the
  shorter one (`Witness` in `GraceCloses`).

And, of the same modules and the others:

- Once the chunk directory is cleaned, an upload that was in flight may store a
  conflicting version of a slice the MP4 already holds; the next attempt of the
  transcode removes it. `MediaKept` therefore speaks of the sequence of a slice.
- A slice past the declared end is stored when the declaration falls into the
  await of its body (`recording.py:819`, `830`); it then keeps the take from
  becoming complete.
- `rec.final_sequence or -1` (`recording_integrity.py:467`) treats a declared 0
  as none, so a second, different declaration of 0 is accepted while finalizing.
- A transcode that is tried again, after its backoff (`jobs.py:362`) or once its
  lost finish is recovered, may find the take uploaded by a job queued meanwhile:
  it takes the state back to `transcoding`, which `0005` §2 of the ADRs does not
  show, while key, object and manifest stay (`TakeLife`).
- `jobs.py:396` compares durations to the second: a missing slice shorter than
  that goes unnoticed there, and only the completeness check excludes it.
- `abandonUnstartedRecorder` gives the lock back (`recordingController.ts:938`)
  before the row is deleted: a second tab that reconciles in between declares the
  take of a recorder that never started (slip `abandon`; 174-178 say the lock is
  held for as long as the tab may write the row). The server may so judge the take
  incomplete while the first tab starts again and records, and a row that was
  declared under it may stay pending without being sent.
- `interruptRecording` (1086) and `stopReplacedRecording` (1126) write the
  declaration before `recorder.stop()`: when IndexedDB refuses that write they
  reject, and the recorder of a revoked or replaced tab runs on. Nothing stops it
  later (`HearUnheeded`, `BeginUnheeded`, `UploadUnheeded`; `NeverResumes` excepts
  it).
- A stop whose commit fails (`CommitFails`) leaves a declaration on hold until
  the page is loaded again.
- A normal stop without a single slice stays pending until the grace ends.
- The back/forward cache may give back a document without a login. It does not
  unpark (`reviewSession.ts:225-230`), and what its sibling parked stays in
  `sessionStorage` while a document of the tab is shown. Against
  `reviewSession.ts:5-10` that breaks
  - the second conjunct of `OneHolder` in four steps, and its first one when a
    reload had loaded the empty document: it then claims the parked token that its
    sibling still has in memory (137-162);
  - `NeverResurrected` in three turns: `Navigate` to the second document,
    `leaveReview` there, `Restore` of the first and of the second, whose next
    `fetchPage` takes the login up again that it has cleared (137-162);
  - `ReuseNeedsReload` in about five turns, when the empty document was loaded by
    a reload and both present the token.

  No violation run shows it. All three properties except what follows such a
  return (`foundLogin`), and speak of every other.
- A refresh that read its grant before a revocation committed mints a successor
  that is not revoked (`RefreshReads`, `RefreshMints`).
- A 401 `revoked` that answers a request of an earlier login drops the newer one.

## 7. Not modelled

- Clock synchronisation: a burst of samples and its median, reported to the log;
  nothing else depends on the order in which samples come.
- Join codes, session tokens, upload codes and review codes as rows: each is a
  single conditional update. What their revocation or expiry does is modelled
  where it is felt. The `legacy` outcome of a claim, which an older server
  answers, is left out.
- Of the recording, `sqlite_backup`, the synthesis of rows for sessions of an
  older database, and the functions nothing calls (`mark_operator_incomplete`,
  `mark_transcode_*`); the pause that `recorder_lost` announces is a pause of the
  session row as in `RealtimeSession`.
- Of the Wizard page, hotkeys and the end dialog; of the consoles, the generation
  tickets and held codes of the op console; case lookup and deployment scripts,
  which have no protocol state. Broadcast fan-out and message latency to the
  client are abstracted as said above, except in `SessionSocket`, where frames
  are delivered one by one.
- The refinements between the views of one part (the server of
  `StudentRecording` and `RecordingTake`, the server of `SessionSocket` and
  `RealtimeSession`) are argued by reading, not checked.
