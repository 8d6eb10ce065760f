-------------------------- MODULE StudentRecording --------------------------
(***************************************************************************)
(* The recorder of the student page (recordingController.ts and the hook   *)
(* useMediaRecorder.ts) in the tabs of one browser, with what they share:  *)
(* the recording_meta row and the slices in IndexedDB (recordingDb.ts) and *)
(* the Web Lock of the recorder.  The server is the abstract take that     *)
(* RecordingTake details: it grants the take once, stores slices and       *)
(* judges declarations.                                                    *)
(*                                                                         *)
(* A step is what the page does between two awaits; an IndexedDB           *)
(* transaction is one step.  Pages are closed, reloaded and duplicated,    *)
(* requests and their answers are lost, and IndexedDB refuses writes.      *)
(***************************************************************************)
EXTENDS UploadQueue

CONSTANTS
  Tabs,        \* the tabs that have the session open
  MaxSlices,   \* bound: the slices the recorder delivers
  MaxOpens,    \* bound: loads of the page
  MaxFaults    \* bound: requests and answers lost, writes refused, starts that throw

NoTab == "none"
ASSUME RecordingConstants ==
  /\ NoTab \notin Tabs /\ "other" \notin Tabs /\ "gone" \notin Tabs
  /\ MaxSlices \in Nat /\ MaxOpens \in Nat /\ MaxFaults \in Nat

VARIABLES
  row,       \* the recording_meta row of the session
  chunks,    \* the rows of its slices
  lock,      \* the tab that holds mindprobe-recorder:<session>
  tab,       \* the memory of each tab
  srv,       \* the server: [live, phase, holder, take, got, fin, payload]
  captured,  \* history: the slices the recorder has delivered
  slips,     \* history: "late_loss", a loss was declared after stop() and not held;
             \* "abandon", a tab read the row of a recorder that did not start, whose
             \* lock was gone and whose row was not
  opens, faults

disk == <<row, chunks>>
vars == <<row, chunks, lock, tab, srv, captured, slips, opens, faults>>

Off  == [pc |-> "off"]

Closed == [page |-> "closed"]
\* "rec": "running", "inactive" between stop() and onstop; "buf": slices on the
\* persist chain; "commit": committingStop; "out": revoked, replaced; "stop":
\* interrupted, its recorder.stop() still to come; "unheeded", a history: the
\* write that comes before that stop was refused.
Loaded(page) ==
  [page |-> page, admitted |-> FALSE, out |-> {}, start |-> "idle", pending |-> FALSE,
   rec |-> "none", buf |-> 0, commit |-> FALSE, asLost |-> FALSE, gap |-> FALSE, stop |-> FALSE,
   unheeded |-> FALSE,
   bind |-> [pc |-> "due"], fin |-> Off]

Is(t, page)   == tab[t].page = page
Open(t)       == ~Is(t, "closed")
At(t, step)   == Is(t, "live") /\ tab[t].start = step
Set(t, field, value) == tab' = [tab EXCEPT ![t][field] = value]
Fault         == faults < MaxFaults /\ faults' = faults + 1
Freed(t)      == IF lock = t THEN NoTab ELSE lock
\* The take id of a page that has dropped it is nobody's.
Forgotten(t)  == IF srv.take = t THEN "gone" ELSE srv.take

startBlocked(t) == tab[t].out # {} \/ ~tab[t].admitted

-----------------------------------------------------------------------------
(***************************************************************************)
(* The server.                                                             *)
(***************************************************************************)
\* "revoked" and "expired" are 401s; an upload code outlives the live token.
Auth(t) ==
  IF srv.phase = "over" THEN "expired"
  ELSE IF ~Is(t, "upload") /\ ~srv.live THEN "revoked" ELSE "ok"

Claimed == srv.take # NoTab \/ srv.got # {} \/ srv.fin # "none"

\* Mutant: the take is granted to everyone who asks.
ClaimVerdictOpen(t) ==
  CASE Auth(t) # "ok"        -> Auth(t)
    [] srv.phase # "live"    -> "ended"
    [] srv.holder # t        -> "not_admitted"
    [] OTHER                 -> "claimed"

ClaimVerdict(t) ==
  CASE Auth(t) # "ok"        -> Auth(t)
    [] srv.phase # "live"    -> "ended"
    [] srv.holder # t        -> "not_admitted"
    [] srv.take = t \/ ~Claimed -> "claimed"
    [] OTHER                 -> "already_claimed"

\* A declared take is complete once it has its slices and the header of the first.
Judged(s) ==
  IF s.fin = "pending" /\ s.got = 0 .. s.payload.final /\ 0 \in s.got
    THEN [s EXCEPT !.fin = "complete"] ELSE s

UploadVerdict(t, s) ==
  CASE Auth(t) # "ok" -> Auth(t)
    [] srv.payload # NoPayload /\ s > srv.payload.final -> "sequence_past_final"
    [] OTHER -> "stored"
Stored(s) == Judged([srv EXCEPT !.got = @ \cup {s}])

Growing(p) ==
  \/ srv.fin = "pending" /\ p.final > srv.payload.final
  \/ p.lost /\ srv.fin \in {"none", "pending"} /\ p.final >= srv.payload.final
FinalizeVerdict(t, p) ==
  CASE Auth(t) # "ok"                     -> Auth(t)
    [] \E s \in srv.got : s > p.final     -> "final_sequence_below_stored"
    [] srv.payload \notin {NoPayload, p} /\ ~Growing(p) -> "finalize_conflict"
    [] OTHER                              -> "accepted"
Finalized(p) ==
  IF srv.fin = "incomplete" \/ p.lost THEN [srv EXCEPT !.payload = p, !.fin = "incomplete"]
  ELSE Judged([srv EXCEPT !.payload = p, !.fin = IF @ = "none" THEN "pending" ELSE @])

-----------------------------------------------------------------------------
(***************************************************************************)
(* interruptRecording and stopReplacedRecording                            *)
(***************************************************************************)
Out(t, why) == tab[t].out \cup {why}
Declared(why, m) == IF why = "revoked" THEN persistInterrupted(m) ELSE persistReplaced(m)

\* The declaration is on disk before the recorder is stopped.
Interrupted(t, why, m) ==
  IF tab[t].rec = "running" /\ m # NoMeta THEN holdForRecorderFlush(Declared(why, m)) ELSE m
Interrupt(t, why) ==
  [tab[t] EXCEPT !.out = @ \cup {why}, !.stop = @ \/ tab[t].rec = "running",
                 !.pending = @ /\ why # "replaced"]

\* IndexedDB refuses that declaration: the function rejects before it comes to
\* recorder.stop(), and the recorder runs on.
Unheeded(t, why) ==
  [tab[t] EXCEPT !.out = @ \cup {why}, !.unheeded = TRUE, !.pending = @ /\ why # "replaced"]

\* The socket, or a claim, tells of the revocation; close 4409 tells that the
\* server has given the role to another connection.
ToldRevoked(t)  == Is(t, "live") /\ ~srv.live /\ "revoked" \notin tab[t].out
ToldReplaced(t) == Is(t, "live") /\ tab[t].admitted /\ srv.holder # t

HearRevoked(t) ==
  /\ ToldRevoked(t)
  /\ row' = Interrupted(t, "revoked", row)
  /\ tab' = [tab EXCEPT ![t] = [Interrupt(t, "revoked") EXCEPT !.admitted = FALSE]]
  /\ UNCHANGED <<chunks, lock, srv, captured, slips, opens, faults>>

HearReplaced(t) ==
  /\ ToldReplaced(t)
  /\ row' = Interrupted(t, "replaced", row)
  /\ tab' = [tab EXCEPT ![t] = [Interrupt(t, "replaced") EXCEPT !.admitted = FALSE]]
  /\ srv' = [srv EXCEPT !.take = Forgotten(t)]
  /\ UNCHANGED <<chunks, lock, captured, slips, opens, faults>>

HearUnheeded(t) ==
  /\ Open(t) /\ tab[t].rec = "running" /\ Fault
  /\ \E why \in {"revoked", "replaced"} :
       /\ IF why = "revoked" THEN ToldRevoked(t) ELSE ToldReplaced(t)
       /\ tab' = [tab EXCEPT ![t] = [Unheeded(t, why) EXCEPT !.admitted = FALSE]]
       /\ srv' = [srv EXCEPT !.take = IF why = "replaced" THEN Forgotten(t) ELSE @]
  /\ UNCHANGED <<disk, lock, captured, slips, opens>>

InterruptStops(t) ==
  /\ Open(t) /\ tab[t].stop
  /\ tab' = [tab EXCEPT ![t].stop = FALSE,
                        ![t].rec = IF @ = "running" THEN "inactive" ELSE @]
  /\ UNCHANGED <<disk, lock, srv, captured, slips, opens, faults>>

-----------------------------------------------------------------------------
(***************************************************************************)
(* bindSession and reconcile                                               *)
(***************************************************************************)
Stopping(t) == tab[t].rec = "inactive" \/ tab[t].commit
\* Mutant: a tab looks after every take it finds.
ElsewhereNever(t) == FALSE

\* The tab that records the take holds the lock, and looks after it.
Elsewhere(t) ==
  /\ tab[t].rec # "running" /\ ~Stopping(t)
  /\ row.rec = "recording" \/ row.flush
  /\ lock # NoTab

ReconcileIdle(t) ==
  /\ Open(t) /\ tab[t].bind.pc = "due" /\ row = NoMeta
  /\ Set(t, "bind", Off)
  /\ UNCHANGED <<disk, lock, srv, captured, slips, opens, faults>>

\* What is known of the recorder is kept while the status is fetched; slices
\* the server has are deleted as soon as it is there, the row is merged later.
ReconcileReads(t) ==
  /\ Open(t) /\ tab[t].bind.pc = "due" /\ row # NoMeta /\ ~Elsewhere(t)
  /\ slips' = slips \cup {w \in {"abandon"} : \E u \in Tabs : Open(u) /\ tab[u].start = w}
  /\ \E ok \in {TRUE, FALSE} :
       /\ IF ok THEN Auth(t) = "ok" /\ UNCHANGED faults
          ELSE IF Auth(t) = "ok" THEN Fault ELSE UNCHANGED faults
       /\ chunks' = IF ok THEN without(chunks, sequencesAlreadyReceived(chunks, srv.got)) ELSE chunks
       /\ Set(t, "bind", [pc |-> IF ok THEN srv.fin ELSE "failed",
                          here |-> tab[t].rec = "running" \/ Stopping(t)])
  /\ UNCHANGED <<row, lock, srv, captured, opens>>

mergeReload(m, fin, here) ==
  LET next == IF fin = "failed" THEN m ELSE applyServerStatus(m, fin)
      lost == IF planReload(next) = "recorder_lost" /\ ~here THEN persistRecorderLost(next) ELSE next
  IN IF here THEN lost ELSE releaseRecorderFlush(lost)

ReconcileMerges(t) ==
  /\ Open(t) /\ tab[t].bind.pc \in Servers \cup {"failed"}
  /\ row' = IF row = NoMeta THEN row ELSE mergeReload(row, tab[t].bind.pc, tab[t].bind.here)
  /\ Set(t, "bind", Off)
  /\ UNCHANGED <<chunks, lock, srv, captured, slips, opens, faults>>

\* purgeExpiredMeta, from reconcile and from the pump.
Purge(t) ==
  /\ Open(t) /\ shouldDiscardMeta(row)
  /\ row' = NoMeta /\ chunks' = [s \in {} |-> "waiting"]
  /\ UNCHANGED <<lock, tab, srv, captured, slips, opens, faults>>

-----------------------------------------------------------------------------
(***************************************************************************)
(* startRecordingOnce                                                      *)
(***************************************************************************)
Rebound(t)  == IF tab[t].bind = Off THEN [pc |-> "due"] ELSE tab[t].bind

\* What the status of the session says of its take, if it can be read.
checkTake(t) ==
  IF Auth(t) # "ok" THEN "unknown" ELSE IF Claimed THEN "claimed" ELSE "free"

\* Only a definite "free" goes on, but a take id still pending does.
currentTakeState(t) == IF tab[t].pending THEN "free" ELSE checkTake(t)

Start(t) ==
  /\ At(t, "idle") /\ tab[t].out = {} /\ tab[t].rec # "running"
  /\ row = NoMeta /\ ~startBlocked(t)
  /\ currentTakeState(t) = "free"
  /\ tab' = [tab EXCEPT ![t].start = "prompt", ![t].bind = Rebound(t)]
  /\ UNCHANGED <<disk, lock, srv, captured, slips, opens, faults>>

\* getUserMedia was refused, or what was checked before it no longer holds.
PromptFails(t) ==
  /\ At(t, "prompt")
  /\ Set(t, "start", "idle")
  /\ UNCHANGED <<disk, lock, srv, captured, slips, opens, faults>>

Prompted(t) == At(t, "prompt") /\ ~startBlocked(t) /\ row = NoMeta

ClaimGranted(t) ==
  /\ Prompted(t) /\ ClaimVerdict(t) = "claimed"
  /\ srv' = [srv EXCEPT !.take = t]
  /\ tab' = [tab EXCEPT ![t].start = "granted", ![t].pending = TRUE]
  /\ UNCHANGED <<disk, lock, captured, slips, opens, faults>>

\* No attempt was answered, and any of them may have been granted: the take id
\* is kept, so that the next start asks for the same take.
claimWithRetry(t) ==
  /\ Prompted(t) /\ ClaimVerdict(t) = "claimed" /\ Fault
  /\ srv' \in {srv, [srv EXCEPT !.take = t]}
  /\ tab' = [tab EXCEPT ![t].start = "idle", ![t].pending = TRUE]
  /\ UNCHANGED <<disk, lock, captured, slips, opens>>

\* refuseClaim: a tab that is not admitted yet keeps its take id.
ClaimRefused(t) ==
  /\ Prompted(t) /\ ClaimVerdict(t) # "claimed"
  /\ LET kept == ClaimVerdict(t) = "not_admitted" IN
     /\ tab' = [tab EXCEPT ![t].start = "idle", ![t].pending = kept,
                           ![t].out = IF ClaimVerdict(t) = "revoked" THEN Out(t, "revoked") ELSE @]
     /\ srv' = [srv EXCEPT !.take = IF kept THEN @ ELSE Forgotten(t)]
  /\ UNCHANGED <<disk, lock, captured, slips, opens, faults>>

\* The lock is asked for with ifAvailable: nobody waits for it.
holdRecorderLock(t) == lock = NoTab /\ lock' = t

\* writeMeta: the row of the take is on disk before the recorder starts.
Arm(t) ==
  /\ At(t, "granted") /\ ~startBlocked(t) /\ holdRecorderLock(t)
  /\ row' = emptyMeta /\ Set(t, "start", "armed")
  /\ UNCHANGED <<chunks, srv, captured, slips, opens, faults>>

\* The tab was put out, another tab records, or the row could not be written.
\* The claim stands, and this tab may come back with its take id.
StartRefused(t) ==
  /\ At(t, "granted")
  /\ IF startBlocked(t) \/ lock # NoTab THEN UNCHANGED faults ELSE Fault
  /\ Set(t, "start", "idle")
  /\ UNCHANGED <<disk, lock, srv, captured, slips, opens>>

\* Mutant: what happened during the write of the row is not looked at.
BeginBlindly(t) ==
  /\ At(t, "armed")
  /\ tab' = [tab EXCEPT ![t].start = "idle", ![t].pending = FALSE, ![t].rec = "running"]
  /\ srv' = [srv EXCEPT !.take = Forgotten(t)]
  /\ UNCHANGED <<disk, lock, captured, slips, opens, faults>>

\* recorder.start() returned.  A tab that was put out meanwhile stops at once.
Begin(t) ==
  /\ At(t, "armed")
  /\ tab' = [tab EXCEPT ![t].start = "idle", ![t].pending = FALSE, ![t].rec = "running",
                        ![t].stop = tab[t].out # {}]
  /\ row' = IF tab[t].out = {} \/ row = NoMeta THEN row
            ELSE holdForRecorderFlush(
                   Declared(IF "revoked" \in tab[t].out THEN "revoked" ELSE "replaced", row))
  /\ srv' = [srv EXCEPT !.take = Forgotten(t)]
  /\ UNCHANGED <<chunks, lock, captured, slips, opens, faults>>

\* The same, but the declaration of its loss is refused.
BeginUnheeded(t) ==
  /\ At(t, "armed") /\ tab[t].out # {} /\ Fault
  /\ tab' = [tab EXCEPT ![t].start = "idle", ![t].pending = FALSE, ![t].rec = "running",
                        ![t].unheeded = TRUE]
  /\ srv' = [srv EXCEPT !.take = Forgotten(t)]
  /\ UNCHANGED <<disk, lock, captured, slips, opens>>

\* recorder.start() threw: the row goes if it is as it was written.
Abandoned == IF row = NoMeta \/ row.next = 0 THEN NoMeta ELSE persistRecorderLost(row)

BeginThrows(t) ==
  /\ At(t, "armed") /\ Fault
  /\ lock' = NoTab /\ Set(t, "start", "abandon")
  /\ UNCHANGED <<disk, srv, captured, slips, opens>>
Abandon(t) ==
  /\ At(t, "abandon")
  /\ row' = Abandoned /\ Set(t, "start", "idle")
  /\ UNCHANGED <<chunks, lock, srv, captured, slips, opens, faults>>

-----------------------------------------------------------------------------
(***************************************************************************)
(* attachRecorder, retainChunk and the ways a recorder stops               *)
(***************************************************************************)
Delivers(t, n) == captured + n <= MaxSlices /\ captured' = captured + n

Slice(t) ==
  /\ Open(t) /\ tab[t].rec = "running" /\ Delivers(t, 1)
  /\ Set(t, "buf", tab[t].buf + 1)
  /\ UNCHANGED <<disk, lock, srv, slips, opens, faults>>

\* One transaction reads the row, writes the slice under its next sequence and
\* writes the row back.
storeChunkAndBumpSequence ==
  LET built == buildStoredChunk(IF row = NoMeta THEN emptyMeta ELSE row, chunks) IN
  row' = built.meta /\ chunks' = built.chunks

persistBlob(t) ==
  /\ Open(t) /\ tab[t].buf > 0
  /\ storeChunkAndBumpSequence
  /\ Set(t, "buf", tab[t].buf - 1)
  /\ UNCHANGED <<lock, srv, captured, slips, opens, faults>>

\* Mutant: the slice is dropped and the take goes on.
PersistFailsSilently(t) ==
  /\ Open(t) /\ tab[t].buf > 0 /\ Fault
  /\ Set(t, "buf", tab[t].buf - 1)
  /\ UNCHANGED <<disk, lock, srv, captured, slips, opens>>

\* markDurableChunkLoss, once three attempts have failed; its own write may be
\* refused as well.
PersistFails(t) ==
  /\ Open(t) /\ tab[t].buf > 0 /\ Fault
  /\ \/ /\ LET lost == [persistRecorderLost(row) EXCEPT !.operator = TRUE] IN
           row' = IF row = NoMeta THEN row
                  ELSE IF tab[t].rec = "running" THEN holdForRecorderFlush(lost) ELSE lost
        /\ slips' = slips \cup {w \in {"late_loss"} : tab[t].rec # "running"}
     \/ UNCHANGED <<row, slips>>
  /\ tab' = [tab EXCEPT ![t].buf = @ - 1, ![t].gap = TRUE]
  /\ UNCHANGED <<chunks, lock, srv, captured, opens>>

\* The stop button, the end of the session, and the release of an unmounted page.
stopRecording(t) ==
  /\ Open(t) /\ tab[t].rec = "running"
  /\ Set(t, "rec", "inactive")
  /\ UNCHANGED <<disk, lock, srv, captured, slips, opens, faults>>

notePageHide(t) ==
  /\ Open(t) /\ tab[t].rec = "running"
  /\ tab' = [tab EXCEPT ![t].rec = "inactive", ![t].asLost = TRUE]
  /\ UNCHANGED <<disk, lock, srv, captured, slips, opens, faults>>

\* The recorder delivers what it has left, then onstop.
handleRecorderStop(t) ==
  /\ Open(t) /\ tab[t].rec = "inactive"
  /\ \E n \in 0 .. 1 :
       /\ Delivers(t, n)
       /\ tab' = [tab EXCEPT ![t].rec = "none", ![t].commit = TRUE, ![t].buf = @ + n]
  /\ UNCHANGED <<disk, lock, srv, slips, opens, faults>>

declareStop(m, T) ==
  LET noted(n) == [n EXCEPT !.operator = @ \/ T.gap] IN
  CASE m.rec = "lost" /\ T.out # {} ->
         noted(Declared(IF "revoked" \in T.out THEN "revoked" ELSE "replaced", m))
    [] m.rec = "lost"               -> noted(m)
    [] T.asLost \/ T.gap            -> noted(persistRecorderLost(m))
    [] m.pending /\ m.stamp # 0     -> m
    [] OTHER                        -> persistStop(m)

Committed(t) == /\ lock' = Freed(t)
                /\ tab' = [tab EXCEPT ![t].commit = FALSE, ![t].asLost = FALSE]

commitRecorderStop(t) ==
  /\ Open(t) /\ tab[t].commit /\ tab[t].buf = 0
  /\ row' = IF row = NoMeta THEN row ELSE releaseRecorderFlush(declareStop(row, tab[t]))
  /\ Committed(t)
  /\ UNCHANGED <<chunks, srv, captured, slips, opens, faults>>

CommitFails(t) ==
  /\ Open(t) /\ tab[t].commit /\ tab[t].buf = 0 /\ Fault
  /\ Committed(t)
  /\ UNCHANGED <<disk, srv, captured, slips, opens>>

-----------------------------------------------------------------------------
(***************************************************************************)
(* The pump: one slice and one finalize at a time in each tab              *)
(***************************************************************************)
\* The status that is read after a slice was stored, if it can be.
Told(m) == IF m = NoMeta THEN {m} ELSE {m, applyServerStatus(m, srv'.fin)}

\* Mutant: a slice is deleted before its answer is known.
uploadNextChunkEager(t) ==
  /\ Open(t)
  /\ \E s \in DOMAIN chunks :
       /\ chunks[s] = "waiting" /\ UploadVerdict(t, s) = "stored"
       /\ chunks' = without(chunks, {s})
       /\ \/ srv' = Stored(s) /\ row' \in Told(row) /\ UNCHANGED faults
          \/ Fault /\ UNCHANGED <<row, srv>>
  /\ UNCHANGED <<tab, lock, captured, slips, opens>>

\* A lost answer leaves the slice where it is.
uploadNextChunk(t) ==
  /\ Open(t)
  /\ \E s \in DOMAIN chunks :
       /\ chunks[s] = "waiting" /\ UploadVerdict(t, s) = "stored"
       /\ srv' = Stored(s)
       /\ \/ chunks' = without(chunks, {s}) /\ row' \in Told(row) /\ UNCHANGED faults
          \/ Fault /\ UNCHANGED <<row, chunks>>
  /\ UNCHANGED <<tab, lock, captured, slips, opens>>

\* A 401 that no retry with the live token gets past; an expired one is not.
isRevokedCredential(t, verdict) == verdict = "revoked" /\ tab[t].rec # "none"

\* The slice stays, and an operator is called; a revoked tab stops recording.
UploadRefused(t) ==
  /\ Open(t)
  /\ \E s \in DOMAIN chunks :
       /\ chunks[s] = "waiting" /\ UploadVerdict(t, s) # "stored"
       /\ LET block   == permanentUploadBlock(UploadVerdict(t, s))
              noted   == IF row = NoMeta THEN row ELSE notePermanentFailure(row, block)
              revoked == isRevokedCredential(t, UploadVerdict(t, s))
          IN /\ chunks' = marked(chunks, s, block)
             /\ row' = (IF revoked THEN Interrupted(t, "revoked", noted) ELSE noted)
             /\ tab' = [tab EXCEPT ![t] = IF revoked THEN Interrupt(t, "revoked") ELSE @]
  /\ UNCHANGED <<lock, srv, captured, slips, opens, faults>>

\* The refusal is noted, but the declaration of the interruption is not written.
UploadUnheeded(t) ==
  /\ Open(t) /\ tab[t].rec = "running" /\ Fault
  /\ \E s \in DOMAIN chunks :
       /\ chunks[s] = "waiting" /\ isRevokedCredential(t, UploadVerdict(t, s))
       /\ chunks' = marked(chunks, s, "unauthorized")
       /\ row' = IF row = NoMeta THEN row ELSE notePermanentFailure(row, "unauthorized")
       /\ tab' = [tab EXCEPT ![t] = Unheeded(t, "revoked")]
  /\ UNCHANGED <<lock, srv, captured, slips, opens>>

\* The request takes the payload of the row as it is read; its answer comes
\* later.  "failed": the request or the answer is lost.
sendFinalizeIfDue(t) ==
  /\ Open(t) /\ tab[t].fin = Off /\ row # NoMeta
  /\ \E waited \in BOOLEAN : finalizeDue(row, chunks, waited)
  /\ LET verdict == FinalizeVerdict(t, row.payload)
         told(answer) == Set(t, "fin", [pc |-> answer, payload |-> row.payload, stamp |-> row.stamp])
     IN /\ srv' = IF verdict = "accepted" THEN Finalized(row.payload) ELSE srv
        /\ \/ /\ told(IF verdict = "accepted" THEN srv'.fin ELSE permanentUploadBlock(verdict))
              /\ UNCHANGED faults
           \/ told("failed") /\ Fault
  /\ UNCHANGED <<disk, lock, captured, slips, opens>>

Answered == {"pending"} \cup Terminal

\* An answer counts for the declaration it was sent with, a refusal for any.
FinalizeAnswered(t) ==
  /\ Open(t) /\ tab[t].fin.pc \in Answered \cup Blocks \cup {"failed"}
  /\ LET f == tab[t].fin IN
     row' = IF row = NoMeta \/ f.pc = "failed" THEN row
            ELSE IF f.pc \in Blocks THEN notePermanentFailure(row, f.pc)
            ELSE IF row.payload # f.payload \/ row.stamp # f.stamp THEN row
            ELSE applyServerStatus(row, f.pc)
  /\ Set(t, "fin", Off)
  /\ UNCHANGED <<chunks, lock, srv, captured, slips, opens, faults>>

-----------------------------------------------------------------------------
(***************************************************************************)
(* The page and the session around it                                      *)
(***************************************************************************)
Load(t, page) == /\ tab[t] = Closed /\ opens < MaxOpens /\ opens' = opens + 1
                 /\ tab' = [tab EXCEPT ![t] = Loaded(page)]

\* What a stored login opens: a token refused as live may still upload until
\* the grace ends.  Any other failure leaves the tab without a page.
restoreStudentSession ==
  CASE srv.phase = "live" /\ srv.live  -> "live"
    [] srv.phase = "ended" /\ srv.live -> "restored"
    [] OTHER                           -> "rejected"

\* A join, or a reload, or a duplicated tab.
OpenLive(t) ==
  /\ Load(t, "live") /\ restoreStudentSession = "live"
  /\ UNCHANGED <<disk, lock, srv, captured, slips, faults>>

OpenRestored(t) ==
  /\ Load(t, "restored") /\ restoreStudentSession = "restored"
  /\ UNCHANGED <<disk, lock, srv, captured, slips, faults>>

findUnfinishedUploadSessions == showUploadCodeEntry(row, chunks)

\* A page without a login looks at what the browser still keeps, and offers to
\* upload it.
offersUploadCode(t) == ~Open(t) /\ findUnfinishedUploadSessions

resumeUnauthorizedUploads ==
  /\ chunks' = clearUnauthorizedChunks(chunks)
  /\ row' \in clearUnauthorizedUploadBlock(row, {chunks'[s] : s \in DOMAIN chunks} \ {"waiting"})

\* A tab without a login is given an upload code.
OpenUpload(t) ==
  /\ Load(t, "upload") /\ offersUploadCode(t) /\ srv.phase # "over"
  /\ resumeUnauthorizedUploads
  /\ UNCHANGED <<lock, srv, captured, slips, faults>>

\* Closed, reloaded or killed: memory and lock are gone, IndexedDB stays.
Close(t) ==
  /\ Open(t)
  /\ tab' = [tab EXCEPT ![t] = Closed] /\ lock' = Freed(t)
  /\ srv' = [srv EXCEPT !.take = Forgotten(t), !.holder = IF @ = t THEN NoTab ELSE @]
  /\ UNCHANGED <<disk, captured, slips, opens, faults>>

Admit(t) ==
  /\ Is(t, "live") /\ tab[t].out = {} /\ ~tab[t].admitted
  /\ srv.live /\ srv.phase = "live"
  /\ Set(t, "admitted", TRUE) /\ srv' = [srv EXCEPT !.holder = t]
  /\ UNCHANGED <<disk, lock, captured, slips, opens, faults>>

Drop(t) ==
  /\ Is(t, "live") /\ tab[t].admitted /\ srv.holder = t
  /\ Set(t, "admitted", FALSE) /\ srv' = [srv EXCEPT !.holder = NoTab] /\ Fault
  /\ UNCHANGED <<disk, lock, captured, slips, opens>>

OtherDevice == srv.phase = "live" /\ srv.holder # "other" /\ srv' = [srv EXCEPT !.holder = "other"]
Revoke      == srv.live /\ srv' = [srv EXCEPT !.live = FALSE]
End         == srv.phase = "live" /\ srv' = [srv EXCEPT !.phase = "ended", !.holder = NoTab]
\* The job at the end of the upload grace closes what is open.
GraceEnds   == /\ srv.phase = "ended"
               /\ srv' = [srv EXCEPT !.phase = "over",
                                     !.fin = IF @ = "complete" THEN @ ELSE "incomplete"]
Service == /\ OtherDevice \/ Revoke \/ End \/ GraceEnds
           /\ Fault /\ UNCHANGED <<disk, lock, tab, captured, slips, opens>>

-----------------------------------------------------------------------------
Init ==
  /\ row = NoMeta /\ chunks = [s \in {} |-> "waiting"] /\ lock = NoTab
  /\ tab = [t \in Tabs |-> Closed]
  /\ srv = [live |-> TRUE, phase |-> "live", holder |-> NoTab, take |-> NoTab,
            got |-> {}, fin |-> "none", payload |-> NoPayload]
  /\ captured = 0 /\ slips = {} /\ opens = 0 /\ faults = 0

Starting(t)  == Start(t) \/ PromptFails(t) \/ ClaimGranted(t) \/ claimWithRetry(t)
                \/ ClaimRefused(t) \/ Arm(t) \/ StartRefused(t) \/ Begin(t) \/ BeginUnheeded(t)
                \/ BeginThrows(t) \/ Abandon(t)
Recording(t) == Slice(t) \/ persistBlob(t) \/ PersistFails(t) \/ stopRecording(t) \/ notePageHide(t)
                \/ handleRecorderStop(t) \/ commitRecorderStop(t) \/ CommitFails(t)
Hear(t)      == HearRevoked(t) \/ HearReplaced(t) \/ HearUnheeded(t) \/ InterruptStops(t)
Bind(t)      == ReconcileIdle(t) \/ ReconcileReads(t) \/ ReconcileMerges(t)
Pump(t)      == Purge(t) \/ uploadNextChunk(t) \/ UploadRefused(t) \/ UploadUnheeded(t)
Finalize(t)  == sendFinalizeIfDue(t) \/ FinalizeAnswered(t)
Page(t)      == OpenLive(t) \/ OpenRestored(t) \/ OpenUpload(t) \/ Close(t) \/ Admit(t) \/ Drop(t)

Next == \/ Service
        \/ \E t \in Tabs : Starting(t) \/ Recording(t) \/ Hear(t) \/ Bind(t)
                           \/ Pump(t) \/ Finalize(t) \/ Page(t)

Spec == Init /\ [][Next]_vars

\* The recorder's events, the persist chain and the timers of an open page run
\* on; nothing is assumed of the student, of loads or of the network's faults.
FairSpec ==
  /\ Spec
  /\ \A t \in Tabs : /\ WF_vars(persistBlob(t)) /\ WF_vars(InterruptStops(t))
                     /\ WF_vars(handleRecorderStop(t)) /\ WF_vars(commitRecorderStop(t))
                     /\ WF_vars(ReconcileReads(t)) /\ WF_vars(ReconcileMerges(t))
                     /\ WF_vars(Finalize(t))
-----------------------------------------------------------------------------
(***************************************************************************)
(* Properties                                                              *)
(***************************************************************************)
\* The row, the slices, the memory of every tab and the server's take keep their
\* fields and the values that what is decided on them tells apart.
TabOK(T) ==
  /\ DOMAIN T = DOMAIN Loaded("live") /\ T.page \in {"live", "restored", "upload"}
  /\ T.start \in {"idle", "prompt", "granted", "armed", "abandon"}
  /\ T.rec \in {"none", "running", "inactive"} /\ T.buf \in Nat
  /\ {T.stop, T.gap, T.unheeded} \subseteq BOOLEAN
  /\ T.bind.pc \in Servers \cup {"off", "due", "failed"}
  /\ T.fin.pc \in Servers \cup Blocks \cup {"off", "failed"}

TypeOK ==
  /\ row = NoMeta \/ row \in Meta
  /\ \A s \in DOMAIN chunks : chunks[s] \in Blocks \cup {"waiting"}
  /\ DOMAIN tab = Tabs /\ \A t \in Tabs : tab[t] = Closed \/ TabOK(tab[t])
  /\ DOMAIN srv = {"live", "phase", "holder", "take", "got", "fin", "payload"}
  /\ srv.take \in Tabs \cup {NoTab, "gone"} /\ srv.fin \in Servers

Delivering(t) == Open(t) /\ (tab[t].rec # "none" \/ tab[t].buf > 0)
Sendable      == row # NoMeta /\ row.pending /\ ~row.flush

\* A declaration that may go out covers every slice stored, and none is still
\* to come: the server would refuse a slice past the declared end for ever.  So
\* say commitRecorderStop and holdForRecorderFlush.
EverySliceDeclared ==
  Sendable => row.payload.final = row.next - 1 /\ ~\E t \in Tabs : Delivering(t)

\* That is so unless a loss was declared after stop(), when it is not held for the
\* slices that follow, or a tab has read the row of a recorder that did not start
\* between the end of its lock and the deletion of the row.
DeclaredIsOver == slips = {} => EverySliceDeclared

\* A take is declared without recorder_lost only if every slice the recorder
\* delivered has been stored (chunkPersistLost, stopAsLost, the persist chain).
NormalIsWhole ==
  row # NoMeta /\ row.payload # NoPayload /\ ~row.payload.lost => row.next = captured

\* A stored slice stays in IndexedDB until the server has it, and the page is
\* called safe to close only when the server has every one.
stored        == IF row = NoMeta THEN {} ELSE 0 .. row.next - 1
KeptSomewhere == stored \subseteq DOMAIN chunks \cup srv.got
StoredIsKept  == KeptSomewhere /\ (closeBanner(row, chunks) = "safe" => stored \subseteq srv.got)

\* A tab that was revoked or replaced, before, during or after its start, does
\* not go on recording: the stop of its recorder is under way, unless IndexedDB
\* refused the declaration that is written before it, after which nobody stops it.
NeverResumes ==
  \A t \in Tabs : Open(t) /\ tab[t].out # {} /\ tab[t].rec = "running" =>
               tab[t].stop \/ tab[t].unheeded

\* What the row has learnt to be over stays over, and is what the server says:
\* neither an answer that was on its way, nor a reload, nor another tab's
\* declaration reopens a take or calls an incomplete one complete.
VerdictHolds ==
  [][row # NoMeta /\ row.server \in Terminal /\ row' # NoMeta =>
       row'.server = row.server /\ row'.server = srv.fin]_vars

\* Sequences are never given out again: no tab writes a new row over a take
\* that has slices.
NextNeverRewinds ==
  [][row # NoMeta /\ row' # NoMeta => row'.next >= row.next]_vars

\* A declaration that may go out reaches the server, or is blocked for an
\* operator, or the take is known to be over, or a recorder that runs holds it
\* again, as long as a page with the session stays open: slices that fail again
\* and again do not hold it back for ever.
Declares ==
  Sendable ~> \/ row = NoMeta \/ ~row.pending \/ srv.payload = row.payload
              \/ row.server \in Terminal \/ row.flush
              \/ \A t \in Tabs : ~Open(t)
=============================================================================
