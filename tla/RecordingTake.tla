---------------------------- MODULE RecordingTake ----------------------------
(***************************************************************************)
(* The one recording take of a session as the requests of the API see it:  *)
(* the row of the recordings table and its completeness state machine      *)
(* (server/app/recording_integrity.py), the chunk directory, the routes of *)
(* server/app/recording.py and the recording routes of server/app/main.py. *)
(*                                                                         *)
(* SessionLocal neither expires on commit nor locks on read, and the ORM   *)
(* writes only the columns it has changed: a handler decides on the copy   *)
(* of the row it has read and its commit is merged into whatever the row   *)
(* is by then.  upload_chunk runs on the event loop, one at a time after   *)
(* its only await; finalize runs on a thread; the rest is a transaction    *)
(* that decides in its own conditional UPDATE.                             *)
(***************************************************************************)
EXTENDS Integers, FiniteSets

CONSTANTS
  Slices,         \* bound: the slices a recorder uploads, [seq, bytes]
  Webm,           \* the bytes that start with the EBML magic
  Payloads,       \* bound: the finalize declarations, [final, dur, lost]
  Takes,          \* bound: the take ids that claim the session's take
  MaxReading,     \* bound: uploads that await their body at a time
  MaxFinalizing   \* bound: finalize requests on a thread at a time, 0 or 1

NoTake == "none"

ASSUME TakeConstants ==
  /\ \A s \in Slices : s.seq \in Nat
  /\ \A p \in Payloads : p.final \in Nat \cup {-1} /\ p.dur \in Nat /\ p.lost \in BOOLEAN
  /\ NoTake \notin Takes
  /\ MaxReading \in Nat /\ MaxFinalizing \in 0..1

VARIABLES
  row,      \* the Recording row, or NoRow
  files,    \* the slices in the chunk directory
  jobs,     \* the latest job of each kind: [status, attempts]; "closed": there is
            \* none, or it succeeded or was cancelled, which nothing tells apart
  phase,    \* the session: "live", "ended" (in the upload grace), "expired"
  reading,  \* uploads past their first check, awaiting chunk.read()
  loop,     \* the upload that runs on the event loop: [pc, slice, rec]
  thread,   \* the finalize request on a worker thread: [pc, p, rec, seen]
  granted,  \* history: the take ids answered "claimed"
  overtaken \* history: a commit that was decided on a row that had changed since
            \* wrote what its handler would not have written on the present row

takeVars == <<row, files, jobs, phase, reading, loop, thread, granted, overtaken>>

-----------------------------------------------------------------------------
(***************************************************************************)
(* The row.                                                                *)
(***************************************************************************)
NoFinal == -2  \* final_sequence IS NULL; -1 declares a take without slices
NoRow   == [state |-> "absent", fin |-> "none", final |-> NoFinal, dur |-> 0, lost |-> FALSE,
            inc |-> "none", op |-> FALSE, manifest |-> {}, key |-> FALSE, take |-> NoTake]
NewRow  == [NoRow EXCEPT !.state = "recording"]

Tombstones == {"deleting", "deleted"}
Open       == {"recording", "finalizing"}
Terminal   == {"transcoding", "transcoded", "uploaded", "transcode_failed"} \cup Tombstones

Seqs(S) == {s.seq : s \in S}
Received(rec, S) == Seqs(IF rec.manifest # {} /\ rec.fin = "complete" THEN rec.manifest ELSE S)
HeaderOk(S)      == \E s \in S : s.seq = 0 /\ s.bytes \in Webm

\* Mutant: a header is enough.
WholeHeader(rec, S) == rec.final # NoFinal /\ HeaderOk(S)

\* completeness_ok: 0..final_sequence, no more and no less, and a header.
Whole(rec, S) == rec.final # NoFinal /\ Received(rec, S) = 0..rec.final /\ HeaderOk(S)

\* is_protected_incomplete; the operator's mark has no caller in the server.
Protected(rec) == rec.op \/ rec.inc = "recorder_lost"
Completed(rec) == [rec EXCEPT !.state = "complete", !.fin = "complete", !.inc = "none", !.op = FALSE]

\* A flush: the columns that differ from what was loaded, and no other.
Flush(rec, new) == [c \in DOMAIN row |-> IF new[c] # rec[c] THEN new[c] ELSE row[c]]
Commit(rec, new) == row' = Flush(rec, new)

\* Whether the commit did what its handler, reading the row now, would do.
Witness(fresh) == overtaken' = (overtaken \/ row' # fresh)

Kinds  == {"transcode", "upload", "finalize_timeout", "delete_recording", "delete_orphan_object"}
Active == {"queued", "running"}
Closed == [status |-> "closed", attempts |-> 0]
Enqueue(js, k) ==
  IF js[k].status \in Active THEN js ELSE [js EXCEPT ![k] = [status |-> "queued", attempts |-> 0]]
EnqueueIf(cond, js, k) == IF cond THEN Enqueue(js, k) ELSE js

-----------------------------------------------------------------------------
(***************************************************************************)
(* claim_take: an insert that another claim or a first slice may win.      *)
(***************************************************************************)
\* Mutant: a repeat is granted whatever id the row holds.
ClaimAny(t) ==
  /\ phase = "live"
  /\ \/ row = NoRow /\ row' = [NewRow EXCEPT !.take = t]
     \/ /\ row.state = "recording" /\ row.fin = "none" /\ files = {}
        /\ UNCHANGED row
  /\ granted' = granted \cup {t}
  /\ UNCHANGED <<files, jobs, phase, reading, loop, thread, overtaken>>

Claim(t) ==
  /\ phase = "live"
  /\ \/ row = NoRow /\ row' = [NewRow EXCEPT !.take = t]
     \/ /\ row.take = t /\ row.state = "recording" /\ row.fin = "none" /\ files = {}
        /\ UNCHANGED row
  /\ granted' = granted \cup {t}
  /\ UNCHANGED <<files, jobs, phase, reading, loop, thread, overtaken>>

-----------------------------------------------------------------------------
(***************************************************************************)
(* upload_chunk                                                            *)
(***************************************************************************)
Idle == [pc |-> "idle"]

ChunkArrives(s) ==
  /\ phase # "expired" /\ s \notin reading /\ Cardinality(reading) < MaxReading
  /\ row.state \notin Tombstones
  /\ row.final # NoFinal => s.seq <= row.final
  /\ reading' = reading \cup {s}
  /\ UNCHANGED <<row, files, jobs, phase, loop, thread, granted, overtaken>>

\* After the await the row is read again, for a tombstone and the manifest;
\* its final_sequence is not compared again.
ChunkResumes(s) ==
  /\ s \in reading /\ loop = Idle
  /\ row.state \notin Tombstones /\ row.manifest = {}
  /\ reading' = reading \ {s}
  /\ loop' = [pc |-> "storing", slice |-> s, rec |-> row]
  /\ UNCHANGED <<row, files, jobs, phase, thread, granted, overtaken>>

\* The chunk directory may be gone by now: the manifest tells a duplicate.
ChunkInManifest(s) ==
  /\ s \in reading /\ loop = Idle
  /\ row.state \notin Tombstones /\ s \in row.manifest
  /\ reading' = reading \ {s}
  /\ UNCHANGED <<row, files, jobs, phase, loop, thread, granted, overtaken>>

ChunkRefused(s) ==
  /\ s \in reading /\ loop = Idle
  /\ row.state \in Tombstones \/ (row.manifest # {} /\ s \notin row.manifest)
  /\ reading' = reading \ {s}
  /\ UNCHANGED <<row, files, jobs, phase, loop, thread, granted, overtaken>>

Conflict(s) == \E f \in files : f.seq = s.seq /\ f.bytes # s.bytes

ChunkStored ==
  /\ loop.pc = "storing" /\ ~Conflict(loop.slice)
  /\ files' = files \cup {loop.slice}
  /\ loop' = [loop EXCEPT !.pc = "recording"]
  /\ UNCHANGED <<row, jobs, phase, reading, thread, granted, overtaken>>

\* Mutant: the stored slice is replaced by the later version of it.
ChunkConflictsReplaces ==
  /\ loop.pc = "storing" /\ Conflict(loop.slice)
  /\ files' = {f \in files : f.seq # loop.slice.seq} \cup {loop.slice}
  /\ loop' = Idle
  /\ UNCHANGED <<row, jobs, phase, reading, thread, granted, overtaken>>

\* 409 sequence_conflict: the stored slice stays.
ChunkConflicts ==
  /\ loop.pc = "storing" /\ Conflict(loop.slice)
  /\ loop' = Idle
  /\ UNCHANGED <<row, files, jobs, phase, reading, thread, granted, overtaken>>

\* What refresh_completeness decides, on the copy it is given and the files.
Refreshable(rec) == rec.state \notin Terminal \cup {"incomplete", "complete"} /\ ~Protected(rec)

\* ensure_recording and the metadata row are committed; the row is read anew
\* only if there was none before.
ChunkRecorded ==
  /\ loop.pc = "recording"
  /\ row' = IF row = NoRow THEN NewRow ELSE row
  /\ LET rec == IF loop.rec = NoRow THEN row' ELSE loop.rec IN
     IF Refreshable(rec) /\ Whole(rec, files)
       THEN loop' = [loop EXCEPT !.pc = "refreshing", !.rec = rec]
       ELSE loop' = Idle
  /\ UNCHANGED <<files, jobs, phase, reading, thread, granted, overtaken>>

ChunkRefreshes ==
  /\ loop.pc = "refreshing"
  /\ Commit(loop.rec, Completed(loop.rec))
  /\ Witness(IF Refreshable(row) /\ Whole(row, files) THEN Completed(row) ELSE row)
  /\ jobs' = Enqueue(jobs, "transcode")
  /\ loop' = Idle
  /\ UNCHANGED <<files, phase, reading, thread, granted>>

\* SQLAlchemyError: answered with metadata_persisted false.
ChunkUnrecorded ==
  /\ loop.pc \in {"recording", "refreshing"}
  /\ loop' = Idle
  /\ UNCHANGED <<row, files, jobs, phase, reading, thread, granted, overtaken>>

-----------------------------------------------------------------------------
(***************************************************************************)
(* apply_finalize                                                          *)
(***************************************************************************)
First(rec)      == rec.final = NoFinal
Matches(rec, p) == ~First(rec) /\ rec.final = p.final /\ rec.dur = p.dur /\ rec.lost = p.lost
OrMinusOne(n)   == IF n = 0 THEN -1 ELSE n  \* Python's `rec.final_sequence or -1`
Growing(rec, p) ==
  \/ rec.state = "finalizing" /\ p.final > OrMinusOne(rec.final)
  \/ p.lost /\ rec.state \in Open /\ p.final >= OrMinusOne(rec.final)

Refused(rec, p, seen) ==
  \/ rec.state \in Tombstones
  \/ \E s \in seen : s.seq > p.final
  \/ /\ ~First(rec) /\ ~Matches(rec, p)
     /\ Protected(rec) \/ rec.state = "incomplete" \/ ~Growing(rec, p)

Declared(rec, p) ==
  IF Matches(rec, p) THEN rec
  ELSE [rec EXCEPT !.final = p.final, !.dur = p.dur, !.lost = p.lost \/ (Protected(rec) /\ rec.lost)]
Latched(rec)    == [rec EXCEPT !.state = "incomplete", !.fin = "incomplete", !.op = TRUE]
Pending(rec)    == IF rec.state \in Open THEN [rec EXCEPT !.state = "finalizing", !.fin = "pending"] ELSE rec

Completes(rec, p, seen) ==
  LET new == Pending(Declared(rec, p)) IN
  /\ ~Protected(rec) /\ ~p.lost
  /\ new.state \notin Terminal \cup {"incomplete"} /\ Whole(new, seen)

Finalized(rec, p, seen) ==
  LET new == Declared(rec, p) IN
  IF Protected(rec) THEN Latched(new)
  ELSE IF rec.state = "incomplete" THEN new
  ELSE IF p.lost THEN [Latched(new) EXCEPT !.inc = "recorder_lost"]
  ELSE IF Completes(rec, p, seen) THEN Completed(Pending(new)) ELSE Pending(new)

\* ensure_recording inserts the row: the transaction holds the write lock from
\* there to its commit.
FinalizeFirst(p) ==
  /\ phase # "expired" /\ row = NoRow /\ ~Refused(NewRow, p, files)
  /\ row' = Finalized(NewRow, p, files)
  /\ jobs' = EnqueueIf(Completes(NewRow, p, files), jobs, "transcode")
  /\ UNCHANGED <<files, phase, reading, loop, thread, granted, overtaken>>

FinalizeReads(p) ==
  /\ phase # "expired" /\ thread = Idle /\ MaxFinalizing = 1 /\ row # NoRow /\ ~Refused(row, p, files)
  /\ thread' = [pc |-> "writing", p |-> p, rec |-> row, seen |-> files]
  /\ UNCHANGED <<row, files, jobs, phase, reading, loop, granted, overtaken>>

FinalizeWrites ==
  /\ thread.pc = "writing"
  /\ Commit(thread.rec, Finalized(thread.rec, thread.p, thread.seen))
  /\ Witness(IF Refused(row, thread.p, thread.seen) THEN row
              ELSE Finalized(row, thread.p, thread.seen))
  /\ jobs' = EnqueueIf(Completes(thread.rec, thread.p, thread.seen), jobs, "transcode")
  /\ thread' = Idle
  /\ UNCHANGED <<files, phase, reading, loop, granted>>

\* The database was locked: 500, and the student sends it again.
FinalizeFails ==
  /\ thread.pc = "writing" /\ thread' = Idle
  /\ UNCHANGED <<row, files, jobs, phase, reading, loop, granted, overtaken>>

-----------------------------------------------------------------------------
(***************************************************************************)
(* The other routes.                                                       *)
(***************************************************************************)
\* A repeated /end would only queue the timeout again, as maintenance does.
End ==
  /\ phase = "live" /\ phase' = "ended"
  /\ row' = IF row = NoRow THEN [NewRow EXCEPT !.state = "finalizing"]
            ELSE IF row.state = "recording" THEN [row EXCEPT !.state = "finalizing"] ELSE row
  /\ jobs' = Enqueue(jobs, "finalize_timeout")
  /\ UNCHANGED <<files, reading, loop, thread, granted, overtaken>>

\* ended_at + grace has passed.
GraceExpires ==
  /\ phase = "ended" /\ phase' = "expired"
  /\ UNCHANGED <<row, files, jobs, reading, loop, thread, granted, overtaken>>

\* POST /process: transcode_allowed.
Process ==
  /\ row.state \in {"complete"} \cup (Terminal \ Tombstones) /\ ~Protected(row)
  /\ (row.manifest # {} /\ row.fin = "complete") \/ Whole(row, files)
  /\ jobs' = Enqueue(jobs, IF row.state \in {"transcoded", "uploaded"} THEN "upload" ELSE "transcode")
  /\ UNCHANGED <<row, files, phase, reading, loop, thread, granted, overtaken>>

\* GET .../recording by a reviewer, as long as there is no URL to sign.
View ==
  /\ row # NoRow /\ row.state \notin Tombstones
  /\ row.fin = "complete" /\ ~row.op /\ row.inc = "none" /\ ~row.key
  /\ LET kind == IF row.state = "transcoded" THEN "upload" ELSE "transcode" IN
     jobs[kind].status # "failed" /\ jobs' = Enqueue(jobs, kind)
  /\ UNCHANGED <<row, files, phase, reading, loop, thread, granted, overtaken>>

Cancellable == {"transcode", "upload", "finalize_timeout"}
Cancelled(js) ==
  [k \in Kinds |-> IF k \in Cancellable /\ js[k].status \in Active
                   THEN Closed ELSE js[k]]

Delete ==
  /\ row' = [(IF row = NoRow THEN NewRow ELSE row) EXCEPT
               !.state = IF @ \in Tombstones THEN @ ELSE "deleting"]
  /\ jobs' = Enqueue(IF row.state \in Tombstones THEN jobs ELSE Cancelled(jobs), "delete_recording")
  /\ UNCHANGED <<files, phase, reading, loop, thread, granted, overtaken>>

-----------------------------------------------------------------------------
TakeInit ==
  /\ row = NoRow /\ files = {} /\ phase = "live" /\ reading = {}
  /\ jobs = [k \in Kinds |-> Closed]
  /\ loop = Idle /\ thread = Idle
  /\ granted = {} /\ overtaken = FALSE

Upload ==
  \/ \E s \in Slices : ChunkArrives(s) \/ ChunkResumes(s) \/ ChunkInManifest(s) \/ ChunkRefused(s)
  \/ ChunkStored \/ ChunkConflicts \/ ChunkRecorded \/ ChunkRefreshes \/ ChunkUnrecorded

Finalize == FinalizeWrites \/ FinalizeFails \/ \E p \in Payloads : FinalizeFirst(p) \/ FinalizeReads(p)

Routes == Upload \/ Finalize \/ End \/ GraceExpires \/ Process \/ View \/ Delete \/ \E t \in Takes : Claim(t)

\* The process dies: its handlers are gone, their transactions rolled back.
HandlersLost == reading' = {} /\ loop' = Idle /\ thread' = Idle
=============================================================================
