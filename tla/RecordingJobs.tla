---------------------------- MODULE RecordingJobs ----------------------------
(***************************************************************************)
(* The job worker of server/app/jobs.py, composed with the requests of     *)
(* RecordingTake: its single thread claims the queued jobs of the session, *)
(* turns the slices into the MP4, uploads it, cleans up, deletes, and      *)
(* closes takes at the end of the upload grace.  A job's transactions are  *)
(* short; between them it works on files, and requests run meanwhile.      *)
(* The process may die at any moment; the next start recovers.             *)
(***************************************************************************)
EXTENDS RecordingTake

CONSTANTS
  Short,        \* the sequences whose slice lasts under a second
  MaxAttempts,  \* max_attempts of the jobs that do not delete
  MaxFaults     \* bound: restarts, failing steps and lost finishes

ASSUME JobConstants == Short \subseteq Nat /\ MaxAttempts \in Nat \ {0} /\ MaxFaults \in Nat

VARIABLES
  worker,  \* the job the thread runs: [pc, kind, final, manifest, whole]
  mp4,     \* the slices remuxed into student.mp4
  object,  \* the slices of the object in the store
  faults

jobVars == <<worker, mp4, object, faults>>
vars    == <<takeVars, jobVars>>

Off == [pc |-> "idle"]
Busy(pc) == worker.pc = pc
Goto(pc) == worker' = [worker EXCEPT !.pc = pc]

\* _valid_mp4: the duration is within a second of the declared one.
Fits(m, final) == m # {} /\ Seqs(m) \ Short = (0..final) \ Short

\* _guard: the job is still this worker's, and the take may be processed.
Runnable ==
  /\ jobs[worker.kind].status = "running"
  /\ worker.kind \in {"transcode", "upload"} =>
       /\ row # NoRow /\ row.state \notin Tombstones
       /\ ~row.op /\ row.fin = "complete" /\ row.inc = "none"

\* The condition of the UPDATEs of _set_recording and _upload.
Settable == row.state \notin Tombstones /\ ~row.op /\ row.fin = "complete"

Guarded  == {"claimed", "checked", "remuxing", "remuxed", "cleaning", "putting", "removing", "erasing"}
Outcomes == {"done", "failing", "cancelling"}
Steps    == Guarded \cup Outcomes \cup {"handing", "put", "burying", "closing"}

DeleteKinds == {"delete_recording", "delete_orphan_object"}
Ordinary    == Kinds \ DeleteKinds  \* those with a max_attempts

-----------------------------------------------------------------------------
(***************************************************************************)
(* claim, recover, reconcile and _finish                                   *)
(***************************************************************************)
ClaimJob(k) ==
  /\ worker = Off /\ jobs[k].status = "queued"
  /\ k = "finalize_timeout" => phase = "expired"
  /\ jobs' = [jobs EXCEPT ![k].status = "running",
                          ![k].attempts = IF k \in Ordinary THEN @ + 1 ELSE @]
  /\ worker' = [pc |-> "claimed", kind |-> k, final |-> NoFinal, manifest |-> {}, whole |-> FALSE]
  /\ UNCHANGED <<row, files, phase, reading, loop, thread, granted, overtaken, mp4, object, faults>>

\* Mutant: one attempt more.
ExhaustedLate(k) == k \in Ordinary /\ jobs[k].attempts > MaxAttempts

Exhausted(k) == k \in Ordinary /\ jobs[k].attempts >= MaxAttempts

Retried(k) == [jobs[k] EXCEPT !.status = IF Exhausted(k) THEN "failed" ELSE "queued"]

\* Mutant: the take is left in "transcoding" when its job is given up.
RecoveredRowKept == row

\* recover: at the start of the process, and of leases that were not renewed.
RecoveredJobs == [k \in Kinds |-> IF jobs[k].status = "running" THEN Retried(k) ELSE jobs[k]]
RecoveredRow ==
  IF jobs["transcode"].status = "running" /\ Exhausted("transcode") /\ row.state = "transcoding"
    THEN [row EXCEPT !.state = "transcode_failed"] ELSE row

\* Mutant: only deletions that have not ended are looked at again.
ReconciledDeleting(js) == EnqueueIf(row.state = "deleting", js, "delete_recording")

Reconciled(js) == EnqueueIf(row.state \in Tombstones, js, "delete_recording")

Mine == jobs[worker.kind].status = "running"

\* It succeeded or was cancelled.
Finished ==
  /\ Busy("done") \/ Busy("cancelling")
  /\ worker' = Off
  /\ jobs' = IF Mine THEN [jobs EXCEPT ![worker.kind] = Closed] ELSE jobs
  /\ UNCHANGED <<row, files, phase, reading, loop, thread, granted, overtaken, mp4, object, faults>>

Failed ==
  /\ Busy("failing") /\ worker' = Off
  /\ jobs' = IF Mine THEN [jobs EXCEPT ![worker.kind] = Retried(worker.kind)] ELSE jobs
  /\ row' = IF Mine /\ worker.kind = "transcode" /\ row.state \notin Tombstones /\ row.fin = "complete"
            THEN [row EXCEPT !.state = "transcode_failed"] ELSE row
  /\ UNCHANGED <<files, phase, reading, loop, thread, granted, overtaken, mp4, object, faults>>

Fault == faults < MaxFaults /\ faults' = faults + 1

\* A step of a job raises.
StepFails ==
  /\ worker # Off /\ worker.pc \notin Outcomes /\ Fault
  /\ Goto("failing")
  /\ UNCHANGED <<takeVars, mp4, object>>

\* The database is locked at every retry of _finish: the job stays "running".
FinishLost ==
  /\ worker # Off /\ worker.pc \in Outcomes /\ Fault
  /\ worker' = Off
  /\ UNCHANGED <<takeVars, mp4, object>>

\* stop_event at a guard: a stop at the end of the requests costs no attempt.
Stopped ==
  /\ worker # Off /\ worker.pc \in Guarded /\ Mine /\ Fault
  /\ reading = {} /\ loop = Idle /\ thread = Idle
  /\ worker' = Off
  /\ jobs' = [jobs EXCEPT ![worker.kind].status = "queued",
                          ![worker.kind].attempts = IF @ > 0 THEN @ - 1 ELSE 0]
  /\ UNCHANGED <<row, files, phase, reading, loop, thread, granted, overtaken, mp4, object>>

\* The process dies and starts again: Worker.start recovers and reconciles.
Restart ==
  /\ Fault /\ HandlersLost /\ worker' = Off
  /\ jobs' = Reconciled(RecoveredJobs) /\ row' = RecoveredRow
  /\ UNCHANGED <<files, phase, granted, overtaken, mp4, object>>

\* _guard finds the job cancelled or the take not to be processed.
Unrunnable ==
  /\ worker # Off /\ worker.pc \in Guarded /\ ~Runnable
  /\ Goto("cancelling")
  /\ UNCHANGED <<takeVars, mp4, object, faults>>

-----------------------------------------------------------------------------
(***************************************************************************)
(* maintenance, between two jobs                                           *)
(***************************************************************************)
\* The thread is idle: a job that is still "running" lost its finish.
LeaseExpires ==
  /\ worker = Off /\ \E k \in Kinds : jobs[k].status = "running"
  /\ jobs' = RecoveredJobs /\ row' = RecoveredRow
  /\ UNCHANGED <<files, phase, reading, loop, thread, granted, overtaken, jobVars>>

Resubmitted ==
  LET next == IF row.state = "transcoded" THEN "upload" ELSE "transcode" IN
  EnqueueIf(row.state \in {"complete", "transcoded"} /\ row.fin = "complete" /\ ~row.op,
            EnqueueIf(phase # "live" /\ row.state \in Open, jobs, "finalize_timeout"), next)

Resubmit ==
  /\ worker = Off /\ Resubmitted # jobs /\ jobs' = Resubmitted
  /\ UNCHANGED <<row, files, phase, reading, loop, thread, granted, overtaken, jobVars>>

Reconcile ==
  /\ worker = Off /\ Reconciled(jobs) # jobs /\ jobs' = Reconciled(jobs)
  /\ UNCHANGED <<row, files, phase, reading, loop, thread, granted, overtaken, jobVars>>

-----------------------------------------------------------------------------
(***************************************************************************)
(* _transcode                                                              *)
(***************************************************************************)
Doing(kind, pc) == worker # Off /\ worker.kind = kind /\ worker.pc = pc
RowStays  == UNCHANGED <<row, phase, reading, loop, thread, granted, overtaken, faults>>

\* The facts the job goes by, and the source they describe.
TranscodeChecks ==
  /\ Doing("transcode", "claimed") /\ Runnable
  /\ worker' = [worker EXCEPT
       !.pc = IF row.manifest # {} \/ Whole(row, files) THEN "checked" ELSE "failing",
       !.final = row.final, !.manifest = row.manifest]
  /\ RowStays /\ UNCHANGED <<files, jobs, mp4, object>>

SetTranscoding ==
  /\ Doing("transcode", "checked") /\ Runnable /\ Settable
  /\ row' = [row EXCEPT !.state = "transcoding"]
  /\ Goto("remuxing")
  /\ UNCHANGED <<files, jobs, phase, reading, loop, thread, granted, overtaken, mp4, object, faults>>

\* process_recording merges what is stored by now, unless a valid MP4 is left
\* from an earlier attempt.
Remux ==
  /\ Doing("transcode", "remuxing") /\ Runnable
  /\ mp4' = IF Fits(mp4, worker.final) \/ ~HeaderOk(files) THEN mp4 ELSE files
  /\ Goto(IF Fits(mp4', worker.final) THEN "remuxed" ELSE "failing")
  /\ RowStays /\ UNCHANGED <<files, jobs, object>>

\* Mutant: the manifest is left to the cleanup.
SetTranscodedBare ==
  /\ Doing("transcode", "remuxed") /\ Runnable /\ Settable
  /\ row' = [row EXCEPT !.state = "transcoded"]
  /\ Goto("cleaning")
  /\ UNCHANGED <<files, jobs, phase, reading, loop, thread, granted, overtaken, mp4, object, faults>>

SetTranscoded ==
  /\ Doing("transcode", "remuxed") /\ Runnable /\ Settable
  /\ row' = [row EXCEPT !.state = "transcoded",
                        !.manifest = IF worker.manifest # {} THEN worker.manifest ELSE files]
  /\ Goto("cleaning")
  /\ UNCHANGED <<files, jobs, phase, reading, loop, thread, granted, overtaken, mp4, object, faults>>

Clean ==
  /\ Doing("transcode", "cleaning") /\ Runnable
  /\ files' = {}
  /\ Goto("handing")
  /\ RowStays /\ UNCHANGED <<jobs, mp4, object>>

HandOver ==
  /\ Doing("transcode", "handing")
  /\ jobs' = EnqueueIf(row # NoRow /\ row.state \notin Tombstones, jobs, "upload")
  /\ Goto("done")
  /\ RowStays /\ UNCHANGED <<files, mp4, object>>

-----------------------------------------------------------------------------
(***************************************************************************)
(* _upload                                                                 *)
(***************************************************************************)
\* Mutant: the upload is recorded before the object is stored.
UploadChecksOnly ==
  /\ Doing("upload", "claimed") /\ Runnable
  /\ Goto(IF Fits(mp4, row.final) THEN "put" ELSE "failing")
  /\ RowStays /\ UNCHANGED <<files, jobs, mp4, object>>

UploadChecks ==
  /\ Doing("upload", "claimed") /\ Runnable
  /\ Goto(IF Fits(mp4, row.final) THEN "putting" ELSE "failing")
  /\ RowStays /\ UNCHANGED <<files, jobs, mp4, object>>

PutObject ==
  /\ Doing("upload", "putting") /\ Runnable
  /\ object' = mp4
  /\ Goto("put")
  /\ RowStays /\ UNCHANGED <<files, jobs, mp4>>

\* Mutant: the recording is not looked at again after the upload.
SetUploadedAlways ==
  /\ Doing("upload", "put")
  /\ row' = [row EXCEPT !.state = "uploaded", !.key = TRUE]
  /\ Goto("done")
  /\ UNCHANGED <<files, jobs, phase, reading, loop, thread, granted, overtaken, mp4, object, faults>>

\* Mutant: the key is recorded, the state is not.
SetUploadedKey ==
  /\ Doing("upload", "put") /\ Settable
  /\ row' = [row EXCEPT !.key = TRUE]
  /\ Goto("done")
  /\ UNCHANGED <<files, jobs, phase, reading, loop, thread, granted, overtaken, mp4, object, faults>>

SetUploaded ==
  /\ Doing("upload", "put") /\ Settable
  /\ row' = [row EXCEPT !.state = "uploaded", !.key = TRUE]
  /\ Goto("done")
  /\ UNCHANGED <<files, jobs, phase, reading, loop, thread, granted, overtaken, mp4, object, faults>>

\* The take was deleted, or latched, during the upload.
Orphaned ==
  /\ Doing("upload", "put") /\ ~Settable
  /\ jobs' = Enqueue(jobs, "delete_orphan_object")
  /\ Goto("cancelling")
  /\ RowStays /\ UNCHANGED <<files, mp4, object>>

-----------------------------------------------------------------------------
(***************************************************************************)
(* _delete_recording and _delete_orphan_object                             *)
(***************************************************************************)
DeleteChecks ==
  /\ Doing("delete_recording", "claimed") /\ Runnable
  /\ Goto(IF row.state \in Tombstones THEN "removing" ELSE "done")
  /\ RowStays /\ UNCHANGED <<files, jobs, mp4, object>>

RemoveObject ==
  /\ Doing("delete_recording", "removing") /\ Runnable
  /\ object' = {}
  /\ Goto("erasing")
  /\ RowStays /\ UNCHANGED <<files, jobs, mp4>>

Erase ==
  /\ Doing("delete_recording", "erasing") /\ Runnable
  /\ files' = {} /\ mp4' = {}
  /\ Goto("burying")
  /\ RowStays /\ UNCHANGED <<jobs, object>>

Bury ==
  /\ Doing("delete_recording", "burying")
  /\ row' = IF row.state = "deleting" THEN [row EXCEPT !.state = "deleted", !.key = FALSE] ELSE row
  /\ Goto("done")
  /\ UNCHANGED <<files, jobs, phase, reading, loop, thread, granted, overtaken, mp4, object, faults>>

RemoveOrphan ==
  /\ Doing("delete_orphan_object", "claimed") /\ Runnable
  /\ object' = {}
  /\ Goto("done")
  /\ RowStays /\ UNCHANGED <<files, jobs, mp4>>

-----------------------------------------------------------------------------
(***************************************************************************)
(* _finalize_timeout: apply_upload_grace_deadlines and the conditional     *)
(* UPDATE of claim_open_recording                                          *)
(***************************************************************************)
\* Mutant: a take that was never declared is passed over.
GraceDecidesDeclared ==
  /\ Doing("finalize_timeout", "claimed") /\ Runnable
  /\ worker' = [worker EXCEPT
       !.pc = IF row.state \in Open /\ row.final # NoFinal /\ ~Protected(row) THEN "closing" ELSE "done",
       !.final = row.final, !.whole = Whole(row, files)]
  /\ RowStays /\ UNCHANGED <<files, jobs, mp4, object>>

GraceDecides ==
  /\ Doing("finalize_timeout", "claimed") /\ Runnable
  /\ worker' = [worker EXCEPT
       !.pc = IF row.state \in Open /\ ~Protected(row) THEN "closing" ELSE "done",
       !.final = row.final, !.whole = Whole(row, files)]
  /\ RowStays /\ UNCHANGED <<files, jobs, mp4, object>>

\* Mutant: the update is not conditional.
ClaimableAlways(rec) == rec # NoRow

Claimable(rec) == rec.state \in Open /\ ~rec.op

ClosedRow ==
  IF worker.whole THEN Completed(row)
  ELSE [row EXCEPT !.state = "incomplete", !.fin = "incomplete",
          !.inc = IF worker.final = NoFinal THEN "grace_expired" ELSE "missing_chunks"]

GraceCloses ==
  /\ Doing("finalize_timeout", "closing")
  /\ row' = IF Claimable(row) THEN ClosedRow ELSE row
  /\ Witness(IF Claimable(row) /\ worker.whole /\ ~Whole(row, files) THEN row ELSE row')
  /\ jobs' = EnqueueIf(Claimable(row) /\ worker.whole, jobs, "transcode")
  /\ Goto("done")
  /\ UNCHANGED <<files, phase, reading, loop, thread, granted, mp4, object, faults>>

-----------------------------------------------------------------------------
Init == TakeInit /\ worker = Off /\ mp4 = {} /\ object = {} /\ faults = 0

JobStep ==
  \/ Finished \/ Failed \/ Unrunnable
  \/ TranscodeChecks \/ SetTranscoding \/ Remux \/ SetTranscoded \/ Clean \/ HandOver
  \/ UploadChecks \/ PutObject \/ SetUploaded \/ Orphaned
  \/ DeleteChecks \/ RemoveObject \/ Erase \/ Bury \/ RemoveOrphan
  \/ GraceDecides \/ GraceCloses

Faulty == StepFails \/ FinishLost \/ Stopped \/ Restart

Maintenance == LeaseExpires \/ Resubmit \/ Reconcile

Next ==
  \/ Routes /\ UNCHANGED jobVars
  \/ \E k \in Kinds : ClaimJob(k)
  \/ JobStep \/ Maintenance \/ Faulty

Spec == Init /\ [][Next]_vars

\* The thread runs: it takes the queued jobs in the order of their ids, so that
\* none waits for ever, with maintenance between them.  Of the requests nothing
\* is assumed, not even that those that have started go on.
FairSpec ==
  /\ Spec
  /\ WF_vars(JobStep) /\ SF_vars(Maintenance)
  /\ \A k \in Ordinary \cup {"delete_recording"} : SF_vars(ClaimJob(k))

-----------------------------------------------------------------------------
(***************************************************************************)
(* Properties                                                              *)
(***************************************************************************)
States    == {"recording", "finalizing", "complete", "incomplete"} \cup Terminal
Verdicts  == {"none", "pending", "complete", "incomplete"}
Reasons   == {"none", "recorder_lost", "grace_expired", "missing_chunks"}
Finals    == {NoFinal} \cup {p.final : p \in Payloads}
Durations == {0} \cup {p.dur : p \in Payloads}
RowType ==
  [state : States, fin : Verdicts, final : Finals, dur : Durations, lost : BOOLEAN,
   inc : Reasons, op : BOOLEAN, manifest : SUBSET Slices, key : BOOLEAN, take : Takes \cup {NoTake}]

TypeOK ==
  /\ row \in RowType \cup {NoRow}
  /\ files \subseteq Slices /\ mp4 \subseteq Slices /\ object \subseteq Slices
  /\ jobs \in [Kinds -> [status : Active \cup {"closed", "failed"},
                         attempts : 0..MaxAttempts]]
  /\ phase \in {"live", "ended", "expired"} /\ reading \subseteq Slices
  /\ loop \in {Idle} \cup [pc : {"storing", "recording", "refreshing"}, slice : Slices,
                           rec : RowType \cup {NoRow}]
  /\ thread \in {Idle} \cup [pc : {"writing"}, p : Payloads, rec : RowType, seen : SUBSET Slices]
  /\ granted \subseteq Takes /\ overtaken \in BOOLEAN
  /\ worker \in {Off} \cup [pc : Steps, kind : Kinds, final : Finals,
                            manifest : SUBSET Slices, whole : BOOLEAN]
  /\ faults \in 0..MaxFaults

Gone == row.state \in Tombstones

\* "One MediaRecorder take for a session": one take id at most is ever told it
\* may record (claim_take).
OneTake == Cardinality(granted) <= 1

\* A stored slice, which may have been acknowledged, is never lost: it goes
\* only with its take, once its sequence is in the manifest of a verified MP4,
\* or when it lies past the declared end; and a manifest never changes again.
\* As below, of a take that no commit has written over which was decided on the
\* row of an earlier time: SQLAlchemy checks no version of the row (models.py).
MediaKept ==
  [][~overtaken' =>
       /\ \A s \in files \ files' : Gone \/ s.seq \in Seqs(row.manifest) \/ s.seq > row.final
       /\ row.manifest # {} => row'.manifest = row.manifest]_vars

\* A take counts as complete only if 0..final_sequence is stored or was remuxed,
\* unless such a commit has declared it longer, or called it complete.
CompleteIsWhole ==
  overtaken \/ Gone \/ (row.fin = "complete" => 0..row.final \subseteq Seqs(files \cup row.manifest))

\* A verified MP4 holds all declared slices, and the URL that is signed for a
\* take with a key leads to it, unless such a commit has declared it anew.
ObjectHolds ==
  overtaken \/ Gone \/
    /\ row.state \in {"transcoded", "uploaded"} => 0..row.final \subseteq Seqs(mp4)
    /\ row.key => object # {} /\ object = mp4

\* A take that is being transcoded has a job that will end that state, unless
\* such a commit has written over the row.
NotStranded == row.state = "transcoding" => overtaken \/ jobs["transcode"].status \in Active

\* The stage of the take of a row, and the end of one that is complete.
PlainStages == {"absent", "incomplete"} \cup Tombstones
Stage(rec) ==
  CASE rec.state \in Open                         -> "open"
    [] rec.state \in PlainStages                  -> rec.state
    [] OTHER -> IF rec.key THEN "stored" ELSE IF rec.manifest # {} THEN "verified" ELSE "complete"
TakeEnd(rec) ==
  IF Stage(rec) \in {"complete", "verified", "stored"} THEN rec.final ELSE NoFinal

Life == INSTANCE TakeLife WITH
          stage <- IF overtaken THEN "void" ELSE Stage(row),
          end   <- IF overtaken THEN NoFinal ELSE TakeEnd(row),
          NoEnd <- NoFinal

\* A take only goes on: it is decided once, the end of a complete one stands,
\* its MP4 and its object stay, and no request or job that was in flight undoes
\* any of it, least of all a deletion (jobs-storage-delete.md), but by a commit
\* that was decided on an earlier row and would not be on the present one.
TakeFollowsLife == Life!Spec

\* recorder_lost and the end of the grace latch a take: nothing but its
\* deletion leads out, except such a commit (LatchFinal).
LatchHolds ==
  [][~overtaken' /\ row.inc # "none" =>
       row'.inc = row.inc /\ row'.state \in {"incomplete"} \cup Tombstones]_vars

\* After the grace no take stays open.
Settled == phase = "expired" ~> row.state \notin Open

\* A complete take is uploaded, or its failure is on record; one that such a
\* commit completed over its latch is never processed.
Processed ==
  row.state = "complete" ~> overtaken \/ row.state \in {"uploaded", "transcode_failed"} \cup Tombstones

\* Of a deleted take nothing remains in the end, whatever was in flight.
Erased == <>[](~Gone) \/ <>[](files = {} /\ mp4 = {} /\ object = {})

\* Documented (recording_integrity.py): a take that is recorder_lost, or was
\* incomplete at the end of the grace, never becomes complete.
LatchFinal == row.inc # "none" => row.state # "complete"
=============================================================================
