------------------------ MODULE RecordingJobsProofs ------------------------
(***************************************************************************)
(* Theorems about RecordingJobs, for any slices, declarations, take ids,   *)
(* attempts and faults.                                                    *)
(***************************************************************************)
EXTENDS RecordingJobs, FiniteSetTheorems, TLAPS

JobType == [status : Active \cup {"closed", "failed"}, attempts : 0..MaxAttempts]

-----------------------------------------------------------------------------
(***************************************************************************)
(* What the operators on rows return.                                      *)
(***************************************************************************)
LEMMA FieldValues ==
  /\ "absent" \notin States
  /\ {"recording", "finalizing", "complete", "incomplete"} \cup Terminal \subseteq States
  /\ {"none", "pending", "complete", "incomplete"} \subseteq Verdicts
  /\ {"none", "recorder_lost", "grace_expired", "missing_chunks"} \subseteq Reasons
  /\ NoFinal \in Finals /\ 0 \in Durations /\ NoTake \in Takes \cup {NoTake}
  /\ \A p \in Payloads : p.final \in Finals /\ p.dur \in Durations /\ p.lost \in BOOLEAN
  BY TakeConstants DEF States, Verdicts, Reasons, Finals, Durations, Terminal, Tombstones

LEMMA NoRowIsNone == NoRow \notin RowType
  BY FieldValues DEF NoRow, RowType

LEMMA NewRowIsRow == NewRow \in RowType
  BY FieldValues DEF NewRow, NoRow, RowType

LEMMA FieldsKeepType ==
  ASSUME NEW r \in RowType
  PROVE  /\ \A st \in States : [r EXCEPT !.state = st] \in RowType
         /\ \A t \in Takes : [r EXCEPT !.take = t] \in RowType
         /\ \A m \in SUBSET Slices : [r EXCEPT !.state = "transcoded", !.manifest = m] \in RowType
         /\ [r EXCEPT !.state = "uploaded", !.key = TRUE] \in RowType
         /\ [r EXCEPT !.state = "deleted", !.key = FALSE] \in RowType
         /\ \A i \in {"grace_expired", "missing_chunks"} :
              [r EXCEPT !.state = "incomplete", !.fin = "incomplete", !.inc = i] \in RowType
<1>1. "transcoded" \in States /\ "uploaded" \in States /\ "deleted" \in States /\ "incomplete" \in States
  BY FieldValues DEF Terminal, Tombstones
<1>2. {"grace_expired", "missing_chunks"} \subseteq Reasons /\ "incomplete" \in Verdicts
  BY FieldValues
<1> QED BY <1>1, <1>2 DEF RowType

LEMMA CompletedIsRow ==
  ASSUME NEW r \in RowType
  PROVE  Completed(r) \in RowType
  BY FieldValues DEF Completed, RowType

LEMMA FinalizedIsRow ==
  ASSUME NEW r \in RowType, NEW p \in Payloads, NEW seen \in SUBSET Slices
  PROVE  Finalized(r, p, seen) \in RowType
<1>1. Declared(r, p) \in RowType
  <2>1. \A l \in BOOLEAN : [r EXCEPT !.final = p.final, !.dur = p.dur, !.lost = l] \in RowType
    BY FieldValues DEF RowType
  <2>2. (p.lost \/ (Protected(r) /\ r.lost)) \in BOOLEAN
    OBVIOUS
  <2> QED BY <2>1, <2>2 DEF Declared
<1>2. ASSUME NEW x \in RowType
      PROVE  Latched(x) \in RowType /\ Pending(x) \in RowType
             /\ [Latched(x) EXCEPT !.inc = "recorder_lost"] \in RowType
  BY FieldValues DEF Latched, Pending, RowType
<1> QED BY <1>1, <1>2, CompletedIsRow DEF Finalized

LEMMA FlushIsRow ==
  ASSUME row \in RowType, NEW rec \in RowType, NEW new \in RowType
  PROVE  Flush(rec, new) \in RowType
  BY DEF Flush, RowType

-----------------------------------------------------------------------------
(***************************************************************************)
(* The jobs: a queued job has an attempt left.                             *)
(***************************************************************************)
Counted(js) ==
  /\ js \in [Kinds -> JobType]
  /\ \A k \in Kinds :
       /\ k \in DeleteKinds => js[k].attempts = 0
       /\ k \in Ordinary /\ js[k].status = "queued" => js[k].attempts < MaxAttempts

LEMMA AttemptBounds ==
  /\ MaxAttempts \in Nat \ {0}
  /\ 0 \in 0..MaxAttempts
  /\ \A k \in Kinds : k \in DeleteKinds <=> k \notin Ordinary
  BY JobConstants DEF Ordinary

LEMMA ChangeCounts ==
  ASSUME NEW js, Counted(js), NEW k \in Kinds, NEW j \in JobType,
         k \in DeleteKinds => j.attempts = 0,
         k \in Ordinary /\ j.status = "queued" => j.attempts < MaxAttempts
  PROVE  Counted([js EXCEPT ![k] = j])
  BY DEF Counted

LEMMA EnqueueCounts ==
  ASSUME NEW js, Counted(js), NEW k \in Kinds, NEW cond
  PROVE  Counted(Enqueue(js, k)) /\ Counted(EnqueueIf(cond, js, k))
<1>1. [status |-> "queued", attempts |-> 0] \in JobType
  BY AttemptBounds DEF JobType, Active
<1>2. Counted([js EXCEPT ![k] = [status |-> "queued", attempts |-> 0]])
  BY <1>1, ChangeCounts, AttemptBounds
<1> QED BY <1>2 DEF Enqueue, EnqueueIf

LEMMA ClosedCounts ==
  ASSUME NEW js, Counted(js), NEW k \in Kinds
  PROVE  Counted([js EXCEPT ![k] = Closed])
  BY ChangeCounts, AttemptBounds DEF JobType, Active, Closed

LEMMA CancelledCounts ==
  ASSUME NEW js, Counted(js)
  PROVE  Counted(Cancelled(js))
<1>1. Closed \in JobType /\ Closed.attempts = 0 /\ Closed.status # "queued"
  BY AttemptBounds DEF JobType, Active, Closed
<1> QED BY <1>1 DEF Counted, Cancelled

LEMMA RetriedCounts ==
  ASSUME Counted(jobs), NEW k \in Kinds
  PROVE  /\ Retried(k) \in JobType
         /\ k \in DeleteKinds => Retried(k).attempts = 0
         /\ k \in Ordinary /\ Retried(k).status = "queued" => Retried(k).attempts < MaxAttempts
  BY AttemptBounds DEF Counted, JobType, Active, Retried, Exhausted

LEMMA RecoveredCounts ==
  ASSUME Counted(jobs)
  PROVE  Counted(RecoveredJobs)
  BY RetriedCounts DEF Counted, RecoveredJobs

LEMMA JobFields ==
  ASSUME NEW j \in JobType, NEW n \in 0..MaxAttempts, NEW st \in Active
  PROVE  LET new == [j EXCEPT !.status = st, !.attempts = n] IN
         new \in JobType /\ new.attempts = n /\ new.status = st
  BY DEF JobType

LEMMA ClaimedCounts ==
  ASSUME Counted(jobs), NEW k \in Kinds, ClaimJob(k)
  PROVE  Counted(jobs')
<1> DEFINE n == IF k \in Ordinary THEN jobs[k].attempts + 1 ELSE jobs[k].attempts
           j == [jobs[k] EXCEPT !.status = "running", !.attempts = n]
<1>1. jobs' = [jobs EXCEPT ![k] = j]
  BY DEF ClaimJob, Counted
<1>2. jobs[k] \in JobType /\ jobs[k].attempts \in 0..MaxAttempts /\ jobs[k].status = "queued"
  BY DEF ClaimJob, Counted, JobType
<1>3. n \in 0..MaxAttempts /\ (k \in DeleteKinds => n = 0)
  BY <1>2, AttemptBounds DEF Counted
<1> HIDE DEF n
<1>4. j \in JobType /\ j.attempts = n /\ j.status = "running"
  BY <1>2, <1>3, JobFields DEF Active
<1> QED BY <1>1, <1>3, <1>4, ChangeCounts

LEMMA StoppedCounts ==
  ASSUME Counted(jobs), Stopped, worker.kind \in Kinds
  PROVE  Counted(jobs')
<1> DEFINE k == worker.kind
           n == IF jobs[k].attempts > 0 THEN jobs[k].attempts - 1 ELSE 0
           j == [jobs[k] EXCEPT !.status = "queued", !.attempts = n]
<1>1. jobs' = [jobs EXCEPT ![k] = j]
  BY DEF Stopped, Counted
<1>2. jobs[k] \in JobType /\ jobs[k].attempts \in 0..MaxAttempts
  BY DEF Counted, JobType
<1>3. n \in 0..MaxAttempts /\ n < MaxAttempts /\ (k \in DeleteKinds => n = 0)
  BY <1>2, AttemptBounds DEF Counted
<1> HIDE DEF n
<1>4. j \in JobType /\ j.attempts = n
  BY <1>2, <1>3, JobFields DEF Active
<1> QED BY <1>1, <1>3, <1>4, ChangeCounts

-----------------------------------------------------------------------------
(***************************************************************************)
(* Types.  A handler that has read a row finds one when it commits: a row  *)
(* is never removed.                                                       *)
(***************************************************************************)
Held ==
  /\ loop # Idle /\ loop.rec # NoRow => row # NoRow
  /\ loop.pc = "refreshing" => loop.rec # NoRow
  /\ thread # Idle => row # NoRow

\* TypeOK without the jobs, of which Counted says more.
Shape ==
  /\ row \in RowType \cup {NoRow}
  /\ files \subseteq Slices /\ mp4 \subseteq Slices /\ object \subseteq Slices
  /\ phase \in {"live", "ended", "expired"} /\ reading \subseteq Slices
  /\ loop \in {Idle} \cup [pc : {"storing", "recording", "refreshing"}, slice : Slices,
                           rec : RowType \cup {NoRow}]
  /\ thread \in {Idle} \cup [pc : {"writing"}, p : Payloads, rec : RowType, seen : SUBSET Slices]
  /\ granted \subseteq Takes /\ overtaken \in BOOLEAN
  /\ worker \in {Off} \cup [pc : Steps, kind : Kinds, final : Finals,
                            manifest : SUBSET Slices, whole : BOOLEAN]
  /\ faults \in 0..MaxFaults

Typed == Shape /\ Counted(jobs) /\ Held

LEMMA TypedIsTypeOK == Typed => TypeOK
  BY DEF Typed, Shape, TypeOK, Counted, JobType

LEMMA WitnessTyped == ASSUME NEW fresh, Witness(fresh) PROVE overtaken' \in BOOLEAN
  BY DEF Witness

LEMMA InitTyped == Init => Typed
<1> SUFFICES ASSUME Init PROVE Typed
  OBVIOUS
<1>1. Counted(jobs)
  BY AttemptBounds DEF Init, TakeInit, Counted, JobType, Active, Closed
<1>2. Shape
  <2>1. Init => overtaken \in BOOLEAN
    BY Zenon DEF Init, TakeInit
  <2> QED BY <2>1, JobConstants DEF Init, TakeInit, Shape
<1>3. Held
  BY DEF Init, TakeInit, Held, Idle
<1> QED BY <1>1, <1>2, <1>3 DEF Typed

LEMMA ClaimTyped ==
  ASSUME Typed, NEW t \in Takes, Claim(t), UNCHANGED jobVars
  PROVE  Typed'
<1>1. CASE row = NoRow /\ row' = [NewRow EXCEPT !.take = t]
  <2>1. row' \in RowType
    BY <1>1, NewRowIsRow, FieldsKeepType
  <2> QED BY <2>1, NoRowIsNone DEF Typed, Shape, Held, Claim, jobVars
<1>2. CASE UNCHANGED row
  BY <1>2 DEF Typed, Shape, Held, Claim, jobVars
<1> QED BY <1>1, <1>2 DEF Claim

LEMMA UploadTyped ==
  ASSUME Typed, Upload, UNCHANGED jobVars
  PROVE  Typed'
<1> USE DEF jobVars
<1>1. ASSUME NEW s \in Slices, ChunkArrives(s) PROVE Typed'
  BY <1>1 DEF Typed, Shape, Held, ChunkArrives
<1>2. ASSUME NEW s \in Slices, ChunkResumes(s) PROVE Typed'
  BY <1>2 DEF Typed, Shape, Held, ChunkResumes, Idle
<1>3. ASSUME NEW s \in Slices, ChunkInManifest(s) \/ ChunkRefused(s) PROVE Typed'
  BY <1>3 DEF Typed, Shape, Held, ChunkInManifest, ChunkRefused
<1>4. CASE ChunkStored
  BY <1>4 DEF Typed, Shape, Held, ChunkStored, Idle
<1>5. CASE ChunkConflicts \/ ChunkUnrecorded
  BY <1>5 DEF Typed, Shape, Held, ChunkConflicts, ChunkUnrecorded, Idle
<1>6. CASE ChunkRecorded
  <2>1. row' \in RowType /\ row' # NoRow
    BY <1>6, NewRowIsRow, NoRowIsNone DEF ChunkRecorded, Typed, Shape
  <2>2. loop \in [pc : {"storing", "recording", "refreshing"}, slice : Slices, rec : RowType \cup {NoRow}]
    BY <1>6 DEF ChunkRecorded, Typed, Shape, Idle
  <2> DEFINE rec == IF loop.rec = NoRow THEN row' ELSE loop.rec
  <2>3. rec \in RowType /\ rec # NoRow
    BY <2>1, <2>2, NoRowIsNone
  <2>4. loop' = Idle \/ loop' = [loop EXCEPT !.pc = "refreshing", !.rec = rec]
    BY <1>6 DEF ChunkRecorded
  <2> HIDE DEF rec
  <2>5. /\ loop' \in {Idle} \cup [pc : {"storing", "recording", "refreshing"}, slice : Slices,
                                  rec : RowType \cup {NoRow}]
        /\ loop'.pc = "refreshing" => loop'.rec # NoRow
    <3>1. CASE loop' = Idle
      BY <3>1 DEF Idle
    <3>2. CASE loop' = [loop EXCEPT !.pc = "refreshing", !.rec = rec]
      <4>1. /\ loop' \in [pc : {"storing", "recording", "refreshing"}, slice : Slices,
                          rec : RowType \cup {NoRow}]
            /\ loop'.rec = rec
        BY <3>2, <2>2, <2>3
      <4> QED BY <4>1, <2>3
    <3> QED BY <3>1, <3>2, <2>4
  <2> QED BY <1>6, <2>1, <2>5 DEF ChunkRecorded, Typed, Shape, Held
<1>7. CASE ChunkRefreshes
  <2>1. loop.rec \in RowType /\ row \in RowType
    BY <1>7 DEF ChunkRefreshes, Typed, Shape, Held, Idle
  <2>2. row' \in RowType
    BY <1>7, <2>1, CompletedIsRow, FlushIsRow DEF ChunkRefreshes, Commit
  <2>3. Counted(jobs')
    BY <1>7, EnqueueCounts DEF ChunkRefreshes, Typed, Kinds
  <2>4. overtaken' \in BOOLEAN
    BY <1>7, WitnessTyped DEF ChunkRefreshes
  <2> QED BY <1>7, <2>2, <2>3, <2>4, NoRowIsNone DEF ChunkRefreshes, Typed, Shape, Held, Idle
<1> QED BY <1>1, <1>2, <1>3, <1>4, <1>5, <1>6, <1>7 DEF Upload

LEMMA FinalizeTyped ==
  ASSUME Typed, Finalize, UNCHANGED jobVars
  PROVE  Typed'
<1> USE DEF jobVars
<1>1. ASSUME NEW p \in Payloads, FinalizeFirst(p) PROVE Typed'
  <2>1. row' \in RowType
    BY <1>1, NewRowIsRow, FinalizedIsRow DEF FinalizeFirst, Typed, Shape
  <2>2. Counted(jobs')
    BY <1>1, EnqueueCounts DEF FinalizeFirst, Typed, Kinds
  <2> QED BY <1>1, <2>1, <2>2, NoRowIsNone DEF FinalizeFirst, Typed, Shape, Held
<1>2. ASSUME NEW p \in Payloads, FinalizeReads(p) PROVE Typed'
  BY <1>2 DEF FinalizeReads, Typed, Shape, Held, Idle
<1>3. CASE FinalizeWrites
  <2>1. thread \in [pc : {"writing"}, p : Payloads, rec : RowType, seen : SUBSET Slices] /\ row \in RowType
    BY <1>3 DEF FinalizeWrites, Typed, Shape, Held, Idle
  <2>2. row' \in RowType
    BY <1>3, <2>1, FinalizedIsRow, FlushIsRow DEF FinalizeWrites, Commit
  <2>3. Counted(jobs')
    BY <1>3, EnqueueCounts DEF FinalizeWrites, Typed, Kinds
  <2>4. overtaken' \in BOOLEAN
    BY <1>3, WitnessTyped DEF FinalizeWrites
  <2> QED BY <1>3, <2>2, <2>3, <2>4, NoRowIsNone DEF FinalizeWrites, Typed, Shape, Held
<1>4. CASE FinalizeFails
  BY <1>4 DEF FinalizeFails, Typed, Shape, Held
<1> QED BY <1>1, <1>2, <1>3, <1>4 DEF Finalize

LEMMA RoutesTyped ==
  ASSUME Typed, Routes, UNCHANGED jobVars
  PROVE  Typed'
<1> USE DEF jobVars
<1>1. CASE End
  <2>1. row' \in RowType
    <3>1. "finalizing" \in States
      BY FieldValues
    <3> QED BY <1>1, <3>1, NewRowIsRow, FieldsKeepType DEF End, Typed, Shape
  <2>2. Counted(jobs')
    BY <1>1, EnqueueCounts DEF End, Typed, Kinds
  <2> QED BY <1>1, <2>1, <2>2, NoRowIsNone DEF End, Typed, Shape, Held
<1>2. CASE GraceExpires
  BY <1>2 DEF GraceExpires, Typed, Shape, Held
<1>3. CASE Process \/ View
  <2>1. Counted(jobs')
    BY <1>3, EnqueueCounts DEF Process, View, Typed, Kinds
  <2> QED BY <1>3, <2>1 DEF Process, View, Typed, Shape, Held
<1>4. CASE Delete
  <2> DEFINE r == IF row = NoRow THEN NewRow ELSE row
  <2>1. r \in RowType
    BY NewRowIsRow DEF Typed, Shape
  <2>2. r.state \in States /\ "deleting" \in States
    BY <2>1, FieldValues DEF RowType, Terminal, Tombstones
  <2>3. row' = [r EXCEPT !.state = IF r.state \in Tombstones THEN r.state ELSE "deleting"]
    BY <1>4 DEF Delete
  <2> HIDE DEF r
  <2>4. row' \in RowType
    BY <2>1, <2>2, <2>3, FieldsKeepType
  <2>5. Counted(jobs')
    BY <1>4, CancelledCounts, EnqueueCounts DEF Delete, Typed, Kinds
  <2> QED BY <1>4, <2>4, <2>5, NoRowIsNone DEF Delete, Typed, Shape, Held
<1> QED BY <1>1, <1>2, <1>3, <1>4, ClaimTyped, UploadTyped, FinalizeTyped DEF Routes

-----------------------------------------------------------------------------
(***************************************************************************)
(* The steps of the worker.                                                *)
(***************************************************************************)
LEMMA ClaimJobTyped ==
  ASSUME Typed, NEW k \in Kinds, ClaimJob(k)
  PROVE  Typed'
<1>1. Counted(jobs')
  BY ClaimedCounts DEF Typed
<1>2. worker' \in [pc : Steps, kind : Kinds, final : Finals, manifest : SUBSET Slices, whole : BOOLEAN]
  BY FieldValues DEF ClaimJob, Steps, Guarded
<1> QED BY <1>1, <1>2 DEF ClaimJob, Typed, Shape, Held

Jobs == [pc : Steps, kind : Kinds, final : Finals, manifest : SUBSET Slices, whole : BOOLEAN]

LEMMA GotoTyped ==
  ASSUME worker \in Jobs, NEW pc \in Steps
  PROVE  [worker EXCEPT !.pc = pc] \in Jobs
  BY DEF Jobs

LEMMA StateIsRow ==
  ASSUME NEW r \in RowType \cup {NoRow}, r.state \in States \/ r.fin = "complete"
  PROVE  r \in RowType
  BY FieldValues DEF NoRow

LEMMA TranscodeFailedIsRow ==
  ASSUME row \in RowType \cup {NoRow}, row.state = "transcoding" \/ row.fin = "complete"
  PROVE  row \in RowType /\ [row EXCEPT !.state = "transcode_failed"] \in RowType
<1>1. "transcoding" \in States /\ "transcode_failed" \in States
  BY FieldValues DEF Terminal
<1>2. row \in RowType
  BY <1>1, StateIsRow
<1> QED BY <1>1, <1>2, FieldsKeepType

LEMMA StepNames ==
  /\ Guarded \cup Outcomes \cup {"handing", "put", "burying", "closing"} \subseteq Steps
  /\ {"claimed", "checked", "remuxing", "remuxed", "cleaning", "putting", "removing", "erasing",
      "done", "failing", "cancelling", "handing", "put", "burying", "closing"} \subseteq Steps
  BY DEF Steps, Guarded, Outcomes

\* The steps that end a job, or the process.
LEMMA EndsTyped ==
  ASSUME Typed, Finished \/ Failed \/ FinishLost \/ Stopped \/ Restart
  PROVE  Typed'
<1> USE DEF jobVars, takeVars, Fault
<1>1. CASE Finished
  <2>1. Counted(jobs')
    <3>1. worker.kind \in Kinds
      BY <1>1 DEF Finished, Busy, Typed, Shape, Off
    <3> QED BY <1>1, <3>1, ClosedCounts DEF Finished, Typed
  <2> QED BY <1>1, <2>1 DEF Finished, Typed, Shape, Held
<1>2. CASE Failed
  <2>1. worker.kind \in Kinds
    BY <1>2 DEF Failed, Busy, Typed, Shape, Off
  <2>2. Counted(jobs')
    BY <1>2, <2>1, RetriedCounts, ChangeCounts DEF Failed, Typed
  <2>3. row' = row \/ (row.fin = "complete" /\ row' = [row EXCEPT !.state = "transcode_failed"])
    BY <1>2 DEF Failed
  <2>4. row' = row \/ (row \in RowType /\ row' \in RowType)
    BY <2>3, TranscodeFailedIsRow DEF Typed, Shape
  <2> QED BY <1>2, <2>2, <2>4, NoRowIsNone DEF Failed, Typed, Shape, Held
<1>3. CASE FinishLost
  BY <1>3, JobConstants DEF FinishLost, Typed, Shape, Held
<1>4. CASE Stopped
  <2>1. Counted(jobs')
    BY <1>4, StoppedCounts DEF Stopped, Typed, Shape
  <2> QED BY <1>4, <2>1, JobConstants DEF Stopped, Typed, Shape, Held
<1>5. CASE Restart
  <2>1. Counted(jobs')
    BY <1>5, RecoveredCounts, EnqueueCounts DEF Restart, Reconciled, Typed, Kinds
  <2>2. row' = row \/ (row \in RowType /\ row' \in RowType)
    <3>1. row' = row \/ (row.state = "transcoding" /\ row' = [row EXCEPT !.state = "transcode_failed"])
      BY <1>5 DEF Restart, RecoveredRow
    <3> QED BY <3>1, TranscodeFailedIsRow DEF Typed, Shape
  <2> QED BY <1>5, <2>1, <2>2, JobConstants, NoRowIsNone DEF Restart, HandlersLost, Typed, Shape, Held, Idle
<1> QED BY <1>1, <1>2, <1>3, <1>4, <1>5

LEMMA MaintenanceTyped ==
  ASSUME Typed, Maintenance
  PROVE  Typed'
<1> USE DEF jobVars
<1>1. CASE LeaseExpires
  <2>1. Counted(jobs')
    BY <1>1, RecoveredCounts DEF LeaseExpires, Typed
  <2>2. row' = row \/ (row \in RowType /\ row' \in RowType)
    <3>1. row' = row \/ (row.state = "transcoding" /\ row' = [row EXCEPT !.state = "transcode_failed"])
      BY <1>1 DEF LeaseExpires, RecoveredRow
    <3> QED BY <3>1, TranscodeFailedIsRow DEF Typed, Shape
  <2> QED BY <1>1, <2>1, <2>2, NoRowIsNone DEF LeaseExpires, Typed, Shape, Held
<1>2. CASE Resubmit \/ Reconcile
  <2>1. Counted(jobs')
    BY <1>2, EnqueueCounts DEF Resubmit, Resubmitted, Reconcile, Reconciled, Typed, Kinds
  <2> QED BY <1>2, <2>1 DEF Resubmit, Reconcile, Typed, Shape, Held
<1> QED BY <1>1, <1>2 DEF Maintenance

LEMMA MovesTyped ==
  ASSUME Typed, Unrunnable \/ StepFails
  PROVE  Typed'
<1>1. worker \in Jobs
  BY DEF Unrunnable, StepFails, Doing, Typed, Shape, Jobs
<1>2. worker' \in Jobs
  BY <1>1, GotoTyped, StepNames DEF Unrunnable, StepFails, Goto
<1>3. faults' \in 0..MaxFaults
  BY JobConstants DEF Unrunnable, StepFails, Fault, Typed, Shape
<1> QED BY <1>2, <1>3 DEF Unrunnable, StepFails, Typed, Shape, Held, takeVars, Jobs

LEMMA TranscodeTyped ==
  ASSUME Typed,
         TranscodeChecks \/ SetTranscoding \/ Remux \/ SetTranscoded \/ Clean \/ HandOver
  PROVE  Typed'
<1> USE DEF RowStays
<1>0. worker \in Jobs
  BY DEF TranscodeChecks, SetTranscoding, Remux, SetTranscoded, Clean, HandOver, Doing, Typed, Shape, Jobs
<1>1. CASE TranscodeChecks
  <2>1. row.final \in Finals /\ row.manifest \in SUBSET Slices
    BY FieldValues DEF Typed, Shape, RowType, NoRow
  <2>2. worker' \in Jobs
    <3> DEFINE pc == IF row.manifest # {} \/ Whole(row, files) THEN "checked" ELSE "failing"
    <3>1. pc \in Steps
      BY StepNames
    <3>2. worker' = [worker EXCEPT !.pc = pc, !.final = row.final, !.manifest = row.manifest]
      BY <1>1 DEF TranscodeChecks
    <3> HIDE DEF pc
    <3> QED BY <1>0, <2>1, <3>1, <3>2 DEF Jobs
  <2> QED BY <1>1, <2>2 DEF TranscodeChecks, Typed, Shape, Held, Jobs
<1>2. CASE SetTranscoding
  <2>1. row \in RowType
    BY <1>2, StateIsRow DEF SetTranscoding, Settable, Typed, Shape
  <2>2. row' \in RowType
    <3>1. "transcoding" \in States
      BY FieldValues DEF Terminal
    <3> QED BY <1>2, <2>1, <3>1, FieldsKeepType DEF SetTranscoding
  <2>3. worker' \in Jobs
    BY <1>0, <1>2, GotoTyped, StepNames DEF SetTranscoding, Goto
  <2> QED BY <1>2, <2>1, <2>2, <2>3, NoRowIsNone DEF SetTranscoding, Typed, Shape, Held, Jobs
<1>3. CASE Remux
  <2>1. worker' \in Jobs
    BY <1>0, <1>3, GotoTyped, StepNames DEF Remux, Goto
  <2>2. mp4' \subseteq Slices
    BY <1>3 DEF Remux, Typed, Shape
  <2> QED BY <1>3, <2>1, <2>2 DEF Remux, Typed, Shape, Held, Jobs
<1>4. CASE SetTranscoded
  <2>1. row \in RowType
    BY <1>4, StateIsRow DEF SetTranscoded, Settable, Typed, Shape
  <2>2. row' \in RowType
    <3>1. (IF worker.manifest # {} THEN worker.manifest ELSE files) \in SUBSET Slices
      BY <1>0 DEF Typed, Shape, Jobs
    <3> QED BY <1>4, <2>1, <3>1, FieldsKeepType DEF SetTranscoded
  <2>3. worker' \in Jobs
    BY <1>0, <1>4, GotoTyped, StepNames DEF SetTranscoded, Goto
  <2> QED BY <1>4, <2>1, <2>2, <2>3, NoRowIsNone DEF SetTranscoded, Typed, Shape, Held, Jobs
<1>5. CASE Clean
  <2>1. worker' \in Jobs
    BY <1>0, <1>5, GotoTyped, StepNames DEF Clean, Goto
  <2> QED BY <1>5, <2>1 DEF Clean, Typed, Shape, Held, Jobs
<1>6. CASE HandOver
  <2>1. worker' \in Jobs
    BY <1>0, <1>6, GotoTyped, StepNames DEF HandOver, Goto
  <2>2. Counted(jobs')
    BY <1>6, EnqueueCounts DEF HandOver, Typed, Kinds
  <2> QED BY <1>6, <2>1, <2>2 DEF HandOver, Typed, Shape, Held, Jobs
<1> QED BY <1>1, <1>2, <1>3, <1>4, <1>5, <1>6

LEMMA StoreTyped ==
  ASSUME Typed,
         UploadChecks \/ PutObject \/ SetUploaded \/ Orphaned \/ DeleteChecks \/ RemoveObject
           \/ Erase \/ Bury \/ RemoveOrphan
  PROVE  Typed'
<1> USE DEF RowStays
<1>0. worker \in Jobs
  BY DEF UploadChecks, PutObject, SetUploaded, Orphaned, DeleteChecks, RemoveObject, Erase, Bury,
         RemoveOrphan, Doing, Typed, Shape, Jobs
<1>1. worker' \in Jobs
  BY <1>0, GotoTyped, StepNames
     DEF UploadChecks, PutObject, SetUploaded, Orphaned, DeleteChecks, RemoveObject, Erase, Bury,
         RemoveOrphan, Goto
<1>2. CASE UploadChecks \/ PutObject \/ DeleteChecks \/ RemoveObject \/ Erase \/ RemoveOrphan
  BY <1>1, <1>2 DEF UploadChecks, PutObject, DeleteChecks, RemoveObject, Erase, RemoveOrphan,
                    Typed, Shape, Held, Jobs
<1>3. CASE SetUploaded
  <2>1. row \in RowType
    BY <1>3, StateIsRow DEF SetUploaded, Settable, Typed, Shape
  <2>2. row' \in RowType
    BY <1>3, <2>1, FieldsKeepType DEF SetUploaded
  <2> QED BY <1>1, <1>3, <2>1, <2>2, NoRowIsNone DEF SetUploaded, Typed, Shape, Held, Jobs
<1>4. CASE Orphaned
  <2>1. Counted(jobs')
    BY <1>4, EnqueueCounts DEF Orphaned, Typed, Kinds
  <2> QED BY <1>1, <1>4, <2>1 DEF Orphaned, Typed, Shape, Held, Jobs
<1>5. CASE Bury
  <2>1. row' = row \/ (row \in RowType /\ row' \in RowType)
    <3>1. CASE row.state = "deleting"
      <4>1. row \in RowType
        BY <3>1, StateIsRow, FieldValues DEF Typed, Shape, Terminal, Tombstones
      <4> QED BY <1>5, <3>1, <4>1, FieldsKeepType DEF Bury
    <3> QED BY <1>5, <3>1 DEF Bury
  <2> QED BY <1>1, <1>5, <2>1, NoRowIsNone DEF Bury, Typed, Shape, Held, Jobs
<1> QED BY <1>2, <1>3, <1>4, <1>5

LEMMA GraceTyped ==
  ASSUME Typed, GraceDecides \/ GraceCloses
  PROVE  Typed'
<1> USE DEF RowStays
<1>0. worker \in Jobs
  BY DEF GraceDecides, GraceCloses, Doing, Typed, Shape, Jobs
<1>1. CASE GraceDecides
  <2>1. row.final \in Finals
    BY FieldValues DEF Typed, Shape, RowType, NoRow
  <2>2. worker' \in Jobs
    <3> DEFINE pc == IF row.state \in Open /\ ~Protected(row) THEN "closing" ELSE "done"
               w == Whole(row, files)
    <3>1. pc \in Steps /\ w \in BOOLEAN
      BY StepNames DEF Whole
    <3>2. worker' = [worker EXCEPT !.pc = pc, !.final = row.final, !.whole = w]
      BY <1>1 DEF GraceDecides
    <3> HIDE DEF pc, w
    <3> QED BY <1>0, <2>1, <3>1, <3>2 DEF Jobs
  <2> QED BY <1>1, <2>2 DEF GraceDecides, Typed, Shape, Held, Jobs
<1>2. CASE GraceCloses
  <2>1. worker' \in Jobs
    BY <1>0, <1>2, GotoTyped, StepNames DEF GraceCloses, Goto
  <2>2. Counted(jobs')
    BY <1>2, EnqueueCounts DEF GraceCloses, Typed, Kinds
  <2>3. row' = row \/ (row \in RowType /\ row' \in RowType)
    <3>1. CASE Claimable(row)
      <4>1. row \in RowType
        BY <3>1, StateIsRow, FieldValues DEF Claimable, Open, Typed, Shape
      <4>2. ClosedRow \in RowType
        <5> DEFINE i == IF worker.final = NoFinal THEN "grace_expired" ELSE "missing_chunks"
        <5>1. i \in {"grace_expired", "missing_chunks"}
          OBVIOUS
        <5>2. ClosedRow = Completed(row)
              \/ ClosedRow = [row EXCEPT !.state = "incomplete", !.fin = "incomplete", !.inc = i]
          BY DEF ClosedRow
        <5> HIDE DEF i
        <5> QED BY <4>1, <5>1, <5>2, CompletedIsRow, FieldsKeepType
      <4> QED BY <1>2, <3>1, <4>1, <4>2 DEF GraceCloses
    <3> QED BY <1>2, <3>1 DEF GraceCloses
  <2>4. overtaken' \in BOOLEAN
    BY <1>2, WitnessTyped DEF GraceCloses
  <2> QED BY <1>2, <2>1, <2>2, <2>3, <2>4, NoRowIsNone DEF GraceCloses, Typed, Shape, Held, Jobs
<1> QED BY <1>1, <1>2

LEMMA NextTyped ==
  ASSUME Typed, [Next]_vars
  PROVE  Typed'
<1>1. CASE UNCHANGED vars
  BY <1>1 DEF Typed, Shape, Counted, Held, vars, takeVars, jobVars
<1>2. CASE Next
  BY <1>2, RoutesTyped, ClaimJobTyped, EndsTyped, MaintenanceTyped, MovesTyped, TranscodeTyped,
     StoreTyped, GraceTyped DEF Next, JobStep, Faulty
<1> QED BY <1>1, <1>2

\* What the take, its files and its jobs are; a job is tried MaxAttempts times
\* at most.
THEOREM TakeTyped == Spec => []TypeOK
<1>1. Init => Typed
  BY InitTyped
<1>2. Typed /\ [Next]_vars => Typed'
  BY NextTyped
<1>3. Typed => TypeOK
  BY TypedIsTypeOK
<1> QED BY <1>1, <1>2, <1>3, PTL DEF Spec

-----------------------------------------------------------------------------
(***************************************************************************)
(* One take: who was granted the take is the one named in the row.  No     *)
(* commit, however stale, writes that column.                              *)
(***************************************************************************)
Granted == granted \subseteq {row.take}

LEMMA TakeColumn ==
  ASSUME NEW r \in RowType
  PROVE  /\ Completed(r).take = r.take
         /\ \A p \in Payloads, seen \in SUBSET Slices : Finalized(r, p, seen).take = r.take
<1>1. \A x \in RowType : Completed(x).take = x.take /\ Latched(x).take = x.take /\ Pending(x).take = x.take
                         /\ [Latched(x) EXCEPT !.inc = "recorder_lost"].take = x.take
  BY DEF RowType, Completed, Latched, Pending
<1>2. ASSUME NEW p \in Payloads, NEW seen \in SUBSET Slices
      PROVE  Finalized(r, p, seen).take = r.take
  <2>1. Declared(r, p) \in RowType /\ Declared(r, p).take = r.take
    <3>1. \A l \in BOOLEAN : LET d == [r EXCEPT !.final = p.final, !.dur = p.dur, !.lost = l] IN
            d \in RowType /\ d.take = r.take
      BY FieldValues DEF RowType
    <3>2. (p.lost \/ (Protected(r) /\ r.lost)) \in BOOLEAN
      OBVIOUS
    <3> QED BY <3>1, <3>2 DEF Declared
  <2>2. Pending(Declared(r, p)) \in RowType
    BY <2>1, FieldValues DEF Pending, RowType
  <2> QED BY <1>1, <2>1, <2>2 DEF Finalized
<1> QED BY <1>1, <1>2

LEMMA FlushColumn ==
  ASSUME NEW rec, NEW new, row \in RowType, new.take = rec.take
  PROVE  Flush(rec, new).take = row.take
  BY DEF Flush, RowType

LEMMA TakeStays ==
  ASSUME Typed, Next, \A t \in Takes : ~Claim(t)
  PROVE  row'.take = row.take /\ granted' = granted
<1>0. \A r \in RowType \cup {NoRow}, st \in States \cup {"deleting"} : [r EXCEPT !.state = st].take = r.take
  BY DEF RowType, NoRow
<1>1. NewRow.take = NoRow.take /\ NewRow \in RowType
  BY NewRowIsRow DEF NewRow, NoRow
<1>2. CASE Routes /\ UNCHANGED jobVars
  <2>1. CASE Upload
    <3>1. CASE ChunkRefreshes
      <4>1. loop.rec \in RowType /\ row \in RowType
        BY <3>1 DEF ChunkRefreshes, Typed, Shape, Held, Idle
      <4> QED BY <3>1, <4>1, TakeColumn, FlushColumn DEF ChunkRefreshes, Commit
    <3>2. CASE ChunkRecorded
      BY <3>2, <1>1 DEF ChunkRecorded
    <3> QED BY <2>1, <3>1, <3>2
            DEF Upload, ChunkArrives, ChunkResumes, ChunkInManifest, ChunkRefused, ChunkStored,
                ChunkConflicts, ChunkUnrecorded
  <2>2. CASE Finalize
    <3>1. CASE FinalizeWrites
      <4>1. thread.rec \in RowType /\ row \in RowType /\ thread.p \in Payloads /\ thread.seen \in SUBSET Slices
        BY <3>1 DEF FinalizeWrites, Typed, Shape, Held, Idle
      <4> QED BY <3>1, <4>1, TakeColumn, FlushColumn DEF FinalizeWrites, Commit
    <3>2. ASSUME NEW p \in Payloads, FinalizeFirst(p) PROVE row'.take = row.take /\ granted' = granted
      BY <3>2, <1>1, TakeColumn DEF FinalizeFirst, Typed, Shape
    <3> QED BY <2>2, <3>1, <3>2 DEF Finalize, FinalizeReads, FinalizeFails
  <2>3. CASE End
    BY <2>3, <1>1 DEF End, Typed, Shape, RowType, NewRow, NoRow
  <2>4. CASE Delete
    BY <2>4, <1>1 DEF Delete, Typed, Shape, RowType, NewRow, NoRow
  <2>5. CASE GraceExpires \/ Process \/ View
    BY <2>5 DEF GraceExpires, Process, View
  <2> QED BY <1>2, <2>1, <2>2, <2>3, <2>4, <2>5 DEF Routes
<1>3. CASE \E k \in Kinds : ClaimJob(k)
  BY <1>3 DEF ClaimJob
<1>4. CASE JobStep
  <2>1. CASE Failed
    BY <2>1 DEF Failed, Typed, Shape, RowType, NoRow
  <2>2. CASE SetTranscoding \/ SetTranscoded \/ SetUploaded \/ Bury
    BY <2>2 DEF SetTranscoding, SetTranscoded, SetUploaded, Bury, Typed, Shape, RowType, NoRow
  <2>3. CASE GraceCloses
    <3>1. ClosedRow.take = row.take
      BY DEF ClosedRow, Completed, Typed, Shape, RowType, NoRow
    <3> QED BY <2>3, <3>1 DEF GraceCloses
  <2> QED BY <1>4, <2>1, <2>2, <2>3
          DEF JobStep, Finished, Unrunnable, TranscodeChecks, Remux, Clean, HandOver, UploadChecks,
              PutObject, Orphaned, DeleteChecks, RemoveObject, Erase, RemoveOrphan, GraceDecides,
              RowStays, takeVars
<1>5. CASE Maintenance \/ Faulty
  <2>1. RecoveredRow.take = row.take
    BY DEF RecoveredRow, Typed, Shape, RowType, NoRow
  <2> QED BY <1>5, <2>1
          DEF Maintenance, Faulty, LeaseExpires, Resubmit, Reconcile, StepFails, FinishLost, Stopped,
              Restart, takeVars
<1> QED BY <1>2, <1>3, <1>4, <1>5 DEF Next

LEMMA GrantedStep ==
  ASSUME Typed, Granted, [Next]_vars
  PROVE  Granted'
<1>1. ASSUME NEW t \in Takes, Claim(t) PROVE Granted'
  <2>1. CASE row = NoRow /\ row' = [NewRow EXCEPT !.take = t]
    <3>1. granted = {}
      BY <2>1, TakeConstants DEF Granted, NoRow, Typed, Shape
    <3>2. row'.take = t
      BY <2>1 DEF NewRow, NoRow
    <3> QED BY <1>1, <3>1, <3>2 DEF Claim, Granted
  <2>2. CASE row.take = t /\ UNCHANGED row
    BY <1>1, <2>2 DEF Claim, Granted
  <2> QED BY <1>1, <2>1, <2>2 DEF Claim
<1>2. CASE UNCHANGED vars
  BY <1>2 DEF Granted, vars, takeVars
<1> QED BY <1>1, <1>2, TakeStays DEF Granted

\* Of two tabs that ask for the take of a session, one at most is ever told
\* that it may record, whatever the other requests and the jobs write meanwhile.
THEOREM OneTakeCorrect == Spec => []OneTake
<1>1. Init => Typed /\ Granted
  BY InitTyped DEF Init, TakeInit, Granted
<1>2. Typed /\ Granted /\ [Next]_vars => (Typed /\ Granted)'
  BY NextTyped, GrantedStep
<1>3. Granted => OneTake
  <2>1. IsFiniteSet({row.take}) /\ Cardinality({row.take}) = 1
    BY FS_Singleton
  <2>2. Granted => Cardinality(granted) <= Cardinality({row.take})
    BY <2>1, FS_Subset DEF Granted
  <2> QED BY <2>1, <2>2 DEF OneTake
<1> QED BY <1>1, <1>2, <1>3, PTL DEF Spec

-----------------------------------------------------------------------------
(***************************************************************************)
(* What is final.  A tombstone and a latch hold, unless a commit overtakes *)
(* the row: one that does not, writes what its handler would decide on the *)
(* present row, or leaves the row as it is.                                *)
(***************************************************************************)
\* A latched take is incomplete, in its state and in its verdict.
Latch(rec) ==
  rec.inc # "none" => rec.fin = "incomplete" /\ rec.state \in {"incomplete"} \cup Tombstones

\* What a step may do to a row: a tombstone stays one and LatchHolds, of two rows.
Rightly(rec, new) ==
  /\ rec.state \in Tombstones => new.state \in Tombstones
  /\ rec.inc # "none" => new.inc = rec.inc /\ new.state \in {"incomplete"} \cup Tombstones
  /\ Latch(rec) => Latch(new)

LEMMA Commits ==
  ASSUME ~overtaken'
  PROVE  /\ ChunkRefreshes =>
              UNCHANGED row \/ (row' = Completed(row) /\ Refreshable(row) /\ Whole(row, files))
         /\ FinalizeWrites =>
              \/ UNCHANGED row
              \/ /\ row' = Finalized(row, thread.p, thread.seen)
                 /\ ~Refused(row, thread.p, thread.seen)
         /\ GraceCloses /\ Claimable(row) /\ worker.whole => UNCHANGED row \/ Whole(row, files)
  BY DEF ChunkRefreshes, FinalizeWrites, GraceCloses, Witness

LEMMA OvertakenStays ==
  ASSUME [Next]_vars, ~overtaken'
  PROVE  ~overtaken
<1>1. CASE UNCHANGED overtaken
  BY <1>1
<1>2. CASE ChunkRefreshes \/ FinalizeWrites \/ GraceCloses
  BY <1>2 DEF ChunkRefreshes, FinalizeWrites, GraceCloses, Witness
<1>3. CASE Routes
  BY <1>1, <1>2, <1>3
     DEF Routes, Claim, Upload, ChunkArrives, ChunkResumes, ChunkInManifest, ChunkRefused, ChunkStored,
         ChunkConflicts, ChunkRecorded, ChunkUnrecorded, Finalize, FinalizeFirst, FinalizeReads,
         FinalizeFails, End, GraceExpires, Process, View, Delete
<1>4. CASE JobStep
  BY <1>1, <1>2, <1>4
     DEF JobStep, Finished, Failed, Unrunnable, TranscodeChecks, SetTranscoding, Remux, SetTranscoded,
         Clean, HandOver, UploadChecks, PutObject, SetUploaded, Orphaned, DeleteChecks, RemoveObject,
         Erase, Bury, RemoveOrphan, GraceDecides, RowStays, takeVars
<1> QED BY <1>1, <1>3, <1>4
        DEF Next, vars, takeVars, ClaimJob, Maintenance, LeaseExpires, Resubmit, Reconcile, Faulty,
            StepFails, FinishLost, Stopped, Restart

LEMMA SameRow == \A rec : Rightly(rec, rec) <=> (rec.inc # "none" => rec.state \in {"incomplete"} \cup Tombstones)
  BY DEF Rightly

\* A row without a latch that keeps none, and leaves no tombstone.
LEMMA UnlatchedRightly ==
  ASSUME NEW rec, NEW new, rec.state \in Tombstones => new.state \in Tombstones,
         rec.inc = "none", Latch(new)
  PROVE  Rightly(rec, new)
  BY DEF Rightly

LEMMA CompletedRightly ==
  ASSUME NEW rec \in RowType, rec.state \notin Tombstones \cup {"incomplete"}, Latch(rec)
  PROVE  Rightly(rec, Completed(rec))
<1>1. rec.inc = "none"
  BY DEF Latch
<1>2. Completed(rec).inc = "none"
  BY DEF Completed, RowType
<1> QED BY <1>1, <1>2, UnlatchedRightly DEF Latch

LEMMA FinalizedRightly ==
  ASSUME NEW rec \in RowType, NEW p \in Payloads, NEW seen \in SUBSET Slices,
         Latch(rec), ~Refused(rec, p, seen)
  PROVE  Rightly(rec, Finalized(rec, p, seen))
<1>1. rec.state \notin Tombstones
  BY DEF Refused
<1> DEFINE d == Declared(rec, p)
<1>2. d \in RowType /\ d.state = rec.state /\ d.fin = rec.fin /\ d.inc = rec.inc /\ d.op = rec.op
  <2>1. \A l \in BOOLEAN : LET x == [rec EXCEPT !.final = p.final, !.dur = p.dur, !.lost = l] IN
          x \in RowType /\ x.state = rec.state /\ x.fin = rec.fin /\ x.inc = rec.inc /\ x.op = rec.op
    BY FieldValues DEF RowType
  <2>2. (p.lost \/ (Protected(rec) /\ rec.lost)) \in BOOLEAN
    OBVIOUS
  <2> QED BY <2>1, <2>2 DEF Declared
<1>3. /\ Latched(d).state = "incomplete" /\ Latched(d).fin = "incomplete" /\ Latched(d).inc = rec.inc
      /\ LET x == [Latched(d) EXCEPT !.inc = "recorder_lost"] IN
         x.state = "incomplete" /\ x.fin = "incomplete" /\ x.inc = "recorder_lost"
      /\ Pending(d).inc = rec.inc /\ Pending(d) \in RowType
  BY <1>2, FieldValues DEF Latched, Pending, RowType
<1>4. Completed(Pending(d)).inc = "none"
  BY <1>3 DEF Completed, RowType
<1> HIDE DEF d
<1>5. CASE Protected(rec)
  <2>1. Finalized(rec, p, seen) = Latched(d)
    BY <1>5 DEF Finalized, d
  <2> QED BY <1>1, <1>3, <2>1 DEF Rightly, Latch
<1>6. CASE ~Protected(rec) /\ rec.state = "incomplete"
  <2>1. Finalized(rec, p, seen) = d
    BY <1>6 DEF Finalized, d
  <2> QED BY <1>1, <1>2, <1>6, <2>1 DEF Rightly, Latch
<1>7. CASE ~Protected(rec) /\ rec.state # "incomplete"
  <2>1. rec.inc = "none"
    BY <1>1, <1>7 DEF Latch
  <2>2. \/ Finalized(rec, p, seen) = [Latched(d) EXCEPT !.inc = "recorder_lost"]
        \/ Finalized(rec, p, seen) = Completed(Pending(d))
        \/ Finalized(rec, p, seen) = Pending(d)
    BY <1>7 DEF Finalized, d
  <2>3. Latch(Finalized(rec, p, seen))
    BY <1>3, <1>4, <2>1, <2>2 DEF Latch
  <2> QED BY <1>1, <2>1, <2>3, UnlatchedRightly
<1> QED BY <1>5, <1>6, <1>7

\* A change of the state, and of what does not concern the latch.
LEMMA ChangedRightly ==
  ASSUME NEW rec, NEW new, Latch(rec), new.inc = rec.inc, new.fin = rec.fin,
         \/ new.state \in Tombstones
         \/ rec.state \notin Tombstones \cup {"incomplete"}
  PROVE  Rightly(rec, new)
  BY DEF Rightly, Latch

LEMMA RequestsRightly ==
  ASSUME Typed, Latch(row), ~overtaken', Routes
  PROVE  Rightly(row, row')
<1>1. CASE UNCHANGED row
  BY <1>1, SameRow DEF Latch
<1>2. NewRow \in RowType /\ NewRow.state = "recording" /\ NewRow.inc = "none" /\ NewRow.fin = "none"
      /\ NoRow.inc = "none" /\ NoRow.state \notin Tombstones
  BY NewRowIsRow DEF NewRow, NoRow, Tombstones
<1>3. CASE \E t \in Takes : Claim(t)
  <2>1. ASSUME NEW t \in Takes PROVE [NewRow EXCEPT !.take = t].inc = "none"
    BY DEF NewRow, NoRow
  <2>2. (row = NoRow /\ row'.inc = "none") \/ UNCHANGED row
    BY <1>3, <2>1 DEF Claim
  <2> QED BY <1>1, <1>2, <2>2, UnlatchedRightly DEF Latch
<1>4. CASE Upload
  <2>1. CASE ChunkRefreshes
    <3>1. row \in RowType
      BY <2>1 DEF ChunkRefreshes, Typed, Shape, Held, Idle
    <3> QED BY <1>1, <2>1, <3>1, Commits, CompletedRightly DEF Refreshable, Terminal
  <2>2. CASE ChunkRecorded
    <3>1. (row = NoRow /\ row' = NewRow) \/ UNCHANGED row
      BY <2>2 DEF ChunkRecorded
    <3> QED BY <1>1, <1>2, <3>1, UnlatchedRightly DEF Latch
  <2> QED BY <1>1, <1>4, <2>1, <2>2
          DEF Upload, ChunkArrives, ChunkResumes, ChunkInManifest, ChunkRefused, ChunkStored,
              ChunkConflicts, ChunkUnrecorded
<1>5. CASE Finalize
  <2>1. CASE FinalizeWrites
    <3>1. thread.p \in Payloads /\ thread.seen \in SUBSET Slices /\ row \in RowType
      BY <2>1 DEF FinalizeWrites, Typed, Shape, Held, Idle
    <3> QED BY <1>1, <2>1, <3>1, Commits, FinalizedRightly
  <2>2. ASSUME NEW p \in Payloads, FinalizeFirst(p) PROVE Rightly(row, row')
    <3>1. row = NoRow /\ files \in SUBSET Slices /\ row' = Finalized(NewRow, p, files)
          /\ ~Refused(NewRow, p, files) /\ Latch(NewRow)
      BY <1>2, <2>2 DEF FinalizeFirst, Typed, Shape, Latch
    <3>2. Latch(row')
      BY <1>2, <3>1, FinalizedRightly DEF Rightly
    <3> QED BY <1>2, <3>1, <3>2, UnlatchedRightly
  <2> QED BY <1>1, <1>5, <2>1, <2>2 DEF Finalize, FinalizeReads, FinalizeFails
<1>6. CASE End
  <2> DEFINE r == IF row = NoRow THEN NewRow ELSE row
  <2>1. r \in RowType /\ (row' = row \/ (r.state = "recording" /\ row' = [r EXCEPT !.state = "finalizing"]))
    BY <1>2, <1>6 DEF End, Typed, Shape
  <2>2. Latch(r) /\ (r = row \/ (row = NoRow /\ r.inc = "none"))
    BY <1>2 DEF Latch
  <2> HIDE DEF r
  <2>3. CASE r.state = "recording" /\ row' = [r EXCEPT !.state = "finalizing"]
    <3>1. row'.inc = r.inc /\ row'.fin = r.fin /\ Rightly(r, row')
      BY <2>1, <2>2, <2>3, ChangedRightly DEF RowType, Tombstones
    <3> QED BY <1>2, <2>2, <3>1, UnlatchedRightly DEF Rightly
  <2> QED BY <1>1, <2>1, <2>3
<1>7. CASE Delete
  <2> DEFINE r == IF row = NoRow THEN NewRow ELSE row
  <2>1. r \in RowType
        /\ row' = [r EXCEPT !.state = IF r.state \in Tombstones THEN r.state ELSE "deleting"]
    BY <1>2, <1>7 DEF Delete, Typed, Shape
  <2>2. Latch(r) /\ (r = row \/ (row = NoRow /\ r.inc = "none"))
    BY <1>2 DEF Latch
  <2> HIDE DEF r
  <2>3. row'.inc = r.inc /\ row'.fin = r.fin /\ row'.state \in Tombstones
    BY <2>1 DEF RowType, Tombstones
  <2>4. Rightly(r, row')
    BY <2>2, <2>3, ChangedRightly
  <2> QED BY <1>2, <2>2, <2>4, UnlatchedRightly DEF Rightly
<1> QED BY <1>1, <1>3, <1>4, <1>5, <1>6, <1>7 DEF Routes, GraceExpires, Process, View

LEMMA WorkerRightly ==
  ASSUME Typed, Latch(row),
         (\E k \in Kinds : ClaimJob(k)) \/ JobStep \/ Maintenance \/ Faulty
  PROVE  Rightly(row, row')
<1>1. CASE UNCHANGED row
  BY <1>1, SameRow DEF Latch
<1>2. ASSUME row.state = "transcoding" \/ (row.state \notin Tombstones /\ row.fin = "complete")
      PROVE  row \in RowType /\ row.inc = "none"
  BY <1>2, StateIsRow, FieldValues DEF Latch, Tombstones, Terminal, Typed, Shape
<1>3. CASE Failed \/ SetTranscoding \/ SetTranscoded \/ SetUploaded
  <2>1. UNCHANGED row \/ (row.state \notin Tombstones /\ row.fin = "complete")
    BY <1>3 DEF Failed, SetTranscoding, SetTranscoded, SetUploaded, Settable
  <2>2. CASE row.state \notin Tombstones /\ row.fin = "complete"
    <3>1. row'.inc = "none"
      BY <1>2, <1>3, <2>2 DEF Failed, SetTranscoding, SetTranscoded, SetUploaded, RowType
    <3> QED BY <1>2, <2>2, <3>1, UnlatchedRightly DEF Latch
  <2> QED BY <1>1, <2>1, <2>2
<1>4. CASE row' = RecoveredRow
  <2>1. CASE row.state = "transcoding"
    <3>1. row'.inc = "none"
      BY <1>2, <1>4, <2>1 DEF RecoveredRow, RowType
    <3> QED BY <1>2, <2>1, <3>1, UnlatchedRightly DEF Latch, Tombstones
  <2> QED BY <1>1, <1>4, <2>1 DEF RecoveredRow
<1>5. CASE Bury
  <2>1. CASE row.state = "deleting"
    <3>1. row \in RowType
      BY <2>1, StateIsRow, FieldValues DEF Typed, Shape, Terminal, Tombstones
    <3>2. row'.inc = row.inc /\ row'.fin = row.fin /\ row'.state \in Tombstones
      BY <1>5, <2>1, <3>1 DEF Bury, RowType, Tombstones
    <3> QED BY <3>2, ChangedRightly
  <2> QED BY <1>1, <1>5, <2>1 DEF Bury
<1>6. CASE GraceCloses
  <2>1. CASE Claimable(row)
    <3>1. row \in RowType /\ row.state \notin Tombstones \cup {"incomplete"} /\ row.inc = "none"
      BY <2>1, StateIsRow, FieldValues DEF Claimable, Open, Typed, Shape, Latch, Tombstones
    <3>2. CASE worker.whole
      BY <1>6, <2>1, <3>1, <3>2, CompletedRightly DEF GraceCloses, ClosedRow
    <3>3. CASE ~worker.whole
      <4>1. row'.state = "incomplete" /\ row'.fin = "incomplete"
        BY <1>6, <2>1, <3>1, <3>3 DEF GraceCloses, ClosedRow, RowType
      <4> QED BY <3>1, <4>1, UnlatchedRightly DEF Latch
    <3> QED BY <3>2, <3>3
  <2> QED BY <1>1, <1>6, <2>1 DEF GraceCloses
<1> QED BY <1>1, <1>3, <1>4, <1>5, <1>6
        DEF ClaimJob, JobStep, Finished, Unrunnable, TranscodeChecks, Remux, Clean, HandOver,
            UploadChecks, PutObject, Orphaned, DeleteChecks, RemoveObject, Erase, RemoveOrphan,
            GraceDecides, RowStays, takeVars, Maintenance, LeaseExpires, Resubmit,
            Reconcile, Faulty, StepFails, FinishLost, Stopped, Restart

Guards == Typed /\ Latch(row)

LEMMA GuardsInit == Init => Guards
  BY InitTyped DEF Init, TakeInit, Guards, Latch, NoRow

LEMMA GuardsStep ==
  ASSUME Guards, ~overtaken', [Next]_vars
  PROVE  Guards' /\ Rightly(row, row')
<1>1. Rightly(row, row')
  <2>1. CASE UNCHANGED vars
    BY <2>1, SameRow DEF Guards, Latch, vars, takeVars
  <2> QED BY <2>1, RequestsRightly, WorkerRightly DEF Guards, Next
<1>2. Latch(row')
  BY <1>1 DEF Guards, Rightly
<1> QED BY <1>1, <1>2, NextTyped DEF Guards, Latch

\* However requests, the worker and restarts interleave, recorder_lost and the end
\* of the grace are undone by nothing but a deletion, or a commit that was decided
\* on an earlier row and would not be on the present one.
THEOREM LatchCorrect == Spec => LatchHolds
<1> DEFINE Inv == overtaken \/ Guards
<1>1. Init => Inv
  BY GuardsInit
<1>2. Inv /\ [Next]_vars => Inv'
  BY GuardsStep, OvertakenStays
<1>3. Inv /\ [Next]_vars
      => [~overtaken' /\ row.inc # "none" =>
            row'.inc = row.inc /\ row'.state \in {"incomplete"} \cup Tombstones]_vars
  BY GuardsStep, OvertakenStays DEF Rightly
<1> HIDE DEF Inv
<1> QED BY <1>1, <1>2, <1>3, PTL DEF Spec, LatchHolds

-----------------------------------------------------------------------------
(***************************************************************************)
(* What is complete.  Until a commit overtakes its row, a take that is     *)
(* complete was so when it was called complete, its slices stay until they *)
(* are in the MP4, and the MP4 until it is stored.                         *)
(***************************************************************************)
\* The take is decided: nothing leads back to an open one.
Sealed(rec) == rec.state \notin {"absent"} \cup Open

\* It is complete, and not deleted.
Counts(rec) == rec.fin = "complete" /\ rec.state \notin Tombstones

\* State, verdict and marks agree.
Agreed(rec) ==
  /\ rec.state \in {"complete"} \cup (Terminal \ Tombstones) => rec.fin = "complete"
  /\ rec.fin = "complete" => rec.state \in {"complete"} \cup Terminal
  /\ rec.lost \/ rec.op \/ rec.inc # "none" => rec.state \in {"incomplete"} \cup Tombstones

Covers(S, n) == n \in Nat /\ 0..n \subseteq Seqs(S)

\* An open take is called complete only if all its slices are there; a complete
\* one stays so, with what is declared of it, until it is deleted.
Steady(rec, new) ==
  /\ Agreed(new)
  /\ Sealed(rec) => Sealed(new)
  /\ Counts(rec) => Counts(new) \/ new.state \in Tombstones
  /\ Counts(new) => \/ Counts(rec) /\ new.final = rec.final
                    \/ ~Sealed(rec) /\ Covers(files, new.final)

\* The step does not take the take further through transcode and upload.
Elsewhere(rec, new) ==
  /\ new.manifest = rec.manifest
  /\ new.key => rec.key
  /\ new.state \in {"transcoding", "transcoded", "uploaded"} => new = rec

RowWhole ==
  /\ Agreed(row)
  /\ Counts(row) => Covers(files \cup row.manifest, row.final)
  /\ row.manifest # {} => Sealed(row) /\ (Counts(row) => Covers(row.manifest, row.final))

Made == row.manifest # {} \/ row.state \in {"transcoded", "uploaded"} \/ row.key
Stored ==
  /\ mp4 # {} => Sealed(row) /\ (Counts(row) => Covers(mp4, row.final))
  /\ Counts(row) /\ Made => Fits(mp4, row.final)
  /\ row.key /\ ~Gone => Counts(row) /\ object = mp4
  /\ jobs["delete_orphan_object"].status \in Active => Sealed(row) /\ ~Counts(row)

\* The slices a declaration has seen are there as long as it may act on them.
Seen == thread # Idle => Sealed(row) \/ thread.seen \subseteq files

\* What the job in hand relies on.
Transcode ==
  worker.kind = "transcode" =>
    /\ worker.pc \in {"checked", "remuxing", "remuxed", "cleaning"} => Sealed(row)
    /\ worker.pc \in {"checked", "remuxing", "remuxed"} /\ Counts(row) =>
         worker.manifest = row.manifest /\ worker.final = row.final
    /\ worker.pc = "remuxed" /\ Counts(row) => Fits(mp4, row.final)
    /\ worker.pc = "cleaning" /\ Counts(row) => Covers(row.manifest, row.final)
    /\ worker.pc \in {"cleaning", "handing", "done", "cancelling"} /\ Mine => row.state # "transcoding"
Uploading ==
  worker.kind = "upload" /\ worker.pc \in {"putting", "put"} =>
    /\ Sealed(row)
    /\ Counts(row) => Fits(mp4, row.final) /\ (worker.pc = "put" => object = mp4)
Deleting ==
  worker.kind = "delete_recording" /\ worker.pc \in {"removing", "erasing"} => Gone
Hand == worker # Off => Transcode /\ Uploading /\ Deleting

HasJob == row.state = "transcoding" => jobs["transcode"].status \in Active

Kept == Guards /\ RowWhole /\ Stored /\ HasJob /\ Seen /\ Hand

-----------------------------------------------------------------------------
LEMMA StateNames ==
  /\ Terminal \cap ({"absent", "complete", "incomplete"} \cup Open) = {}
  /\ Tombstones \subseteq Terminal
  /\ {"transcoding", "transcoded", "uploaded", "transcode_failed"} \subseteq Terminal \ Tombstones
  /\ {"absent", "complete", "incomplete"} \cap (Open \cup Tombstones) = {}
  /\ \A r \in RowType : Sealed(r) \/ r.state \in Open
BY FieldValues DEF Terminal, Tombstones, Open, Sealed, RowType, States

LEMMA CoversMore ==
  ASSUME NEW S, NEW T, NEW n, S \subseteq T, Covers(S, n)
  PROVE  Covers(T, n)
BY DEF Covers, Seqs

\* Slices that reach from the header to the end cover a take that is declared.
LEMMA WholeCovers ==
  ASSUME NEW S, NEW rec, Whole(rec, S), rec.final \in Finals \cup Int, Received(rec, S) = Seqs(S)
  PROVE  Covers(S, rec.final)
<1>1. rec.final \in Int
  BY TakeConstants DEF Finals, NoFinal
<1>2. 0 \in Seqs(S)
  BY DEF Whole, HeaderOk, Seqs
<1>3. Seqs(S) = 0..rec.final
  BY DEF Whole
<1> QED BY <1>1, <1>2, <1>3 DEF Covers

LEMMA SteadySame == ASSUME NEW rec, Agreed(rec) PROVE Steady(rec, rec) /\ Elsewhere(rec, rec)
BY DEF Steady, Elsewhere

LEMMA CompletedSteady ==
  ASSUME NEW rec \in RowType, Agreed(rec), ~Sealed(rec), Covers(files, rec.final)
  PROVE  Steady(rec, Completed(rec)) /\ Elsewhere(rec, Completed(rec))
<1>1. /\ Completed(rec).state = "complete" /\ Completed(rec).fin = "complete"
      /\ Completed(rec).final = rec.final /\ Completed(rec).manifest = rec.manifest
      /\ Completed(rec).inc = "none" /\ Completed(rec).op = FALSE /\ Completed(rec).lost = rec.lost
      /\ Completed(rec).key = rec.key
  BY DEF Completed, RowType
<1>2. rec.state \in Open /\ ~rec.lost
  BY StateNames DEF Agreed
<1>3. Agreed(Completed(rec)) /\ Sealed(Completed(rec)) /\ ~Counts(rec)
  BY <1>1, <1>2, StateNames DEF Agreed, Sealed, Counts
<1> QED BY <1>1, <1>3 DEF Steady, Elsewhere

\* A declaration that is not refused leaves a complete take as it is.
LEMMA FinalizedSame ==
  ASSUME NEW rec \in RowType, NEW p \in Payloads, NEW seen \in SUBSET Slices,
         Agreed(rec), Counts(rec), rec.final # NoFinal, ~Refused(rec, p, seen)
  PROVE  Finalized(rec, p, seen) = rec
<1>1. rec.state \in {"complete"} \cup (Terminal \ Tombstones) /\ rec.state \notin Open \cup {"incomplete"}
  BY StateNames DEF Agreed, Counts
<1>2. ~rec.lost /\ ~rec.op /\ rec.inc = "none"
  BY <1>1, StateNames DEF Agreed
<1>3. ~Protected(rec) /\ ~Growing(rec, p)
  BY <1>1, <1>2 DEF Protected, Growing, Open
<1>4. Matches(rec, p)
  BY <1>3 DEF Refused, First
<1>5. Declared(rec, p) = rec /\ Pending(rec) = rec /\ ~p.lost
  BY <1>1, <1>2, <1>4 DEF Declared, Pending, Matches
<1>6. rec.state = "complete" => Completed(rec) = rec
  BY <1>2 DEF Completed, RowType, Counts
<1>7. Completes(rec, p, seen) => rec.state = "complete"
  BY <1>1, <1>5 DEF Completes
<1> QED BY <1>1, <1>3, <1>5, <1>6, <1>7 DEF Finalized

LEMMA FinalizedSteady ==
  ASSUME NEW rec \in RowType, NEW p \in Payloads, NEW seen \in SUBSET Slices,
         Agreed(rec), Counts(rec) => rec.final # NoFinal, ~Refused(rec, p, seen),
         Sealed(rec) \/ seen \subseteq files
  PROVE  Steady(rec, Finalized(rec, p, seen)) /\ Elsewhere(rec, Finalized(rec, p, seen))
<1>1. CASE Counts(rec)
  BY <1>1, FinalizedSame, SteadySame
<1>2. CASE ~Counts(rec)
  <2>0. rec.state \in Open \cup {"incomplete"} /\ rec.fin # "complete"
    BY <1>2 DEF Refused, Agreed, Counts, RowType, States, Open
  <2> DEFINE d == Declared(rec, p)
  <2>1. /\ d \in RowType /\ d.state = rec.state /\ d.fin = rec.fin /\ d.manifest = rec.manifest
        /\ d.op = rec.op /\ d.inc = rec.inc /\ d.key = rec.key
        /\ d.lost => p.lost \/ Protected(rec)
    <3>1. \A l \in BOOLEAN : LET x == [rec EXCEPT !.final = p.final, !.dur = p.dur, !.lost = l] IN
            /\ x \in RowType /\ x.state = rec.state /\ x.fin = rec.fin /\ x.manifest = rec.manifest
            /\ x.op = rec.op /\ x.inc = rec.inc /\ x.key = rec.key /\ x.lost = l
      BY FieldValues DEF RowType
    <3>2. (p.lost \/ (Protected(rec) /\ rec.lost)) \in BOOLEAN
      OBVIOUS
    <3>3. CASE Matches(rec, p)
      BY <3>3 DEF Declared, Matches
    <3>4. CASE ~Matches(rec, p)
      BY <3>1, <3>2, <3>4 DEF Declared
    <3> QED BY <3>3, <3>4
  <2> HIDE DEF d
  <2>2. ASSUME NEW new, new.state = "incomplete", new.fin # "complete",
               new.manifest = rec.manifest, new.key = rec.key
        PROVE  Steady(rec, new) /\ Elsewhere(rec, new)
    BY <1>2, <2>2, StateNames DEF Steady, Elsewhere, Agreed, Counts, Sealed
  <2>3. /\ Latched(d).state = "incomplete" /\ Latched(d).fin = "incomplete"
        /\ Latched(d).manifest = rec.manifest /\ Latched(d).key = rec.key
        /\ LET x == [Latched(d) EXCEPT !.inc = "recorder_lost"] IN
           /\ x.state = "incomplete" /\ x.fin = "incomplete"
           /\ x.manifest = rec.manifest /\ x.key = rec.key
    BY <2>1 DEF Latched, RowType
  <2>4. CASE Protected(rec)
    <3>1. Finalized(rec, p, seen) = Latched(d)
      BY <2>4 DEF Finalized, d
    <3> QED BY <2>2, <2>3, <3>1
  <2>5. CASE ~Protected(rec) /\ rec.state = "incomplete"
    <3>1. Finalized(rec, p, seen) = d
      BY <2>5 DEF Finalized, d
    <3> QED BY <2>0, <2>1, <2>2, <2>5, <3>1
  <2>6. CASE ~Protected(rec) /\ rec.state # "incomplete" /\ p.lost
    <3>1. Finalized(rec, p, seen) = [Latched(d) EXCEPT !.inc = "recorder_lost"]
      BY <2>6 DEF Finalized, d
    <3> QED BY <2>2, <2>3, <3>1
  <2>7. CASE ~Protected(rec) /\ rec.state # "incomplete" /\ ~p.lost
    <3> DEFINE c == Pending(d)
    <3>1. /\ c \in RowType /\ c.state = "finalizing" /\ c.fin = "pending" /\ c.manifest = rec.manifest
          /\ c.op = rec.op /\ c.inc = rec.inc /\ c.key = rec.key /\ c.final = d.final /\ ~c.lost
      BY <2>0, <2>1, <2>7, FieldValues DEF Pending, RowType
    <3>2. rec.state \in Open /\ ~Sealed(rec) /\ ~rec.op /\ rec.inc = "none"
      BY <2>0, <2>7, StateNames DEF Agreed, Sealed
    <3>3. Steady(rec, c) /\ Elsewhere(rec, c) /\ Agreed(c)
      BY <1>2, <3>1, <3>2, StateNames DEF Steady, Elsewhere, Agreed, Counts, Sealed, Open
    <3>4. CASE Completes(rec, p, seen)
      <4>1. Finalized(rec, p, seen) = Completed(c) /\ Whole(c, seen)
        BY <2>7, <3>4 DEF Finalized, Completes, d
      <4>2. Covers(files, c.final)
        <5>1. Received(c, seen) = Seqs(seen) /\ c.final \in Finals
          BY <3>1 DEF Received, RowType
        <5>2. Covers(seen, c.final)
          BY <4>1, <5>1, WholeCovers
        <5> QED BY <3>2, <5>2, CoversMore
      <4>3. ~Sealed(c)
        BY <3>1 DEF Sealed, Open
      <4> HIDE DEF c
      <4>4. Steady(c, Completed(c)) /\ Elsewhere(c, Completed(c))
        BY <3>1, <3>3, <4>2, <4>3, CompletedSteady
      <4> QED BY <1>2, <3>1, <3>2, <4>1, <4>3, <4>4, <3>3 DEF Steady, Elsewhere, Counts
    <3>5. CASE ~Completes(rec, p, seen)
      <4>1. Finalized(rec, p, seen) = c
        BY <2>7, <3>5 DEF Finalized, d
      <4> QED BY <3>3, <4>1
    <3> QED BY <3>4, <3>5
  <2> QED BY <2>4, <2>5, <2>6, <2>7
<1> QED BY <1>1, <1>2

\* A complete take goes on to a state of its processing.
LEMMA MovedSteady ==
  ASSUME NEW rec, NEW new, Counts(rec), Agreed(rec), new.state \in Terminal \ Tombstones,
         new.fin = rec.fin, new.final = rec.final, new.lost = rec.lost, new.op = rec.op,
         new.inc = rec.inc
  PROVE  Steady(rec, new)
BY StateNames DEF Steady, Counts, Agreed, Sealed

LEMMA BuriedSteady ==
  ASSUME NEW rec, NEW new, new.state \in Tombstones
  PROVE  Steady(rec, new)
BY StateNames DEF Steady, Counts, Agreed, Sealed

LEMMA RowKinds ==
  /\ Agreed(NoRow) /\ ~Sealed(NoRow) /\ ~Counts(NoRow) /\ NoRow.manifest = {} /\ ~NoRow.key
  /\ Agreed(NewRow) /\ ~Sealed(NewRow) /\ ~Counts(NewRow) /\ NewRow.manifest = {} /\ ~NewRow.key
  /\ NewRow \in RowType
BY NewRowIsRow, StateNames DEF NewRow, NoRow, Agreed, Sealed, Counts, Open

\* A row that is made by the request itself.
LEMMA MadeSteady ==
  ASSUME NEW new, row = NoRow, Steady(NewRow, new), Elsewhere(NewRow, new)
  PROVE  Steady(row, new) /\ Elsewhere(row, new)
<1>1. NewRow.state = "recording"
  BY DEF NewRow, NoRow
<1> QED BY <1>1, RowKinds DEF Steady, Elsewhere

\* A request that changes the state alone.
LEMMA StateSteady ==
  ASSUME NEW rec \in RowType, Agreed(rec), NEW st,
         \/ rec.state = "recording" /\ st = "finalizing"
         \/ st \in Tombstones
  PROVE  LET new == [rec EXCEPT !.state = st] IN Steady(rec, new) /\ Elsewhere(rec, new)
<1> DEFINE new == [rec EXCEPT !.state = st]
<1>1. /\ new.state = st /\ new.fin = rec.fin /\ new.final = rec.final /\ new.lost = rec.lost
      /\ new.op = rec.op /\ new.inc = rec.inc /\ new.manifest = rec.manifest /\ new.key = rec.key
  BY DEF RowType
<1> HIDE DEF new
<1>2. CASE st \in Tombstones
  <2>1. Elsewhere(rec, new)
    BY <1>1, <1>2 DEF Elsewhere, Tombstones
  <2> QED BY <1>1, <1>2, <2>1, BuriedSteady DEF new
<1>3. CASE rec.state = "recording" /\ st = "finalizing"
  BY <1>1, <1>3, StateNames DEF Steady, Elsewhere, Agreed, Counts, Sealed, Open, new
<1> QED BY <1>2, <1>3

LEMMA ClaimSteady ==
  ASSUME NEW t, row = NoRow
  PROVE  LET new == [NewRow EXCEPT !.take = t] IN Steady(row, new) /\ Elsewhere(row, new)
<1> DEFINE new == [NewRow EXCEPT !.take = t]
<1>1. /\ new.state = "recording" /\ new.fin = "none" /\ ~new.lost /\ ~new.op /\ new.inc = "none"
      /\ new.manifest = {} /\ new.key = FALSE
  BY DEF NewRow, NoRow
<1> HIDE DEF new
<1>2. Agreed(new) /\ ~Counts(new) /\ Elsewhere(row, new)
  BY <1>1, RowKinds, StateNames DEF Agreed, Counts, Elsewhere, Open
<1> QED BY <1>2, RowKinds DEF Steady, new

LEMMA RequestsSteady ==
  ASSUME Kept, ~overtaken', Routes
  PROVE  Steady(row, row') /\ Elsewhere(row, row')
<1>0. Agreed(row) /\ row \in RowType \cup {NoRow}
  BY DEF Kept, RowWhole, Guards, Typed, Shape
<1>1. CASE UNCHANGED row
  BY <1>0, <1>1, SteadySame
<1>2. CASE \E t \in Takes : Claim(t)
  BY <1>1, <1>2, ClaimSteady DEF Claim
<1>3. CASE Upload
  <2>1. CASE ChunkRefreshes
    <3>1. row \in RowType
      BY <2>1 DEF ChunkRefreshes, Kept, Guards, Typed, Shape, Held, Idle
    <3>2. CASE row' = Completed(row) /\ Refreshable(row) /\ Whole(row, files)
      <4>1. row.state \in Open /\ ~Sealed(row) /\ row.fin # "complete"
        BY <1>0, <3>1, <3>2, StateNames DEF Refreshable, RowType, States, Open, Sealed, Agreed
      <4>2. Received(row, files) = Seqs(files) /\ row.final \in Finals
        BY <3>1, <4>1 DEF Received, RowType
      <4> QED BY <1>0, <3>1, <3>2, <4>1, <4>2, WholeCovers, CompletedSteady
    <3> QED BY <1>1, <2>1, <3>2, Commits
  <2>2. CASE ChunkRecorded
    <3>1. (row = NoRow /\ row' = NewRow) \/ UNCHANGED row
      BY <2>2 DEF ChunkRecorded
    <3> QED BY <1>1, <3>1, RowKinds, SteadySame, MadeSteady
  <2> QED BY <1>1, <1>3, <2>1, <2>2
          DEF Upload, ChunkArrives, ChunkResumes, ChunkInManifest, ChunkRefused, ChunkStored,
              ChunkConflicts, ChunkUnrecorded
<1>4. CASE Finalize
  <2>1. CASE FinalizeWrites
    <3>1. thread.p \in Payloads /\ thread.seen \in SUBSET Slices /\ row \in RowType
      BY <2>1 DEF FinalizeWrites, Kept, Guards, Typed, Shape, Held, Idle
    <3>2. Sealed(row) \/ thread.seen \subseteq files
      BY <2>1 DEF FinalizeWrites, Kept, Seen, Idle
    <3>3. Counts(row) => row.final # NoFinal
      BY DEF Kept, RowWhole, Covers, NoFinal
    <3> QED BY <1>0, <1>1, <2>1, <3>1, <3>2, <3>3, Commits, FinalizedSteady
  <2>2. ASSUME NEW p \in Payloads, FinalizeFirst(p) PROVE Steady(row, row') /\ Elsewhere(row, row')
    <3>1. row = NoRow /\ files \in SUBSET Slices /\ row' = Finalized(NewRow, p, files)
          /\ ~Refused(NewRow, p, files)
      BY <2>2 DEF FinalizeFirst, Kept, Guards, Typed, Shape
    <3> QED BY <3>1, RowKinds, FinalizedSteady, MadeSteady
  <2> QED BY <1>1, <1>4, <2>1, <2>2 DEF Finalize, FinalizeReads, FinalizeFails
<1>5. CASE End
  <2>1. CASE row = NoRow
    <3>1. row' = [NewRow EXCEPT !.state = "finalizing"] /\ NewRow.state = "recording"
      BY <1>5, <2>1 DEF End, NewRow, NoRow
    <3> QED BY <2>1, <3>1, RowKinds, StateSteady, MadeSteady
  <2>2. CASE row # NoRow /\ row.state = "recording"
    <3>1. row' = [row EXCEPT !.state = "finalizing"]
      BY <1>5, <2>2 DEF End
    <3> QED BY <1>0, <2>2, <3>1, StateSteady
  <2> QED BY <1>1, <1>5, <2>1, <2>2 DEF End
<1>6. CASE Delete
  <2>1. CASE row = NoRow
    <3>1. row' = [NewRow EXCEPT !.state = "deleting"]
      BY <1>6, <2>1 DEF Delete, NewRow, NoRow, Tombstones
    <3> QED BY <2>1, <3>1, RowKinds, StateSteady, MadeSteady DEF Tombstones
  <2>2. CASE row # NoRow /\ row.state \notin Tombstones
    <3>1. row' = [row EXCEPT !.state = "deleting"]
      BY <1>6, <2>2 DEF Delete
    <3> QED BY <1>0, <2>2, <3>1, StateSteady DEF Tombstones
  <2>3. CASE row # NoRow /\ row.state \in Tombstones
    <3>1. row' = row
      BY <1>0, <1>6, <2>3 DEF Delete, RowType
    <3> QED BY <1>1, <3>1
  <2> QED BY <2>1, <2>2, <2>3
<1> QED BY <1>1, <1>2, <1>3, <1>4, <1>5, <1>6 DEF Routes, GraceExpires, Process, View

Forward == SetTranscoding \/ SetTranscoded \/ SetUploaded

LEMMA WorkerSteady ==
  ASSUME Kept, ~overtaken',
         (\E k \in Kinds : ClaimJob(k)) \/ JobStep \/ Maintenance \/ Faulty
  PROVE  Steady(row, row') /\ (Forward \/ Elsewhere(row, row'))
<1>0. Agreed(row) /\ row \in RowType \cup {NoRow}
  BY DEF Kept, RowWhole, Guards, Typed, Shape
<1>1. CASE UNCHANGED row
  BY <1>0, <1>1, SteadySame
<1>2. ASSUME Counts(row), row' = [row EXCEPT !.state = "transcode_failed"]
      PROVE  Steady(row, row') /\ Elsewhere(row, row')
  <2>1. row \in RowType
    BY <1>0, <1>2, RowKinds
  <2>2. /\ row'.state = "transcode_failed" /\ row'.fin = row.fin /\ row'.final = row.final
        /\ row'.lost = row.lost /\ row'.op = row.op /\ row'.inc = row.inc
        /\ row'.manifest = row.manifest /\ row'.key = row.key
    BY <1>2, <2>1 DEF RowType
  <2> QED BY <1>0, <1>2, <2>2, MovedSteady, StateNames DEF Elsewhere
<1>3. CASE Failed
  <2>1. UNCHANGED row \/ (Counts(row) /\ row' = [row EXCEPT !.state = "transcode_failed"])
    BY <1>3 DEF Failed, Counts
  <2> QED BY <1>1, <1>2, <2>1
<1>4. CASE Forward
  <2>1. Counts(row)
    BY <1>4 DEF Forward, SetTranscoding, SetTranscoded, SetUploaded, Settable, Counts
  <2>2. row \in RowType
    BY <1>0, <2>1, RowKinds
  <2>3. /\ row'.state \in Terminal \ Tombstones /\ row'.fin = row.fin /\ row'.final = row.final
        /\ row'.lost = row.lost /\ row'.op = row.op /\ row'.inc = row.inc
    BY <1>4, <2>2, StateNames DEF Forward, SetTranscoding, SetTranscoded, SetUploaded, RowType
  <2> QED BY <1>0, <1>4, <2>1, <2>3, MovedSteady
<1>5. CASE row' = RecoveredRow
  <2>1. CASE row.state = "transcoding"
    <3>1. Counts(row)
      BY <1>0, <2>1, StateNames DEF Agreed, Counts
    <3> QED BY <1>1, <1>2, <1>5, <3>1 DEF RecoveredRow
  <2> QED BY <1>1, <1>5, <2>1 DEF RecoveredRow
<1>6. CASE Bury
  <2>1. CASE row.state = "deleting"
    <3>1. row \in RowType
      BY <1>0, <2>1 DEF NoRow
    <3>2. row'.state = "deleted" /\ row'.manifest = row.manifest /\ row'.key = FALSE
      BY <1>6, <2>1, <3>1 DEF Bury, RowType
    <3> QED BY <3>2, BuriedSteady DEF Elsewhere, Tombstones
  <2> QED BY <1>1, <1>6, <2>1 DEF Bury
<1>7. CASE GraceCloses
  <2>1. CASE Claimable(row)
    <3>1. row \in RowType /\ row.state \in Open /\ ~Sealed(row) /\ ~Counts(row)
      BY <1>0, <2>1, StateNames DEF Claimable, Open, NoRow, Sealed, Agreed, Counts
    <3>2. row' = ClosedRow
      BY <1>7, <2>1 DEF GraceCloses
    <3>3. CASE worker.whole
      <4>1. UNCHANGED row \/ Whole(row, files)
        BY <1>7, <2>1, <3>3, Commits
      <4>2. Received(row, files) = Seqs(files) /\ row.final \in Finals
        BY <1>0, <3>1, StateNames DEF Received, RowType, Agreed
      <4> QED BY <1>0, <1>1, <3>1, <3>2, <3>3, <4>1, <4>2, WholeCovers, CompletedSteady DEF ClosedRow
    <3>4. CASE ~worker.whole
      <4>1. /\ row'.state = "incomplete" /\ row'.fin = "incomplete"
            /\ row'.manifest = row.manifest /\ row'.key = row.key
        BY <3>1, <3>2, <3>4 DEF ClosedRow, RowType
      <4> QED BY <3>1, <4>1, StateNames DEF Steady, Elsewhere, Agreed, Counts, Sealed
    <3> QED BY <3>3, <3>4
  <2> QED BY <1>1, <1>7, <2>1 DEF GraceCloses
<1> QED BY <1>1, <1>3, <1>4, <1>5, <1>6, <1>7
        DEF ClaimJob, JobStep, Forward, Finished, Unrunnable, TranscodeChecks, Remux, Clean, HandOver,
            UploadChecks, PutObject, Orphaned, DeleteChecks, RemoveObject, Erase, RemoveOrphan,
            GraceDecides, RowStays, takeVars, Maintenance, LeaseExpires, Resubmit,
            Reconcile, Faulty, StepFails, FinishLost, Stopped, Restart

LEMMA StepSteady ==
  ASSUME Kept, ~overtaken', [Next]_vars
  PROVE  Steady(row, row') /\ (Forward \/ Elsewhere(row, row'))
<1>1. CASE UNCHANGED vars
  BY <1>1, SteadySame DEF Kept, RowWhole, vars, takeVars
<1> QED BY <1>1, RequestsSteady, WorkerSteady DEF Next

-----------------------------------------------------------------------------
(***************************************************************************)
(* Which steps change the files, the MP4, the object and the jobs.         *)
(***************************************************************************)
LEMMA StoreChanges ==
  ASSUME [Next]_vars
  PROVE  /\ UNCHANGED files \/ ChunkStored \/ Clean \/ Erase
         /\ UNCHANGED mp4 \/ Remux \/ Erase
         /\ UNCHANGED object \/ PutObject \/ RemoveObject \/ RemoveOrphan
<1>1. CASE UNCHANGED vars
  BY <1>1 DEF vars, takeVars, jobVars
<1>2. CASE Routes /\ UNCHANGED jobVars
  BY <1>2
     DEF Routes, Claim, Upload, ChunkArrives, ChunkResumes, ChunkInManifest, ChunkRefused, ChunkStored,
         ChunkConflicts, ChunkRecorded, ChunkRefreshes, ChunkUnrecorded, Finalize, FinalizeFirst,
         FinalizeReads, FinalizeWrites, FinalizeFails, End, GraceExpires, Process, View, Delete, jobVars
<1>3. CASE \E k \in Kinds : ClaimJob(k)
  BY <1>3 DEF ClaimJob
<1>4. CASE JobStep
  BY <1>4
     DEF JobStep, Finished, Failed, Unrunnable, TranscodeChecks, SetTranscoding, Remux, SetTranscoded,
         Clean, HandOver, UploadChecks, PutObject, SetUploaded, Orphaned, DeleteChecks, RemoveObject,
         Erase, Bury, RemoveOrphan, GraceDecides, GraceCloses, RowStays, takeVars
<1>5. CASE Maintenance \/ Faulty
  BY <1>5 DEF Maintenance, LeaseExpires, Resubmit, Reconcile, Faulty, StepFails, FinishLost, Stopped,
              Restart, takeVars, jobVars
<1> QED BY <1>1, <1>2, <1>3, <1>4, <1>5 DEF Next

LEMMA EnqueueEffect ==
  ASSUME NEW js, Counted(js), NEW k \in Kinds, NEW ks, ks \in {js, Enqueue(js, k)}, NEW n \in Kinds
  PROVE  /\ n # k => ks[n] = js[n]
         /\ js[n].status \in Active => ks[n] = js[n]
         /\ ks[n].status = "running" => js[n].status = "running"
  BY DEF Enqueue, Counted, Active

LEMMA EnqueueChoice == \A cond, js, k : EnqueueIf(cond, js, k) \in {js, Enqueue(js, k)}
  BY DEF EnqueueIf

\* A request starts no job, and ends none but by a deletion.
LEMMA RequestJobs ==
  ASSUME Typed, Routes, NEW n \in Kinds
  PROVE  /\ jobs'[n].status = "running" => jobs[n].status = "running"
         /\ n = "delete_orphan_object" => jobs'[n] = jobs[n]
         /\ jobs[n].status \in Active => jobs'[n].status \in Active \/ row'.state \in Tombstones
<1> DEFINE others == {"transcode", "upload", "finalize_timeout", "delete_recording"}
<1>0. Counted(jobs) /\ others \subseteq Kinds /\ "delete_orphan_object" \notin others
  BY DEF Typed, Kinds
<1>1. CASE UNCHANGED jobs
  BY <1>1
<1>2. ASSUME NEW k \in others, jobs' \in {jobs, Enqueue(jobs, k)}
      PROVE  /\ jobs'[n].status = "running" => jobs[n].status = "running"
             /\ n = "delete_orphan_object" => jobs'[n] = jobs[n]
             /\ jobs[n].status \in Active => jobs'[n].status \in Active
  <2>1. k \in Kinds /\ k # "delete_orphan_object"
    BY <1>0
  <2> HIDE DEF others
  <2>2. /\ n # k => jobs'[n] = jobs[n]
        /\ jobs[n].status \in Active => jobs'[n] = jobs[n]
        /\ jobs'[n].status = "running" => jobs[n].status = "running"
    BY <1>0, <1>2, <2>1, EnqueueEffect
  <2> QED BY <2>1, <2>2
<1>3. CASE ChunkRefreshes \/ End \/ Process \/ View
  <2>1. \E k \in others : jobs' = Enqueue(jobs, k)
    BY <1>3 DEF ChunkRefreshes, End, Process, View
  <2> QED BY <1>2, <2>1
<1>4. CASE FinalizeWrites \/ \E p \in Payloads : FinalizeFirst(p)
  <2>1. jobs' \in {jobs, Enqueue(jobs, "transcode")}
    BY <1>4, EnqueueChoice DEF FinalizeWrites, FinalizeFirst
  <2> QED BY <1>2, <2>1
<1>8. CASE Delete
  <2> DEFINE js == IF row.state \in Tombstones THEN jobs ELSE Cancelled(jobs)
  <2>1. Counted(js)
    BY <1>0, CancelledCounts
  <2>2. /\ js[n].status = "running" => jobs[n].status = "running"
        /\ n = "delete_orphan_object" => js[n] = jobs[n]
    BY DEF Cancelled, Cancellable, Closed
  <2>3. jobs' = Enqueue(js, "delete_recording")
    BY <1>8 DEF Delete
  <2> HIDE DEF js
  <2>4. row'.state \in Tombstones
    <3>1. (IF row = NoRow THEN NewRow ELSE row) \in RowType
      BY NewRowIsRow DEF Typed, Shape
    <3> QED BY <1>8, <3>1 DEF Delete, RowType, Tombstones
  <2>5. /\ jobs'[n].status = "running" => js[n].status = "running"
        /\ n # "delete_recording" => jobs'[n] = js[n]
    BY <1>0, <2>1, <2>3, EnqueueEffect
  <2> QED BY <2>2, <2>4, <2>5
<1> QED BY <1>1, <1>3, <1>4, <1>8
        DEF Routes, Claim, Upload, ChunkArrives, ChunkResumes, ChunkInManifest, ChunkRefused,
            ChunkStored, ChunkConflicts, ChunkRecorded, ChunkUnrecorded, Finalize, FinalizeReads,
            FinalizeFails, GraceExpires

\* recover leaves a job that was claimed queued again, or failed.
LEMMA RecoveredEffect ==
  ASSUME Counted(jobs), NEW n \in Kinds
  PROVE  /\ RecoveredJobs[n].status \in Active => jobs[n].status \in Active
         /\ jobs[n].status \in Active => \/ RecoveredJobs[n].status = "queued"
                                         \/ jobs[n].status = "running" /\ Exhausted(n)
  BY DEF RecoveredJobs, Retried, Active, Counted, JobType

\* Only an upload that finds its take gone leaves an orphan to remove.
LEMMA OrphanJob ==
  ASSUME Typed, [Next]_vars, jobs'["delete_orphan_object"].status \in Active
  PROVE  jobs["delete_orphan_object"].status \in Active \/ Orphaned
<1> DEFINE o == "delete_orphan_object"
<1>0. /\ Counted(jobs) /\ o \in Kinds
      /\ {"transcode", "upload", "finalize_timeout", "delete_recording"} \subseteq Kinds \ {o}
  BY DEF Typed, Kinds
<1>1. CASE UNCHANGED vars
  BY <1>1 DEF vars, takeVars
<1>2. CASE Routes
  BY <1>0, <1>2, RequestJobs
<1>3. CASE \E k \in Kinds : ClaimJob(k)
  BY <1>0, <1>3 DEF ClaimJob, Active, Counted
<1>4. CASE JobStep
  <2>1. CASE Finished
    BY <1>0, <2>1 DEF Finished, Closed, Active, Counted
  <2>2. CASE Failed
    BY <1>0, <2>2 DEF Failed, Mine, Active, Counted
  <2>3. CASE HandOver
    <3>1. jobs' \in {jobs, Enqueue(jobs, "upload")}
      BY <2>3, EnqueueChoice DEF HandOver
    <3> QED BY <1>0, <3>1, EnqueueEffect
  <2>4. CASE GraceCloses
    <3>1. jobs' \in {jobs, Enqueue(jobs, "transcode")}
      BY <2>4, EnqueueChoice DEF GraceCloses
    <3> QED BY <1>0, <3>1, EnqueueEffect
  <2> QED BY <1>4, <2>1, <2>2, <2>3, <2>4
          DEF JobStep, Unrunnable, TranscodeChecks, SetTranscoding, Remux, SetTranscoded,
              Clean, UploadChecks, PutObject, SetUploaded, DeleteChecks, RemoveObject,
              Erase, Bury, RemoveOrphan, GraceDecides, takeVars
<1>5. CASE LeaseExpires
  BY <1>0, <1>5, RecoveredEffect DEF LeaseExpires
<1>6. CASE Restart
  <2>1. jobs'[o] = RecoveredJobs[o]
    <3>1. jobs' \in {RecoveredJobs, Enqueue(RecoveredJobs, "delete_recording")}
      BY <1>6, EnqueueChoice DEF Restart, Reconciled
    <3> QED BY <1>0, <3>1, RecoveredCounts, EnqueueEffect
  <2> QED BY <1>0, <2>1, RecoveredEffect
<1>7. CASE Resubmit
  <2> DEFINE js == EnqueueIf(phase # "live" /\ row.state \in Open, jobs, "finalize_timeout")
  <2>1. Counted(js) /\ js[o] = jobs[o]
    BY <1>0, EnqueueCounts, EnqueueEffect, EnqueueChoice
  <2>2. jobs'[o] = js[o]
    <3>1. \E k \in {"upload", "transcode"} : jobs' \in {js, Enqueue(js, k)}
      BY <1>7, EnqueueChoice DEF Resubmit, Resubmitted
    <3> HIDE DEF js
    <3> QED BY <1>0, <2>1, <3>1, EnqueueEffect
  <2> QED BY <2>1, <2>2
<1>8. CASE Reconcile
  <2>1. jobs' \in {jobs, Enqueue(jobs, "delete_recording")}
    BY <1>8, EnqueueChoice DEF Reconcile, Reconciled
  <2> QED BY <1>0, <2>1, EnqueueEffect
<1>9. CASE Stopped
  BY <1>0, <1>9 DEF Stopped, Mine, Active, Counted
<1>10. CASE StepFails \/ FinishLost
  BY <1>10 DEF StepFails, FinishLost, takeVars
<1> QED BY <1>1, <1>2, <1>3, <1>4, <1>5, <1>6, <1>7, <1>8, <1>9, <1>10 DEF Next, Maintenance, Faulty

-----------------------------------------------------------------------------
(***************************************************************************)
(* What is stored stays.                                                   *)
(***************************************************************************)
LEMMA RunnableCounts ==
  ASSUME Kept, Runnable, worker.kind \in {"transcode", "upload"}
  PROVE  Counts(row) /\ Sealed(row)
<1>1. row.fin = "complete" /\ row.state \notin Tombstones
  BY DEF Runnable
<1> QED BY <1>1, StateNames DEF Kept, RowWhole, Agreed, Counts, Sealed

LEMMA Losses ==
  ASSUME Kept
  PROVE  /\ Clean => UNCHANGED row /\ Counts(row) /\ Sealed(row) /\ Covers(row.manifest, row.final)
         /\ Erase => UNCHANGED row /\ Gone /\ ~Counts(row) /\ Sealed(row)
         /\ RemoveObject => UNCHANGED row /\ Gone
<1>1. CASE Clean
  <2>1. Counts(row) /\ Sealed(row) /\ worker.pc = "cleaning" /\ worker.kind = "transcode" /\ worker # Off
    BY <1>1, RunnableCounts DEF Clean, Doing
  <2> QED BY <1>1, <2>1 DEF Clean, RowStays, Kept, Hand, Transcode, Doing, Erase, RemoveObject
<1>2. CASE Erase \/ RemoveObject
  <2>1. Gone /\ UNCHANGED row
    BY <1>2 DEF Erase, RemoveObject, Doing, RowStays, Kept, Hand, Deleting
  <2>2. ~Counts(row) /\ Sealed(row)
    BY <2>1, StateNames DEF Gone, Counts, Sealed
  <2> QED BY <1>2, <2>1, <2>2 DEF Clean, Erase, RemoveObject, Doing
<1> QED BY <1>1, <1>2

LEMMA ForwardFacts ==
  ASSUME Kept
  PROVE  /\ SetTranscoding =>
              /\ row'.state = "transcoding" /\ row'.manifest = row.manifest /\ row'.key = row.key
              /\ UNCHANGED <<files, jobs, mp4, object>>
         /\ SetTranscoded =>
              /\ row'.state = "transcoded" /\ row'.key = row.key
              /\ row'.manifest = IF row.manifest # {} THEN row.manifest ELSE files
              /\ Fits(mp4, row.final) /\ UNCHANGED <<files, jobs, mp4, object>>
         /\ SetUploaded =>
              /\ row'.state = "uploaded" /\ row'.manifest = row.manifest
              /\ Fits(mp4, row.final) /\ object = mp4 /\ UNCHANGED <<files, jobs, mp4, object>>
         /\ Forward => Counts(row) /\ Counts(row') /\ row'.final = row.final /\ Sealed(row) /\ Sealed(row')
<1>1. CASE ~Forward
  BY <1>1 DEF Forward
<1>2. CASE Forward
  <2>1. Counts(row)
    BY <1>2 DEF Forward, SetTranscoding, SetTranscoded, SetUploaded, Settable, Counts
  <2>2. row \in RowType
    BY <2>1, RowKinds DEF Kept, Guards, Typed, Shape
  <2>3. Sealed(row)
    BY <2>1, StateNames DEF Kept, RowWhole, Agreed, Counts, Sealed
  <2>4. row'.final = row.final /\ row'.fin = row.fin /\ row'.state \in {"transcoding", "transcoded", "uploaded"}
    BY <1>2, <2>2 DEF Forward, SetTranscoding, SetTranscoded, SetUploaded, RowType
  <2>5. Counts(row') /\ Sealed(row')
    BY <2>1, <2>4, StateNames DEF Counts, Sealed
  <2>6. CASE SetTranscoding
    BY <2>1, <2>2, <2>3, <2>4, <2>5, <2>6 DEF SetTranscoding, SetTranscoded, SetUploaded, Doing, RowType
  <2>7. CASE SetTranscoded
    <3>1. worker.manifest = row.manifest /\ Fits(mp4, row.final)
      BY <2>1, <2>7 DEF SetTranscoded, Doing, Kept, Hand, Transcode
    <3>2. row'.manifest = (IF worker.manifest # {} THEN worker.manifest ELSE files)
          /\ row'.state = "transcoded" /\ row'.key = row.key
      BY <2>2, <2>7 DEF SetTranscoded, RowType
    <3> QED BY <2>1, <2>3, <2>4, <2>5, <2>7, <3>1, <3>2 DEF SetTranscoding, SetTranscoded, SetUploaded, Doing
  <2>8. CASE SetUploaded
    <3>1. Fits(mp4, row.final) /\ object = mp4
      BY <2>1, <2>8 DEF SetUploaded, Doing, Kept, Hand, Uploading
    <3> QED BY <2>1, <2>2, <2>3, <2>4, <2>5, <2>8, <3>1 DEF SetTranscoding, SetTranscoded, SetUploaded, Doing, RowType
  <2> QED BY <1>2, <2>6, <2>7, <2>8 DEF Forward
<1> QED BY <1>1, <1>2

LEMMA RowWholeStep ==
  ASSUME Kept, ~overtaken', [Next]_vars
  PROVE  RowWhole'
<1>0. Steady(row, row') /\ (Forward \/ Elsewhere(row, row')) /\ RowWhole
  BY StepSteady DEF Kept
<1>1. CASE Clean \/ Erase
  BY <1>0, <1>1, Losses, CoversMore DEF RowWhole, Steady
<1>2. CASE ~(Clean \/ Erase)
  <2>1. files \subseteq files'
    BY <1>2, StoreChanges DEF ChunkStored
  <2>2. CASE SetTranscoded
    <3>1. /\ Counts(row) /\ Counts(row') /\ row'.final = row.final /\ Sealed(row') /\ files' = files
          /\ row'.manifest = IF row.manifest # {} THEN row.manifest ELSE files
      BY <2>2, ForwardFacts DEF Forward
    <3>2. Covers(row'.manifest, row'.final)
      <4>1. row.manifest = {} => files \cup row.manifest = files
        OBVIOUS
      <4> QED BY <1>0, <3>1, <4>1 DEF RowWhole
    <3>3. Covers(files' \cup row'.manifest, row'.final)
      BY <3>2, CoversMore
    <3> QED BY <1>0, <3>1, <3>2, <3>3 DEF RowWhole, Steady
  <2>3. CASE ~SetTranscoded
    <3>1. row'.manifest = row.manifest
      BY <1>0, <2>3, ForwardFacts DEF Forward, Elsewhere
    <3>2. files \cup row.manifest \subseteq files' \cup row'.manifest
      BY <2>1, <3>1
    <3>3. Counts(row') => Covers(files' \cup row'.manifest, row'.final)
      <4>1. CASE Counts(row) /\ row'.final = row.final
        BY <1>0, <3>2, <4>1, CoversMore DEF RowWhole
      <4>2. CASE Covers(files, row'.final)
        BY <2>1, <4>2, CoversMore
      <4> QED BY <1>0, <4>1, <4>2 DEF Steady
    <3>4. row'.manifest # {} => Sealed(row') /\ (Counts(row') => Covers(row'.manifest, row'.final))
      BY <1>0, <3>1 DEF RowWhole, Steady
    <3> QED BY <1>0, <3>3, <3>4 DEF RowWhole, Steady
  <2> QED BY <2>2, <2>3
<1> QED BY <1>1, <1>2

\* The MP4 that there is, is not made anew once anything refers to it.
LEMMA RemuxFacts ==
  ASSUME Kept, Remux
  PROVE  /\ UNCHANGED <<row, files, jobs, object>> /\ Counts(row) /\ Sealed(row)
         /\ Made => mp4' = mp4
         /\ mp4' = mp4 \/ Covers(mp4', row.final)
         /\ worker'.pc = "remuxed" => Fits(mp4', row.final)
<1>1. Counts(row) /\ Sealed(row) /\ worker.pc = "remuxing" /\ worker.kind = "transcode" /\ worker # Off
  BY RunnableCounts DEF Remux, Doing
<1>2. worker.final = row.final
  BY <1>1 DEF Kept, Hand, Transcode
<1>3. Made => Fits(mp4, row.final)
  BY <1>1 DEF Kept, Stored
<1>4. mp4' = mp4 \/ (mp4' = files /\ ~Fits(mp4, row.final))
  BY <1>2 DEF Remux
<1>5. mp4' = files /\ ~Fits(mp4, row.final) => Covers(mp4', row.final)
  <2>1. ~Made => files \cup row.manifest = files
    BY DEF Made
  <2> QED BY <1>1, <1>3, <2>1 DEF Kept, RowWhole
<1>6. Made => mp4' = mp4
  BY <1>2, <1>3 DEF Remux
<1>7. worker'.pc = "remuxed" => Fits(mp4', row.final)
  <2>1. worker \in Jobs
    BY <1>1 DEF Kept, Guards, Typed, Shape, Jobs
  <2> QED BY <1>2, <2>1 DEF Remux, Goto, Jobs
<1> QED BY <1>1, <1>4, <1>5, <1>6, <1>7 DEF Remux, RowStays

LEMMA StoredStep ==
  ASSUME Kept, ~overtaken', [Next]_vars
  PROVE  Stored'
<1>0. /\ Steady(row, row') /\ (Forward \/ Elsewhere(row, row')) /\ RowWhole /\ Stored
      /\ Gone => Gone'
      /\ UNCHANGED mp4 \/ Remux \/ Erase
      /\ UNCHANGED object \/ PutObject \/ RemoveObject \/ RemoveOrphan
  BY StepSteady, StoreChanges, GuardsStep DEF Kept, Rightly, Gone
<1>1. Sealed(row) => Sealed(row') /\ (Counts(row') => Counts(row) /\ row'.final = row.final)
  BY <1>0 DEF Steady
<1>2. Made => Sealed(row)
  BY <1>0, StateNames DEF Made, RowWhole, Stored, Gone, Sealed, Agreed, Counts
<1>3. mp4' # {} => Sealed(row') /\ (Counts(row') => Covers(mp4', row'.final))
  <2>1. CASE UNCHANGED mp4
    BY <1>0, <1>1, <2>1 DEF Stored
  <2>2. CASE Remux
    BY <1>0, <2>2, RemuxFacts DEF Stored
  <2>3. CASE Erase
    BY <2>3 DEF Erase
  <2> QED BY <1>0, <2>1, <2>2, <2>3
<1>4. ASSUME Counts(row'), Made' PROVE Fits(mp4', row'.final)
  <2>1. CASE Forward
    <3>1. Counts(row) /\ row'.final = row.final /\ mp4' = mp4
      BY <2>1, ForwardFacts DEF Forward
    <3>2. SetTranscoding => Made
      BY <1>4, ForwardFacts DEF Made
    <3>3. Fits(mp4, row.final)
      BY <1>0, <2>1, <3>1, <3>2, ForwardFacts DEF Forward, Stored
    <3> QED BY <3>1, <3>3
  <2>2. CASE ~Forward
    <3>1. Made
      BY <1>0, <1>4, <2>2 DEF Made, Elsewhere
    <3>2. Counts(row) /\ row'.final = row.final
      BY <1>1, <1>2, <1>4, <3>1
    <3>3. mp4' = mp4
      BY <1>0, <3>1, <3>2, RemuxFacts, Losses
    <3> QED BY <1>0, <3>1, <3>2, <3>3 DEF Stored
  <2> QED BY <2>1, <2>2
<1>5. ASSUME row'.key, ~Gone' PROVE Counts(row') /\ object' = mp4'
  <2>1. CASE SetUploaded
    BY <2>1, ForwardFacts DEF Forward
  <2>2. CASE ~SetUploaded
    <3>1. row.key
      BY <1>0, <1>5, <2>2, ForwardFacts DEF Forward, Elsewhere
    <3>2. ~Gone /\ Counts(row) /\ object = mp4
      BY <1>0, <1>5, <3>1 DEF Stored
    <3>3. Counts(row')
      BY <1>0, <1>5, <3>2 DEF Steady, Gone
    <3>4. mp4' = mp4
      BY <1>0, <3>1, <3>2, RemuxFacts, Losses DEF Made
    <3>5. ~RemoveOrphan
      <4>1. RemoveOrphan => jobs["delete_orphan_object"].status = "running"
        BY DEF RemoveOrphan, Doing, Runnable
      <4> QED BY <1>0, <3>2, <4>1 DEF Stored, Active
    <3>6. object' = object \/ object' = mp4
      BY <1>0, <3>2, <3>5, Losses DEF PutObject
    <3> QED BY <3>2, <3>3, <3>4, <3>6
  <2> QED BY <2>1, <2>2
<1>6. ASSUME jobs'["delete_orphan_object"].status \in Active PROVE Sealed(row') /\ ~Counts(row')
  <2>1. CASE jobs["delete_orphan_object"].status \in Active
    BY <1>0, <1>1, <2>1 DEF Stored
  <2>2. CASE Orphaned
    <3>1. Sealed(row) /\ UNCHANGED row /\ ~Settable
      BY <2>2 DEF Orphaned, Doing, RowStays, Kept, Hand, Uploading
    <3>2. ~Counts(row)
      BY <1>0, <3>1, StateNames DEF Settable, Counts, RowWhole, Agreed
    <3> QED BY <3>1, <3>2
  <2> QED BY <1>6, <2>1, <2>2, OrphanJob DEF Kept, Guards
<1> QED BY <1>3, <1>4, <1>5, <1>6 DEF Stored

-----------------------------------------------------------------------------
(***************************************************************************)
(* The job that ends the state "transcoding", and what the handlers and    *)
(* the job in hand rely on.                                                *)
(***************************************************************************)
LEMMA HasJobStep ==
  ASSUME Kept, ~overtaken', [Next]_vars
  PROVE  HasJob'
<1> SUFFICES ASSUME row'.state = "transcoding" PROVE jobs'["transcode"].status \in Active
  BY DEF HasJob
<1> DEFINE t == "transcode"
<1>0. /\ Counted(jobs) /\ t \in Kinds /\ Typed
      /\ {"upload", "finalize_timeout", "delete_recording", "delete_orphan_object"} \subseteq Kinds
  BY DEF Kept, Guards, Typed, Kinds
<1>1. CASE SetTranscoding
  BY <1>1 DEF SetTranscoding, Doing, Runnable, Active
<1>2. CASE ~SetTranscoding
  <2>1. row' = row /\ row.state = "transcoding"
    BY <1>2, StepSteady, ForwardFacts DEF Forward, Elsewhere
  <2>2. jobs[t].status \in Active /\ row.fin = "complete" /\ row.state \notin Tombstones
    BY <2>1, StateNames DEF Kept, HasJob, RowWhole, Agreed
  <2>3. [row EXCEPT !.state = "transcode_failed"].state = "transcode_failed"
    BY DEF Kept, Guards, Typed, Shape, RowType, NoRow
  <2>4. ASSUME NEW js, Counted(js), NEW k \in Kinds, js[t].status \in Active,
               jobs' \in {js, Enqueue(js, k)}
        PROVE  jobs'[t].status \in Active
    BY <1>0, <2>4, EnqueueEffect
  <2>5. CASE UNCHANGED jobs
    BY <2>2, <2>5
  <2>6. CASE Routes
    BY <1>0, <2>1, <2>2, <2>6, RequestJobs
  <2>7. CASE \E k \in Kinds : ClaimJob(k)
    BY <1>0, <2>2, <2>7 DEF ClaimJob, Active, Counted
  <2>8. CASE Finished
    <3>1. worker # Off /\ worker.pc \in {"done", "cancelling"}
      BY <2>8 DEF Finished, Busy, Off
    <3>2. ~(Mine /\ worker.kind = t)
      BY <2>1, <3>1 DEF Kept, Hand, Transcode
    <3> QED BY <1>0, <2>2, <2>8, <3>2 DEF Finished, Counted
  <2>9. CASE Failed
    <3>1. ~(Mine /\ worker.kind = t)
      BY <2>1, <2>2, <2>3, <2>9 DEF Failed
    <3> QED BY <1>0, <2>2, <2>9, <3>1 DEF Failed, Counted
  <2>10. CASE HandOver \/ GraceCloses \/ Orphaned \/ Reconcile
    <3>1. \E k \in Kinds : jobs' \in {jobs, Enqueue(jobs, k)}
      BY <1>0, <2>10, EnqueueChoice DEF HandOver, GraceCloses, Orphaned, Reconcile, Reconciled
    <3> QED BY <1>0, <2>2, <2>4, <3>1
  <2>11. CASE Resubmit
    <3> DEFINE js == EnqueueIf(phase # "live" /\ row.state \in Open, jobs, "finalize_timeout")
    <3>1. Counted(js) /\ js[t].status \in Active
      BY <1>0, <2>2, EnqueueCounts, EnqueueEffect, EnqueueChoice
    <3>2. \E k \in Kinds : jobs' \in {js, Enqueue(js, k)}
      BY <1>0, <2>11, EnqueueChoice DEF Resubmit, Resubmitted
    <3> HIDE DEF js
    <3> QED BY <2>4, <3>1, <3>2
  <2>12. CASE LeaseExpires \/ Restart
    <3>1. row' = RecoveredRow
      BY <2>12 DEF LeaseExpires, Restart
    <3>2. ~(jobs[t].status = "running" /\ Exhausted(t))
      BY <2>1, <2>3, <3>1 DEF RecoveredRow
    <3>3. RecoveredJobs[t].status \in Active /\ Counted(RecoveredJobs)
      BY <1>0, <2>2, <3>2, RecoveredEffect, RecoveredCounts DEF Active
    <3>4. jobs' \in {RecoveredJobs, Enqueue(RecoveredJobs, "delete_recording")}
      BY <2>12, EnqueueChoice DEF LeaseExpires, Restart, Reconciled
    <3> QED BY <1>0, <2>4, <3>3, <3>4
  <2>13. CASE Stopped
    BY <1>0, <2>2, <2>13 DEF Stopped, Active, Counted
  <2> QED BY <2>5, <2>6, <2>7, <2>8, <2>9, <2>10, <2>11, <2>12, <2>13
          DEF Next, vars, takeVars, JobStep, Unrunnable, TranscodeChecks, SetTranscoding, Remux,
              SetTranscoded, Clean, UploadChecks, PutObject, SetUploaded, DeleteChecks, RemoveObject,
              Erase, Bury, RemoveOrphan, GraceDecides, Maintenance, Faulty, StepFails,
              FinishLost
<1> QED BY <1>1, <1>2

LEMMA Persist ==
  ASSUME Kept, ~overtaken', [Next]_vars
  PROVE  /\ Sealed(row) => Sealed(row') /\ (Counts(row') => Counts(row) /\ row'.final = row.final)
         /\ Gone => Gone'
         /\ Sealed(row') \/ files \subseteq files'
<1>1. Steady(row, row') /\ Rightly(row, row')
  BY StepSteady, GuardsStep DEF Kept
<1>2. Sealed(row') \/ files \subseteq files'
  BY <1>1, StoreChanges, Losses DEF Steady, ChunkStored
<1> QED BY <1>1, <1>2 DEF Steady, Rightly, Gone

LEMMA SeenStep ==
  ASSUME Kept, ~overtaken', [Next]_vars
  PROVE  Seen'
<1>0. (Sealed(row) => Sealed(row')) /\ (Sealed(row') \/ files \subseteq files')
  BY Persist
<1>1. thread' = thread \/ thread' = Idle \/ \E p \in Payloads : FinalizeReads(p)
  BY DEF Next, vars, takeVars, Routes, Claim, Upload, ChunkArrives, ChunkResumes, ChunkInManifest,
         ChunkRefused, ChunkStored, ChunkConflicts, ChunkRecorded, ChunkRefreshes, ChunkUnrecorded,
         Finalize, FinalizeFirst, FinalizeWrites, FinalizeFails, End, GraceExpires, Process, View,
         Delete, ClaimJob, JobStep, Finished, Failed, Unrunnable, TranscodeChecks, SetTranscoding,
         Remux, SetTranscoded, Clean, HandOver, UploadChecks, PutObject, SetUploaded, Orphaned,
         DeleteChecks, RemoveObject, Erase, Bury, RemoveOrphan, GraceDecides, GraceCloses,
         RowStays, Maintenance, LeaseExpires, Resubmit, Reconcile, Faulty, StepFails,
         FinishLost, Stopped, Restart, HandlersLost
<1>2. CASE thread' = thread
  BY <1>0, <1>2 DEF Kept, Seen
<1>3. CASE thread' = Idle \/ \E p \in Payloads : FinalizeReads(p)
  BY <1>3 DEF FinalizeReads, Seen, Idle
<1> QED BY <1>1, <1>2, <1>3

LEMMA HandStays ==
  ASSUME Kept, ~overtaken', [Next]_vars, UNCHANGED <<worker, mp4, object>>, Elsewhere(row, row'),
         worker # Off, jobs'[worker.kind].status = "running" => Mine
  PROVE  Hand'
<1>1. Transcode /\ Uploading /\ Deleting
  BY DEF Kept, Hand
<1>2. Deleting'
  BY <1>1, Persist DEF Deleting
<1>3. Transcode'
  BY <1>1, Persist DEF Transcode, Elsewhere, Mine
<1>4. Uploading'
  BY <1>1, Persist DEF Uploading
<1> QED BY <1>2, <1>3, <1>4 DEF Hand

\* A step of the job in hand to a place where it relies on nothing.
Restful == {"claimed", "failing", "burying"}
LEMMA RestfulHand ==
  ASSUME worker' # Off => worker'.pc \in Restful
  PROVE  Hand'
BY DEF Hand, Transcode, Uploading, Deleting, Restful

LEMMA TranscodeHand ==
  ASSUME Kept, ~overtaken', [Next]_vars,
         TranscodeChecks \/ SetTranscoding \/ Remux \/ SetTranscoded \/ Clean \/ HandOver
  PROVE  Hand'
<1>0. /\ worker \in Jobs /\ worker # Off /\ worker.kind = "transcode" /\ Transcode
      /\ Counted(jobs) /\ {"transcode", "upload"} \subseteq Kinds
  BY DEF TranscodeChecks, SetTranscoding, Remux, SetTranscoded, Clean, HandOver, Doing, Kept, Guards,
         Typed, Shape, Jobs, Hand, Off, Kinds
<1>1. worker'.kind = "transcode"
  BY <1>0 DEF TranscodeChecks, SetTranscoding, Remux, SetTranscoded, Clean, HandOver, Goto, Jobs
<1>2. SUFFICES Transcode'
  BY <1>1 DEF Hand, Uploading, Deleting
<1>3. CASE TranscodeChecks
  <2>1. Sealed(row) /\ UNCHANGED row
    BY <1>0, <1>3, RunnableCounts DEF TranscodeChecks, RowStays
  <2>2. worker'.pc \in {"checked", "failing"} /\ worker'.manifest = row.manifest /\ worker'.final = row.final
    BY <1>0, <1>3 DEF TranscodeChecks, Jobs
  <2> QED BY <2>1, <2>2 DEF Transcode
<1>4. CASE SetTranscoding
  <2>1. worker'.pc = "remuxing" /\ worker'.manifest = worker.manifest /\ worker'.final = worker.final
        /\ worker.pc = "checked"
    BY <1>0, <1>4 DEF SetTranscoding, Goto, Doing, Jobs
  <2> QED BY <1>0, <1>4, <2>1, ForwardFacts DEF Forward, Transcode
<1>5. CASE Remux
  <2>1. worker'.pc \in {"remuxed", "failing"} /\ worker'.manifest = worker.manifest
        /\ worker'.final = worker.final /\ worker.pc = "remuxing"
    BY <1>0, <1>5 DEF Remux, Goto, Doing, Jobs
  <2> QED BY <1>0, <1>5, <2>1, RemuxFacts DEF Transcode
<1>6. CASE SetTranscoded
  <2>1. worker'.pc = "cleaning"
    BY <1>0, <1>6 DEF SetTranscoded, Goto, Jobs
  <2>2. Sealed(row') /\ row'.state = "transcoded" /\ row'.final = row.final /\ Counts(row)
        /\ row'.manifest = IF row.manifest # {} THEN row.manifest ELSE files
    BY <1>6, ForwardFacts DEF Forward
  <2>3. Covers(row'.manifest, row'.final)
    <3>1. row.manifest = {} => files \cup row.manifest = files
      OBVIOUS
    <3> QED BY <2>2, <3>1 DEF Kept, RowWhole
  <2> QED BY <2>1, <2>2, <2>3 DEF Transcode
<1>7. CASE Clean \/ HandOver
  <2>1. worker'.pc \in {"handing", "done"} /\ worker.pc \in {"cleaning", "handing"} /\ UNCHANGED row
    BY <1>0, <1>7 DEF Clean, HandOver, Goto, Doing, Jobs, RowStays
  <2>2. jobs'["transcode"] = jobs["transcode"]
    <3>1. jobs' \in {jobs, Enqueue(jobs, "upload")}
      BY <1>7, EnqueueChoice DEF Clean, HandOver
    <3> QED BY <1>0, <3>1, EnqueueEffect
  <2> QED BY <1>0, <1>1, <2>1, <2>2 DEF Transcode, Mine
<1> QED BY <1>3, <1>4, <1>5, <1>6, <1>7

LEMMA StoreHand ==
  ASSUME Kept, ~overtaken', [Next]_vars,
         UploadChecks \/ PutObject \/ SetUploaded \/ Orphaned \/ DeleteChecks \/ RemoveObject
           \/ Erase \/ Bury \/ RemoveOrphan
  PROVE  Hand'
<1>0. worker \in Jobs /\ worker # Off /\ Uploading /\ Deleting
      /\ worker.kind \in {"upload", "delete_recording", "delete_orphan_object"}
  BY DEF UploadChecks, PutObject, SetUploaded, Orphaned, DeleteChecks, RemoveObject, Erase, Bury,
         RemoveOrphan, Doing, Kept, Guards, Typed, Shape, Jobs, Hand, Off
<1>1. worker'.kind = worker.kind
  BY <1>0 DEF UploadChecks, PutObject, SetUploaded, Orphaned, DeleteChecks, RemoveObject, Erase, Bury,
              RemoveOrphan, Goto, Jobs
<1>2. SUFFICES Uploading' /\ Deleting'
  BY <1>0, <1>1 DEF Hand, Transcode
<1>3. CASE UploadChecks
  <2>1. Sealed(row) /\ UNCHANGED row /\ worker.kind = "upload" /\ mp4' = mp4
    BY <1>3, RunnableCounts DEF UploadChecks, Doing, RowStays
  <2>2. worker'.pc \in {"putting", "failing"} /\ (worker'.pc = "putting" => Fits(mp4, row.final))
    BY <1>0, <1>3 DEF UploadChecks, Goto, Jobs
  <2> QED BY <1>1, <2>1, <2>2 DEF Uploading, Deleting
<1>4. CASE PutObject
  <2>1. worker.pc = "putting" /\ worker'.pc = "put" /\ worker.kind = "upload"
        /\ object' = mp4 /\ mp4' = mp4 /\ UNCHANGED row
    BY <1>0, <1>4 DEF PutObject, Doing, Goto, Jobs, RowStays
  <2> QED BY <1>0, <1>1, <2>1 DEF Uploading, Deleting
<1>5. CASE SetUploaded \/ Orphaned \/ Bury \/ RemoveOrphan \/ Erase
  <2>1. worker'.pc \in {"done", "cancelling", "burying"}
    BY <1>0, <1>5 DEF SetUploaded, Orphaned, Bury, RemoveOrphan, Erase, Goto, Jobs
  <2> QED BY <2>1 DEF Uploading, Deleting
<1>6. CASE DeleteChecks
  <2>1. worker'.kind = "delete_recording" /\ (worker'.pc = "removing" => Gone) /\ UNCHANGED row
        /\ worker'.pc \in {"removing", "done"}
    BY <1>0, <1>1, <1>6 DEF DeleteChecks, Doing, Goto, Jobs, RowStays, Gone
  <2> QED BY <2>1 DEF Uploading, Deleting, Gone
<1>7. CASE RemoveObject
  <2>1. worker'.kind = "delete_recording"
    BY <1>1, <1>7 DEF RemoveObject, Doing
  <2> QED BY <1>7, <2>1, Losses DEF Uploading, Deleting, Gone
<1> QED BY <1>3, <1>4, <1>5, <1>6, <1>7

LEMMA HandStep ==
  ASSUME Kept, ~overtaken', [Next]_vars
  PROVE  Hand'
<1>0. Typed /\ worker \in {Off} \cup Jobs
  BY DEF Kept, Guards, Typed, Shape, Jobs
<1>1. CASE Routes /\ UNCHANGED jobVars
  <2>1. CASE worker = Off
    BY <1>1, <2>1, RestfulHand DEF jobVars
  <2>2. CASE worker # Off
    <3>1. worker.kind \in Kinds
      BY <1>0, <2>2 DEF Jobs
    <3> QED BY <1>0, <1>1, <2>2, <3>1, RequestsSteady, RequestJobs, HandStays DEF jobVars, Mine
  <2> QED BY <2>1, <2>2
<1>2. CASE UNCHANGED vars
  <2>1. Elsewhere(row, row') /\ UNCHANGED <<worker, mp4, object, jobs>>
    BY <1>2, SteadySame DEF Kept, RowWhole, vars, takeVars, jobVars
  <2>2. CASE worker = Off
    BY <2>1, <2>2, RestfulHand
  <2> QED BY <2>1, <2>2, HandStays DEF Mine
<1>3. CASE \E k \in Kinds : ClaimJob(k)
  BY <1>3, RestfulHand DEF ClaimJob, Restful
<1>4. CASE Finished \/ Failed \/ FinishLost \/ Stopped \/ Restart \/ Maintenance
  BY <1>4, RestfulHand DEF Finished, Failed, FinishLost, Stopped, Restart, Maintenance, LeaseExpires,
                           Resubmit, Reconcile, jobVars
<1>5. CASE StepFails
  <2>1. worker'.pc = "failing"
    BY <1>0, <1>5 DEF StepFails, Goto, Jobs
  <2> QED BY <2>1, RestfulHand DEF Restful
<1>6. CASE Unrunnable
  <2>1. worker'.pc = "cancelling" /\ worker'.kind = worker.kind /\ UNCHANGED <<row, jobs>> /\ ~Runnable
    BY <1>0, <1>6 DEF Unrunnable, Goto, Jobs, takeVars
  <2>2. worker.kind = "transcode" /\ Mine => row.state # "transcoding"
    BY <2>1, StateNames DEF Runnable, Mine, Kept, RowWhole, Agreed, NoRow
  <2> QED BY <2>1, <2>2 DEF Hand, Transcode, Uploading, Deleting, Mine
<1>7. CASE GraceDecides \/ GraceCloses
  <2>1. worker'.kind = "finalize_timeout"
    BY <1>0, <1>7 DEF GraceDecides, GraceCloses, Doing, Goto, Jobs
  <2> QED BY <2>1 DEF Hand, Transcode, Uploading, Deleting
<1> QED BY <1>1, <1>2, <1>3, <1>4, <1>5, <1>6, <1>7, TranscodeHand, StoreHand
        DEF Next, JobStep, Faulty

LEMMA KeptInit == Init => Kept
<1> SUFFICES ASSUME Init PROVE Kept
  OBVIOUS
<1>1. RowWhole /\ Seen /\ Hand /\ HasJob
  BY RowKinds DEF Init, TakeInit, RowWhole, Seen, Hand, HasJob, Idle, NoRow
<1>2. Stored
  BY RowKinds DEF Init, TakeInit, Stored, Made, Closed, Active, Kinds, NoRow
<1> QED BY <1>1, <1>2, GuardsInit DEF Kept

LEMMA KeptStep ==
  ASSUME Kept, ~overtaken', [Next]_vars
  PROVE  Kept'
BY GuardsStep, RowWholeStep, StoredStep, HasJobStep, SeenStep, HandStep DEF Kept

\* What is kept until a commit overtakes the row.
Sound == overtaken \/ Kept

LEMMA SoundAlways == Spec => []Sound
<1>1. Init => Sound
  BY KeptInit DEF Sound
<1>2. Sound /\ [Next]_vars => Sound'
  BY KeptStep, OvertakenStays DEF Sound
<1> QED BY <1>1, <1>2, PTL DEF Spec

\* Finals are integers, so that a slice lies past the end or within it.
LEMMA WithinEnd ==
  ASSUME NEW s \in Slices, NEW S, NEW n \in Finals, Covers(S, n)
  PROVE  s.seq \in Seqs(S) \/ s.seq > n
<1>1. s.seq \in Nat /\ n \in Int
  BY TakeConstants DEF Finals, NoFinal
<1> QED BY <1>1 DEF Covers

\* A take is called complete only when each of its slices is stored, and that
\* stays true: uploads, declarations, the grace, deletions and restarts that
\* run meanwhile take none away before it is in the manifest.
THEOREM CompleteCorrect == Spec => []CompleteIsWhole
<1>1. Sound => CompleteIsWhole
  BY DEF Sound, Kept, RowWhole, CompleteIsWhole, Counts, Gone, Covers
<1> QED BY <1>1, SoundAlways, PTL

\* The MP4 of a transcoded take holds every declared slice, and the object its
\* key leads to is that MP4, whatever attempts, orphans and deletions went before.
THEOREM ObjectCorrect == Spec => []ObjectHolds
<1>1. Sound => ObjectHolds
  <2> SUFFICES ASSUME Kept, ~Gone
               PROVE  /\ row.state \in {"transcoded", "uploaded"} => 0..row.final \subseteq Seqs(mp4)
                      /\ row.key => object # {} /\ object = mp4
    BY DEF Sound, ObjectHolds
  <2>1. Counts(row) /\ Made => mp4 # {} /\ Covers(mp4, row.final)
    BY DEF Kept, Stored, Fits
  <2>2. CASE row.state \in {"transcoded", "uploaded"}
    <3>1. Counts(row)
      BY <2>2, StateNames DEF Kept, RowWhole, Agreed, Counts
    <3> QED BY <2>1, <2>2, <3>1 DEF Made, Covers, Kept, Stored
  <2>3. CASE row.state \notin {"transcoded", "uploaded"}
    BY <2>1, <2>3 DEF Made, Kept, Stored
  <2> QED BY <2>2, <2>3
<1> QED BY <1>1, SoundAlways, PTL

\* A take that says it is being transcoded has a job that will end that state:
\* neither a lost finish, a restart nor a cancellation leaves it behind.
THEOREM StrandedCorrect == Spec => []NotStranded
<1>1. Sound => NotStranded
  BY DEF Sound, Kept, HasJob, NotStranded
<1> QED BY <1>1, SoundAlways, PTL

\* A stored slice goes only with its take, once its sequence is in the manifest
\* of a verified MP4, or past the declared end; a manifest never changes.
THEOREM MediaCorrect == Spec => MediaKept
<1>1. ASSUME Kept, ~overtaken', [Next]_vars
      PROVE  /\ \A s \in files \ files' : Gone \/ s.seq \in Seqs(row.manifest) \/ s.seq > row.final
             /\ row.manifest # {} => row'.manifest = row.manifest
  <2>1. row.manifest # {} => row'.manifest = row.manifest
    BY <1>1, StepSteady, ForwardFacts DEF Forward, Elsewhere
  <2>2. ASSUME NEW s \in files \ files'
        PROVE  Gone \/ s.seq \in Seqs(row.manifest) \/ s.seq > row.final
    <3>1. Gone \/ Covers(row.manifest, row.final)
      BY <1>1, <2>2, StoreChanges, Losses DEF ChunkStored
    <3>2. s \in Slices /\ row.final \in Finals
      BY <1>1, FieldValues DEF Kept, Guards, Typed, Shape, RowType, NoRow
    <3> QED BY <3>1, <3>2, WithinEnd
  <2> QED BY <2>1, <2>2
<1>2. Sound /\ [Next]_vars =>
        [~overtaken' =>
           /\ \A s \in files \ files' : Gone \/ s.seq \in Seqs(row.manifest) \/ s.seq > row.final
           /\ row.manifest # {} => row'.manifest = row.manifest]_vars
  BY <1>1, OvertakenStays DEF Sound
<1> QED BY <1>2, SoundAlways, PTL DEF Spec, MediaKept


-----------------------------------------------------------------------------
(***************************************************************************)
(* The life of a take.  What is complete goes on to a verified MP4 and to  *)
(* its object: an upload is only queued for a take that has its manifest,  *)
(* which is never taken back.                                              *)
(***************************************************************************)
\* A row stays, "deleted" is the last state, and a key goes with the take.
Onward(rec, new) ==
  /\ new.state = "absent" => rec.state = "absent"
  /\ new.state = "deleted" => rec.state \in Tombstones
  /\ rec.state = "deleted" => new.state = "deleted"
  /\ rec.key => new.key \/ new.state \in Tombstones

LEMMA OnwardSame == \A rec : Onward(rec, rec)
BY DEF Onward, Tombstones

LEMMA OnwardKeyed ==
  ASSUME NEW rec, NEW new, rec.state \notin Tombstones,
         new.state \notin Tombstones \cup {"absent"}, new.key = rec.key
  PROVE  Onward(rec, new)
BY DEF Onward, Tombstones

\* A declaration changes neither the key nor the state to one it does not name.
LEMMA FinalizedOnward ==
  ASSUME NEW rec \in RowType, NEW p \in Payloads, NEW seen \in SUBSET Slices, ~Refused(rec, p, seen)
  PROVE  Onward(rec, Finalized(rec, p, seen))
<1> DEFINE d == Declared(rec, p)
<1>1. d \in RowType /\ d.state = rec.state /\ d.key = rec.key
  <2>1. \A l \in BOOLEAN : LET x == [rec EXCEPT !.final = p.final, !.dur = p.dur, !.lost = l] IN
          x \in RowType /\ x.state = rec.state /\ x.key = rec.key
    BY FieldValues DEF RowType
  <2>2. (p.lost \/ (Protected(rec) /\ rec.lost)) \in BOOLEAN
    OBVIOUS
  <2> QED BY <2>1, <2>2 DEF Declared
<1> HIDE DEF d
<1>2. /\ Latched(d).state = "incomplete" /\ Latched(d).key = rec.key
      /\ LET x == [Latched(d) EXCEPT !.inc = "recorder_lost"] IN x.state = "incomplete" /\ x.key = rec.key
      /\ Pending(d) \in RowType /\ Pending(d).state \in {rec.state, "finalizing"} /\ Pending(d).key = rec.key
  BY <1>1, FieldValues DEF Latched, Pending, RowType
<1>3. Completed(Pending(d)).state = "complete" /\ Completed(Pending(d)).key = rec.key
  BY <1>2 DEF Completed, RowType
<1>4. rec.state \notin Tombstones \cup {"absent"}
  BY FieldValues DEF Refused, RowType
<1>5. \/ Finalized(rec, p, seen) \in {d, Latched(d), Pending(d), Completed(Pending(d))}
      \/ Finalized(rec, p, seen) = [Latched(d) EXCEPT !.inc = "recorder_lost"]
  BY DEF Finalized, d
<1>6. Finalized(rec, p, seen).key = rec.key
      /\ Finalized(rec, p, seen).state \in {rec.state, "incomplete", "finalizing", "complete"}
  BY <1>1, <1>2, <1>3, <1>5
<1> QED BY <1>4, <1>6, OnwardKeyed DEF Tombstones

LEMMA RequestsOnward ==
  ASSUME Kept, ~overtaken', Routes
  PROVE  Onward(row, row')
<1>0. row \in RowType \cup {NoRow} /\ NewRow \in RowType /\ NewRow.state = "recording" /\ ~NewRow.key
      /\ NoRow.state = "absent" /\ ~NoRow.key
  BY NewRowIsRow DEF Kept, Guards, Typed, Shape, NewRow, NoRow
<1>1. CASE UNCHANGED row
  BY <1>1, OnwardSame
<1>2. ASSUME NEW new, row = NoRow, row' = new, new.state \notin {"absent", "deleted"}
      PROVE  Onward(row, row')
  BY <1>0, <1>2 DEF Onward
<1>3. CASE \E t \in Takes : Claim(t)
  <2>1. \A t \in Takes : [NewRow EXCEPT !.take = t].state = "recording"
    BY DEF NewRow, NoRow
  <2> QED BY <1>1, <1>2, <1>3, <2>1 DEF Claim
<1>4. CASE Upload
  <2>1. CASE ChunkRefreshes
    <3>1. row \in RowType
      BY <2>1 DEF ChunkRefreshes, Kept, Guards, Typed, Shape, Held, Idle
    <3>2. CASE row' = Completed(row) /\ Refreshable(row)
      <4>1. row'.state = "complete" /\ row'.key = row.key
        BY <3>1, <3>2 DEF Completed, RowType
      <4> QED BY <3>2, <4>1, OnwardKeyed DEF Refreshable, Terminal, Tombstones
    <3> QED BY <1>1, <2>1, <3>2, Commits
  <2>2. CASE ChunkRecorded
    <3>1. (row = NoRow /\ row' = NewRow) \/ UNCHANGED row
      BY <2>2 DEF ChunkRecorded
    <3> QED BY <1>0, <1>1, <1>2, <3>1
  <2> QED BY <1>1, <1>4, <2>1, <2>2
          DEF Upload, ChunkArrives, ChunkResumes, ChunkInManifest, ChunkRefused, ChunkStored,
              ChunkConflicts, ChunkUnrecorded
<1>5. CASE Finalize
  <2>1. CASE FinalizeWrites
    <3>1. thread.p \in Payloads /\ thread.seen \in SUBSET Slices /\ row \in RowType
      BY <2>1 DEF FinalizeWrites, Kept, Guards, Typed, Shape, Held, Idle
    <3> QED BY <1>1, <2>1, <3>1, Commits, FinalizedOnward
  <2>2. ASSUME NEW p \in Payloads, FinalizeFirst(p) PROVE Onward(row, row')
    <3>1. row = NoRow /\ files \in SUBSET Slices /\ row' = Finalized(NewRow, p, files)
          /\ ~Refused(NewRow, p, files)
      BY <2>2 DEF FinalizeFirst, Kept, Guards, Typed, Shape
    <3>2. Onward(NewRow, row')
      BY <1>0, <3>1, FinalizedOnward
    <3>3. row'.state \notin {"absent", "deleted"}
      BY <1>0, <3>2 DEF Onward, Tombstones
    <3> QED BY <1>2, <3>1, <3>3
  <2> QED BY <1>1, <1>5, <2>1, <2>2 DEF Finalize, FinalizeReads, FinalizeFails
<1>6. CASE End
  <2>1. CASE row = NoRow
    <3>1. row'.state = "finalizing"
      BY <1>0, <1>6, <2>1 DEF End, RowType
    <3> QED BY <1>2, <2>1, <3>1
  <2>2. CASE row # NoRow /\ row.state = "recording"
    <3>1. row'.state = "finalizing" /\ row'.key = row.key
      BY <1>0, <1>6, <2>2 DEF End, RowType
    <3> QED BY <2>2, <3>1, OnwardKeyed DEF Tombstones
  <2> QED BY <1>1, <1>6, <2>1, <2>2 DEF End
<1>7. CASE Delete
  <2>1. CASE row = NoRow
    <3>1. row'.state = "deleting"
      BY <1>0, <1>7, <2>1 DEF Delete, RowType, Tombstones
    <3> QED BY <1>2, <2>1, <3>1
  <2>2. CASE row # NoRow
    <3>1. row'.state = IF row.state \in Tombstones THEN row.state ELSE "deleting"
      BY <1>0, <1>7, <2>2 DEF Delete, RowType
    <3> QED BY <3>1 DEF Onward, Tombstones
  <2> QED BY <2>1, <2>2
<1> QED BY <1>1, <1>3, <1>4, <1>5, <1>6, <1>7 DEF Routes, GraceExpires, Process, View

LEMMA WorkerOnward ==
  ASSUME Kept, ~overtaken',
         (\E k \in Kinds : ClaimJob(k)) \/ JobStep \/ Maintenance \/ Faulty
  PROVE  Onward(row, row')
<1>0. Agreed(row) /\ row \in RowType \cup {NoRow}
  BY DEF Kept, RowWhole, Guards, Typed, Shape
<1>1. CASE UNCHANGED row
  BY <1>1, OnwardSame
<1>2. ASSUME Counts(row), row' = [row EXCEPT !.state = "transcode_failed"]
      PROVE  Onward(row, row')
  <2>1. row \in RowType
    BY <1>0, <1>2, RowKinds
  <2>2. row'.state = "transcode_failed" /\ row'.key = row.key
    BY <1>2, <2>1 DEF RowType
  <2> QED BY <1>2, <2>2, OnwardKeyed DEF Counts, Tombstones
<1>3. CASE Failed
  <2>1. UNCHANGED row \/ (Counts(row) /\ row' = [row EXCEPT !.state = "transcode_failed"])
    BY <1>3 DEF Failed, Counts
  <2> QED BY <1>1, <1>2, <2>1
<1>4. CASE Forward
  <2>1. Counts(row)
    BY <1>4, ForwardFacts
  <2>2. row \in RowType
    BY <1>0, <2>1, RowKinds
  <2>3. row'.state \in {"transcoding", "transcoded", "uploaded"} /\ (row.key => row'.key)
    BY <1>4, <2>2 DEF Forward, SetTranscoding, SetTranscoded, SetUploaded, RowType
  <2> QED BY <2>1, <2>3 DEF Onward, Counts, Tombstones
<1>5. CASE row' = RecoveredRow
  <2>1. CASE row.state = "transcoding"
    <3>1. Counts(row)
      BY <1>0, <2>1, StateNames DEF Agreed, Counts
    <3> QED BY <1>1, <1>2, <1>5, <3>1 DEF RecoveredRow
  <2> QED BY <1>1, <1>5, <2>1 DEF RecoveredRow
<1>6. CASE Bury
  <2>1. CASE row.state = "deleting"
    <3>1. row'.state = "deleted"
      BY <1>0, <1>6, <2>1 DEF Bury, RowType, NoRow
    <3> QED BY <2>1, <3>1 DEF Onward, Tombstones
  <2> QED BY <1>1, <1>6, <2>1 DEF Bury
<1>7. CASE GraceCloses
  <2>1. CASE Claimable(row)
    <3>1. row \in RowType /\ row.state \in Open
      BY <1>0, <2>1 DEF Claimable, Open, NoRow
    <3>2. row'.state \in {"complete", "incomplete"} /\ row'.key = row.key
      BY <1>7, <2>1, <3>1 DEF GraceCloses, ClosedRow, Completed, RowType
    <3> QED BY <3>1, <3>2, OnwardKeyed DEF Open, Tombstones
  <2> QED BY <1>1, <1>7, <2>1 DEF GraceCloses
<1> QED BY <1>1, <1>3, <1>4, <1>5, <1>6, <1>7
        DEF ClaimJob, JobStep, Forward, Finished, Unrunnable, TranscodeChecks, Remux, Clean, HandOver,
            UploadChecks, PutObject, Orphaned, DeleteChecks, RemoveObject, Erase, RemoveOrphan,
            GraceDecides, RowStays, takeVars, Maintenance, LeaseExpires, Resubmit,
            Reconcile, Faulty, StepFails, FinishLost, Stopped, Restart

LEMMA StepOnward == ASSUME Kept, ~overtaken', [Next]_vars PROVE Onward(row, row')
<1>1. CASE UNCHANGED vars
  BY <1>1, OnwardSame DEF vars, takeVars
<1> QED BY <1>1, RequestsOnward, WorkerOnward DEF Next


\* What goes on to the object has its manifest: so has each upload that is
\* queued or runs, and the transcode that is about to queue one.
Manifested ==
  \/ row.state \in {"transcoded", "uploaded"}
  \/ jobs["upload"].status \in Active
  \/ worker # Off /\ worker.kind = "upload"
  \/ worker # Off /\ worker.kind = "transcode" /\ worker.pc \in {"cleaning", "handing"}
Verified == Manifested => row.manifest # {}

\* Only what is in the manifest already is uploaded.
LEMMA UploadJob ==
  ASSUME Typed, [Next]_vars, jobs'["upload"].status \in Active
  PROVE  Manifested
<1> DEFINE u == "upload"
<1>0. /\ Counted(jobs) /\ u \in Kinds
      /\ {"transcode", "finalize_timeout", "delete_recording", "delete_orphan_object"} \subseteq Kinds \ {u}
  BY DEF Typed, Kinds
<1> SUFFICES ASSUME jobs[u].status \notin Active, row.state \notin {"transcoded", "uploaded"}
             PROVE  Manifested
  BY DEF Manifested
<1>1. CASE UNCHANGED jobs
  BY <1>1
<1>2. ASSUME NEW js, Counted(js), js[u].status \notin Active, NEW k \in Kinds \ {u},
             jobs' \in {js, Enqueue(js, k)}
      PROVE  FALSE
  BY <1>0, <1>2, EnqueueEffect
<1>3. CASE ChunkRefreshes \/ End \/ Process \/ View \/ Orphaned \/ FinalizeWrites \/ GraceCloses \/ Reconcile
           \/ \E p \in Payloads : FinalizeFirst(p)
  <2>1. \E k \in Kinds \ {u} : jobs' \in {jobs, Enqueue(jobs, k)}
    BY <1>0, <1>3, EnqueueChoice
       DEF ChunkRefreshes, End, Process, View, Orphaned, FinalizeWrites, FinalizeFirst, GraceCloses,
           Reconcile, Reconciled
  <2> QED BY <1>0, <1>2, <2>1
<1>4. CASE Delete
  <2> DEFINE js == IF row.state \in Tombstones THEN jobs ELSE Cancelled(jobs)
  <2>1. Counted(js) /\ js[u].status \notin Active
    BY <1>0, CancelledCounts DEF Cancelled
  <2>2. jobs' = Enqueue(js, "delete_recording")
    BY <1>4 DEF Delete
  <2> HIDE DEF js
  <2> QED BY <1>0, <1>2, <2>1, <2>2
<1>5. CASE Routes
  BY <1>1, <1>3, <1>4, <1>5
     DEF Routes, Claim, Upload, ChunkArrives, ChunkResumes, ChunkInManifest, ChunkRefused, ChunkStored,
         ChunkConflicts, ChunkRecorded, ChunkUnrecorded, Finalize, FinalizeReads, FinalizeFails,
         GraceExpires
<1>6. CASE \E k \in Kinds : ClaimJob(k)
  BY <1>0, <1>6 DEF ClaimJob, Active, Counted
<1>7. CASE HandOver
  BY <1>7 DEF HandOver, Doing, Manifested
<1>8. CASE Finished \/ Failed \/ Stopped
  BY <1>0, <1>8 DEF Finished, Failed, Stopped, Closed, Mine, Active, Counted
<1>9. CASE JobStep
  BY <1>1, <1>3, <1>7, <1>8, <1>9
     DEF JobStep, Unrunnable, TranscodeChecks, SetTranscoding, Remux, SetTranscoded, Clean, UploadChecks,
         PutObject, SetUploaded, DeleteChecks, RemoveObject, Erase, Bury, RemoveOrphan, GraceDecides,
         takeVars
<1>10. CASE LeaseExpires \/ Restart
  <2>1. Counted(RecoveredJobs) /\ RecoveredJobs[u].status \notin Active
    BY <1>0, RecoveredCounts, RecoveredEffect
  <2>2. jobs' \in {RecoveredJobs, Enqueue(RecoveredJobs, "delete_recording")}
    BY <1>10, EnqueueChoice DEF LeaseExpires, Restart, Reconciled
  <2> QED BY <1>0, <1>2, <2>1, <2>2
<1>11. CASE Resubmit
  <2> DEFINE js == EnqueueIf(phase # "live" /\ row.state \in Open, jobs, "finalize_timeout")
  <2>1. Counted(js) /\ js[u] = jobs[u]
    BY <1>0, EnqueueCounts, EnqueueEffect, EnqueueChoice
  <2>2. jobs' \in {js, Enqueue(js, "transcode")}
    BY <1>11, EnqueueChoice DEF Resubmit, Resubmitted
  <2> HIDE DEF js
  <2> QED BY <1>0, <1>2, <2>1, <2>2
<1> QED BY <1>1, <1>3, <1>5, <1>6, <1>8, <1>9, <1>10, <1>11
        DEF Next, vars, takeVars, Maintenance, Faulty, StepFails, FinishLost

\* The thread takes a job, keeps it, or lets it go.
LEMMA WorkerMoves ==
  ASSUME worker \in {Off} \cup Jobs, [Next]_vars
  PROVE  \/ worker' \in {worker, Off}
         \/ \E k \in Kinds : ClaimJob(k)
         \/ /\ worker # Off /\ worker'.kind = worker.kind
            /\ worker'.pc \in {"cleaning", "handing"} => SetTranscoded \/ Clean
<1>1. CASE UNCHANGED vars
  BY <1>1 DEF vars, jobVars
<1>2. CASE Maintenance \/ Finished \/ Failed \/ FinishLost \/ Stopped \/ Restart
  BY <1>2 DEF Maintenance, LeaseExpires, Resubmit, Reconcile, Finished, Failed, FinishLost, Stopped,
              Restart, jobVars
<1>3. ASSUME worker \in Jobs, worker # Off, NEW pc, pc \notin {"cleaning", "handing"}, Goto(pc)
      PROVE  worker'.kind = worker.kind /\ worker'.pc \notin {"cleaning", "handing"}
  BY <1>3 DEF Goto, Jobs
<1>4. CASE StepFails \/ Unrunnable
  BY <1>3, <1>4 DEF StepFails, Unrunnable
<1>5. CASE TranscodeChecks \/ SetTranscoding \/ Remux \/ HandOver
  BY <1>3, <1>5 DEF TranscodeChecks, SetTranscoding, Remux, HandOver, Doing, Jobs
<1>6. CASE SetTranscoded \/ Clean
  BY <1>6 DEF SetTranscoded, Clean, Doing, Goto, Jobs
<1>7. CASE UploadChecks \/ PutObject \/ SetUploaded \/ Orphaned
  BY <1>3, <1>7 DEF UploadChecks, PutObject, SetUploaded, Orphaned, Doing
<1>8. CASE DeleteChecks \/ RemoveObject \/ Erase \/ Bury \/ RemoveOrphan
  BY <1>3, <1>8 DEF DeleteChecks, RemoveObject, Erase, Bury, RemoveOrphan, Doing
<1>9. CASE GraceDecides \/ GraceCloses
  BY <1>3, <1>9 DEF GraceDecides, GraceCloses, Doing, Jobs
<1> QED BY <1>1, <1>2, <1>4, <1>5, <1>6, <1>7, <1>8, <1>9 DEF Next, JobStep, Faulty, jobVars

LEMMA VerifiedStep ==
  ASSUME Kept, Verified, ~overtaken', [Next]_vars
  PROVE  Verified' /\ (row.manifest # {} => row'.manifest = row.manifest)
<1>0. /\ worker \in {Off} \cup Jobs /\ Typed
      /\ Forward \/ Elsewhere(row, row')
  BY StepSteady DEF Kept, Guards, Typed, Shape, Jobs
<1>1. row.manifest # {} => row'.manifest = row.manifest
  BY <1>0, ForwardFacts DEF Forward, Elsewhere
<1>2. CASE SetTranscoded
  <2>1. Covers(files \cup row.manifest, row.final)
    BY <1>2, ForwardFacts DEF Forward, Kept, RowWhole
  <2>2. files \cup row.manifest # {}
    BY <2>1 DEF Covers, Seqs
  <2> QED BY <1>1, <1>2, <2>2, ForwardFacts DEF Verified
<1>3. ASSUME ~SetTranscoded, Manifested' PROVE Manifested
  <2>1. CASE row'.state \in {"transcoded", "uploaded"}
    <3>1. CASE SetUploaded
      BY <3>1 DEF SetUploaded, Doing, Manifested
    <3> QED BY <1>0, <1>3, <2>1, <3>1, ForwardFacts DEF Forward, Elsewhere, Manifested
  <2>2. CASE jobs'["upload"].status \in Active
    BY <1>0, <2>2, UploadJob
  <2>3. CASE worker' # Off /\ worker'.kind = "upload"
    <3>1. CASE \E k \in Kinds : ClaimJob(k)
      BY <3>1, <2>3 DEF ClaimJob, Manifested, Active
    <3>2. CASE worker' = worker \/ (worker # Off /\ worker'.kind = worker.kind)
      BY <2>3, <3>2 DEF Manifested
    <3> QED BY <1>0, <2>3, <3>1, <3>2, WorkerMoves
  <2>4. CASE worker' # Off /\ worker'.kind = "transcode" /\ worker'.pc \in {"cleaning", "handing"}
    <3>1. CASE Clean
      BY <3>1 DEF Clean, Doing, Manifested
    <3>2. CASE worker' = worker
      BY <2>4, <3>2 DEF Manifested
    <3>3. ~\E k \in Kinds : ClaimJob(k)
      <4>1. ASSUME NEW k \in Kinds, ClaimJob(k) PROVE worker'.pc = "claimed"
        BY <4>1 DEF ClaimJob
      <4> QED BY <2>4, <4>1
    <3>4. worker' = worker \/ Clean
      BY <1>0, <1>3, <2>4, <3>3, WorkerMoves
    <3> QED BY <3>1, <3>2, <3>4
  <2> QED BY <1>3, <2>1, <2>2, <2>3, <2>4 DEF Manifested
<1> QED BY <1>1, <1>2, <1>3 DEF Verified


LEMMA StageNames ==
  ASSUME NEW rec \in RowType \cup {NoRow}, Agreed(rec)
  PROVE  /\ rec.state = "absent" => Stage(rec) = "absent" /\ TakeEnd(rec) = NoFinal
         /\ rec.state \in Open => Stage(rec) = "open" /\ TakeEnd(rec) = NoFinal
         /\ rec.state = "incomplete" => Stage(rec) = "incomplete" /\ TakeEnd(rec) = NoFinal
         /\ rec.state \in Tombstones => Stage(rec) = rec.state /\ TakeEnd(rec) = NoFinal
         /\ Counts(rec) =>
              /\ Stage(rec) = IF rec.key THEN "stored" ELSE IF rec.manifest # {} THEN "verified" ELSE "complete"
              /\ TakeEnd(rec) = rec.final
         /\ rec.state \in {"absent", "incomplete"} \cup Open \cup Tombstones \/ Counts(rec)
<1>1. rec.state \in {"absent"} \cup States
  BY DEF RowType, NoRow
<1>2. ASSUME rec.state \notin {"absent", "incomplete"} \cup Open \cup Tombstones
      PROVE  Counts(rec)
  BY <1>1, <1>2 DEF States, Terminal, Open, Agreed, Counts
<1>3. Counts(rec) => rec.state \notin {"absent", "incomplete"} \cup Open \cup Tombstones
  BY StateNames DEF Agreed, Counts
<1> QED BY <1>2, <1>3, StateNames DEF Stage, PlainStages, TakeEnd, Open, Tombstones

\* What a step does to the row, as the stages see it.
LEMMA StageFacts ==
  ASSUME Kept, Verified, ~overtaken', [Next]_vars
  PROVE  /\ row \in RowType \cup {NoRow} /\ row' \in RowType \cup {NoRow}
         /\ Agreed(row) /\ Agreed(row')
         /\ Onward(row, row') /\ Steady(row, row') /\ (Gone => Gone')
         /\ Counts(row') => row'.final \in Nat
         /\ ~Sealed(row) /\ Counts(row') => row'.manifest = {} /\ ~row'.key
         /\ row.manifest # {} => row'.manifest # {}
         /\ ~row.key /\ row'.key => row.manifest # {}
<1>1. Kept' /\ Verified' /\ (row.manifest # {} => row'.manifest = row.manifest)
  BY KeptStep, VerifiedStep
<1>2. Steady(row, row') /\ (Forward \/ Elsewhere(row, row')) /\ Onward(row, row') /\ (Gone => Gone')
  BY StepSteady, StepOnward, GuardsStep DEF Kept, Rightly, Gone
<1>3. /\ row \in RowType \cup {NoRow} /\ row' \in RowType \cup {NoRow}
      /\ Agreed(row) /\ Agreed(row')
      /\ Counts(row') => row'.final \in Nat
  BY <1>1 DEF Kept, RowWhole, Guards, Typed, Shape, Covers
<1>4. ASSUME ~Sealed(row) PROVE row'.manifest = {} /\ ~row'.key
  <2>1. Elsewhere(row, row')
    BY <1>2, <1>4, ForwardFacts
  <2>2. row.manifest = {} /\ ~Gone /\ ~Counts(row)
    BY <1>4, StateNames DEF Kept, RowWhole, Gone, Sealed, Agreed, Counts
  <2>3. ~row.key
    BY <2>2 DEF Kept, Stored
  <2> QED BY <2>1, <2>2, <2>3 DEF Elsewhere
<1>5. ASSUME ~row.key, row'.key PROVE row.manifest # {}
  <2>1. SetUploaded
    BY <1>2, <1>5, ForwardFacts DEF Forward, Elsewhere
  <2> QED BY <2>1 DEF SetUploaded, Doing, Verified, Manifested
<1> QED BY <1>1, <1>2, <1>3, <1>4, <1>5

TakeStep == [Life!Next]_(Life!lifeVars)

LEMMA LifeStep ==
  ASSUME Kept, Verified, ~overtaken', [Next]_vars
  PROVE  TakeStep
<1>0. ~overtaken
  BY OvertakenStays
<1> USE <1>0 DEF TakeStep, Life!Next, Life!lifeVars, Life!Reach, Life!Undecided, Life!Deleted
<1>1. /\ row \in RowType \cup {NoRow} /\ row' \in RowType \cup {NoRow}
      /\ Agreed(row) /\ Agreed(row')
      /\ Onward(row, row') /\ Steady(row, row') /\ (Gone => Gone')
      /\ Counts(row') => row'.final \in Nat
      /\ ~Sealed(row) /\ Counts(row') => row'.manifest = {} /\ ~row'.key
      /\ row.manifest # {} => row'.manifest # {}
      /\ ~row.key /\ row'.key => row.manifest # {}
  BY StageFacts
<1> DEFINE Old(st, n) == Stage(row) = st /\ TakeEnd(row) = n
           New(st, n) == Stage(row') = st /\ TakeEnd(row') = n
<1>2. CASE row'.state \in Tombstones
  <2>1. New(row'.state, NoFinal) /\ row'.state \in {"deleting", "deleted"}
    BY <1>1, <1>2, StageNames DEF Tombstones
  <2>2. CASE Gone
    <3>1. Old(row.state, NoFinal) /\ row.state \in {"deleting", "deleted"}
      BY <1>1, <2>2, StageNames DEF Gone, Tombstones
    <3>2. row.state = "deleted" => row'.state = "deleted"
      BY <1>1 DEF Onward
    <3> QED BY <2>1, <3>1, <3>2 DEF Life!Bury
  <2>3. CASE ~Gone
    <3>1. row'.state = "deleting"
      BY <1>1, <2>1, <2>3 DEF Onward, Gone
    <3>2. Stage(row) \notin {"deleting", "deleted", "void"}
      BY <1>1, <2>3, StageNames DEF Gone
    <3> QED BY <2>1, <3>1, <3>2 DEF Life!Delete
  <2> QED BY <2>2, <2>3
<1>3. CASE row'.state \notin Tombstones /\ ~Sealed(row)
  <2>1. row.state \in {"absent"} \cup Open
    BY <1>3 DEF Sealed
  <2>2. Stage(row) = (IF row.state = "absent" THEN "absent" ELSE "open") /\ TakeEnd(row) = NoFinal
    BY <1>1, <2>1, StageNames DEF Open
  <2>3. CASE row'.state = "absent"
    <3>1. New("absent", NoFinal) /\ row.state = "absent"
      BY <1>1, <2>3, StageNames DEF Onward
    <3> QED BY <2>2, <3>1
  <2>4. CASE row'.state \in Open
    <3>1. New("open", NoFinal)
      BY <1>1, <2>4, StageNames
    <3> QED BY <2>2, <3>1 DEF Life!Open
  <2>5. CASE row'.state = "incomplete"
    <3>1. New("incomplete", NoFinal)
      BY <1>1, <2>5, StageNames
    <3> QED BY <2>2, <3>1 DEF Life!GiveUp
  <2>6. CASE Counts(row')
    <3>1. Stage(row') = "complete" /\ TakeEnd(row') \in Nat
      BY <1>1, <1>3, <2>6, StageNames
    <3> QED BY <2>2, <3>1 DEF Life!Complete
  <2> QED BY <1>1, <1>3, <2>3, <2>4, <2>5, <2>6, StageNames
<1>4. CASE row'.state \notin Tombstones /\ Sealed(row) /\ ~Counts(row)
  <2>1. row.state = "incomplete"
    BY <1>1, <1>4, StageNames DEF Sealed, Gone
  <2>2. row'.state = "incomplete"
    BY <1>1, <1>4, StageNames DEF Steady, Sealed
  <2>3. Old("incomplete", NoFinal) /\ New("incomplete", NoFinal)
    BY <1>1, <2>1, <2>2, StageNames
  <2> QED BY <2>3
<1>5. CASE row'.state \notin Tombstones /\ Counts(row)
  <2>1. Counts(row') /\ row'.final = row.final
    <3>1. Sealed(row)
      BY <1>1, <1>5, StateNames DEF Agreed, Counts, Sealed
    <3> QED BY <1>1, <1>5, <3>1 DEF Steady
  <2>2. /\ Stage(row) = IF row.key THEN "stored" ELSE IF row.manifest # {} THEN "verified" ELSE "complete"
        /\ Stage(row') = IF row'.key THEN "stored" ELSE IF row'.manifest # {} THEN "verified" ELSE "complete"
        /\ TakeEnd(row') = TakeEnd(row)
    BY <1>1, <1>5, <2>1, StageNames
  <2>3. row.key => row'.key
    BY <1>1, <1>5 DEF Onward
  <2> QED BY <1>1, <2>2, <2>3 DEF Life!Verify, Life!Store
<1> QED BY <1>2, <1>3, <1>4, <1>5

\* The same of the take, until it is overtaken; and what follows that, nothing.
LEMMA LifeStays ==
  ASSUME Sound, overtaken \/ Verified, [Next]_vars
  PROVE  TakeStep
<1>1. CASE overtaken
  BY <1>1, OvertakenStays DEF TakeStep, Life!lifeVars
<1>2. CASE ~overtaken /\ overtaken'
  <2>1. Stage(row) # "void"
    BY <1>2, StageNames DEF Sound, Kept, RowWhole, Guards, Typed, Shape, Open, Tombstones
  <2> QED BY <1>2, <2>1 DEF TakeStep, Life!Next, Life!Overtake
<1>3. CASE ~overtaken'
  BY <1>3, LifeStep, OvertakenStays DEF Sound
<1> QED BY <1>1, <1>2, <1>3

\* The row of a take lives the life of models.py: every step of a request, of
\* the worker and of a restart is a step of TakeLife, or none, except that of a
\* commit which was decided on an earlier row and would not be on the present.
THEOREM LifeCorrect == Spec => TakeFollowsLife
<1>1. Init => Life!Init /\ Verified
  <2>1. Init => Verified
    BY DEF Init, TakeInit, Verified, Manifested, NoRow, Off, Closed, Active, Kinds
  <2>2. Init => Life!Init
    BY StageNames, RowKinds DEF Init, TakeInit, NoRow, Life!Init
  <2> QED BY <2>1, <2>2
<1>2. Sound /\ (overtaken \/ Verified) /\ [Next]_vars => (overtaken \/ Verified)'
  BY VerifiedStep, OvertakenStays DEF Sound
<1>3. Sound /\ (overtaken \/ Verified) /\ [Next]_vars => [Life!Next]_(Life!lifeVars)
  BY LifeStays DEF TakeStep
<1> QED BY <1>1, <1>2, <1>3, SoundAlways, PTL DEF Spec, TakeFollowsLife, Life!Spec
=============================================================================
