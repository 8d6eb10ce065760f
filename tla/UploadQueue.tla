----------------------------- MODULE UploadQueue -----------------------------
(***************************************************************************)
(* The decisions of the student's upload queue                             *)
(* (apps/student/src/uploadQueue.ts) as operators on the recording_meta    *)
(* row of a session and the rows of its stored slices.                     *)
(*                                                                         *)
(* A finalize payload is [final, lost]: the counts and the duration that   *)
(* go with it are functions of the slices stored.  Timestamps are dropped, *)
(* except finalize_persisted_at, which is compared for equality: "stamp"   *)
(* counts its settings, 0 for null.  A delay has always passed or not yet, *)
(* as the caller chooses.                                                  *)
(***************************************************************************)
EXTENDS Integers, FiniteSets

Terminal == {"complete", "incomplete"}
Blocks   == {"sequence_conflict", "sequence_past_final", "checksum", "unauthorized",
             "final_below_stored", "invalid_finalize", "finalize_conflict", "recording_deleted"}

\* Auth and finalize failures are not posted again.
stopsFinalize == Blocks \ {"sequence_conflict", "sequence_past_final", "checksum"}

\* The block a refusal of the server is kept as: a 401 of any kind says that the
\* credential will not do, the 409s keep their code or its short form.
permanentUploadBlock(refusal) ==
  CASE refusal \in {"revoked", "expired"}           -> "unauthorized"
    [] refusal = "final_sequence_below_stored"      -> "final_below_stored"
    [] refusal \in {"sequence_past_final", "finalize_conflict"} -> refusal

NoMeta    == [rec |-> "absent"]
NoPayload == [final |-> -2, lost |-> FALSE]

emptyMeta ==
  [next |-> 0, rec |-> "recording", payload |-> NoPayload, pending |-> FALSE, confirmed |-> FALSE,
   stamp |-> 0, server |-> "none", operator |-> FALSE, block |-> "none", flush |-> FALSE]

Servers == {"none", "pending"} \cup Terminal

Meta ==
  [next : Nat, rec : {"recording", "stopped", "lost"}, payload : [final : Int, lost : BOOLEAN],
   pending : BOOLEAN, confirmed : BOOLEAN, stamp : Nat, server : Servers, operator : BOOLEAN,
   block : Blocks \cup {"none"}, flush : BOOLEAN]

-----------------------------------------------------------------------------
(***************************************************************************)
(* Slices: a stored slice is "waiting" or terminal for the block it names. *)
(***************************************************************************)
\* The slice takes next_sequence, and the counter moves in the same write.
buildStoredChunk(m, chunks) ==
  [meta   |-> [m EXCEPT !.next = @ + 1],
   chunks |-> [s \in DOMAIN chunks \cup {m.next} |-> IF s = m.next THEN "waiting" ELSE chunks[s]]]

without(chunks, S) == [s \in DOMAIN chunks \ S |-> chunks[s]]
marked(chunks, s, as) == [r \in DOMAIN chunks \cup {s} |-> IF r = s THEN as ELSE chunks[r]]

sequencesAlreadyReceived(chunks, received) == DOMAIN chunks \cap received

clearUnauthorizedChunks(chunks) ==
  [s \in DOMAIN chunks |-> IF chunks[s] = "unauthorized" THEN "waiting" ELSE chunks[s]]

uploadWork(chunks) == {s \in DOMAIN chunks : chunks[s] \in {"waiting", "unauthorized"}}

-----------------------------------------------------------------------------
(***************************************************************************)
(* Declarations of the end of a take.                                      *)
(***************************************************************************)
Declaration(m, lost) == [final |-> m.next - 1, lost |-> lost]
IfNone(server)       == IF server = "none" THEN "pending" ELSE server

persistStop(m) ==
  [m EXCEPT !.rec = "stopped", !.payload = Declaration(m, FALSE), !.pending = TRUE,
            !.confirmed = FALSE, !.stamp = @ + 1, !.server = IfNone(@)]

persistRecorderLost(m) ==
  [m EXCEPT !.rec = "lost", !.payload = Declaration(m, TRUE), !.pending = TRUE,
            !.confirmed = FALSE, !.stamp = IF @ = 0 THEN 1 ELSE @, !.server = IfNone(@)]

notePermanentFailure(m, block) ==
  [m EXCEPT !.operator = TRUE, !.block = block, !.pending = @ /\ block \notin stopsFinalize]

Reblocked(m) == IF m.block = "none" THEN m ELSE notePermanentFailure(m, m.block)

Settled(m)  == m.confirmed \/ m.server \in Terminal
Covered(m)  == m.rec = "lost" /\ m.payload.final = m.next - 1

persistInterrupted(m) ==
  IF m.rec = "stopped" \/ Settled(m) \/ Covered(m) THEN m
  ELSE Reblocked([persistRecorderLost(m) EXCEPT !.operator = TRUE])

persistReplaced(m) ==
  IF m.rec = "stopped" \/ Settled(m) \/ Covered(m) THEN m ELSE persistRecorderLost(m)

\* The declaration stops short of the slices the recorder flushes on stop.
holdForRecorderFlush(m) ==
  IF m.rec # "lost" \/ Settled(m) THEN m ELSE [m EXCEPT !.flush = TRUE]

\* finalize_persisted_at is set anew: no earlier answer speaks of it.
releaseRecorderFlush(m) ==
  LET released == [m EXCEPT !.flush = FALSE] IN
  IF ~m.flush \/ m.rec # "lost" \/ Settled(m) THEN released
  ELSE Reblocked([persistRecorderLost(released) EXCEPT !.stamp = @ + 1])

-----------------------------------------------------------------------------
(***************************************************************************)
(* Finalize, the server's status and a reload.                             *)
(***************************************************************************)
\* Mutant: the declaration waits until every slice is gone.
finalizeDueIdle(m, chunks, waited) ==
  /\ m.pending /\ ~m.confirmed /\ ~m.flush
  /\ m.payload # NoPayload /\ m.stamp # 0 /\ m.server \notin Terminal
  /\ DOMAIN chunks = {}

\* "waited": 30 s have passed since the declaration was persisted.
finalizeDue(m, chunks, waited) ==
  /\ m.pending /\ ~m.confirmed /\ ~m.flush
  /\ m.payload # NoPayload /\ m.stamp # 0 /\ m.server \notin Terminal
  /\ DOMAIN chunks = {} \/ waited

\* Mutant: an older answer takes a terminal state back.
applyServerStatusOlder(m, state) ==
  CASE state = "complete"   -> [m EXCEPT !.server = state, !.confirmed = TRUE, !.pending = FALSE]
    [] state = "incomplete" -> [m EXCEPT !.server = state, !.confirmed = FALSE, !.pending = FALSE]
    [] OTHER                -> [m EXCEPT !.server = state]

\* A terminal state is not taken back by an older answer.
applyServerStatus(m, state) ==
  LET held == IF m.server \in Terminal /\ state \notin Terminal THEN m.server ELSE state IN
  CASE held = "complete"   -> [m EXCEPT !.server = held, !.confirmed = TRUE, !.pending = FALSE]
    [] held = "incomplete" -> [m EXCEPT !.server = held, !.confirmed = FALSE, !.pending = FALSE]
    [] OTHER               -> [m EXCEPT !.server = held]

SafeToClose(m) == m # NoMeta /\ m.confirmed /\ m.server = "complete"

\* What the page tells the student before the tab may be closed.
closeBanner(m, chunks) ==
  CASE m = NoMeta                              -> "none"
    [] SafeToClose(m)                          -> "safe"
    [] ~SafeToClose(m) /\ m.rec = "lost"       -> "interrupted"
    [] ~SafeToClose(m) /\ m.rec # "lost" /\ m.operator -> "needs_operator"
    [] OTHER -> IF m.server = "incomplete" THEN "incomplete"
                ELSE IF DOMAIN chunks # {} /\ m.rec # "recording" THEN "uploading"
                ELSE IF m.pending THEN "confirming" ELSE "none"

planReload(m) ==
  IF m = NoMeta THEN "idle"
  ELSE IF SafeToClose(m) THEN "safe_to_close"
  ELSE IF m.rec = "recording" THEN "recorder_lost" ELSE "resume_uploads"

\* The retention of seven days has passed as well.
shouldDiscardMeta(m) == m # NoMeta /\ m.rec # "lost" /\ SafeToClose(m)

\* "remaining": the other blocks that slices still carry.
clearUnauthorizedUploadBlock(m, remaining) ==
  IF m.block # "unauthorized" THEN {m}
  ELSE LET resumed == m.payload # NoPayload /\ ~Settled(m) /\ remaining \cap stopsFinalize = {} IN
       {[m EXCEPT !.block = b,
                  !.operator = remaining # {} \/ (m.rec = "lost" /\ m.operator),
                  !.pending = @ \/ resumed] :
          b \in IF remaining = {} THEN {"none"} ELSE remaining}

\* Something can still be sent, so the upload-code form is offered.
showUploadCodeEntry(m, chunks) ==
  /\ m # NoMeta /\ ~SafeToClose(m)
  /\ \/ m.pending \/ uploadWork(chunks) # {}
     \/ m.block = "unauthorized" /\ m.payload # NoPayload /\ m.server \notin Terminal
=============================================================================
