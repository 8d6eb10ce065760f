-------------------------- MODULE MCRecordingJobs --------------------------
(* Instances of RecordingJobs for TLC: a take of at most two slices. *)
EXTENDS RecordingJobs

Slice(n, b) == [seq |-> n, bytes |-> b]
Payload(n, d, l) == [final |-> n, dur |-> d, lost |-> l]

\* The header and the short slice of the last flush; the header in two versions.
TwoSlices   == {Slice(0, "webm"), Slice(0, "other"), Slice(1, "webm")}
OneSlice    == {Slice(0, "webm")}
WebmBytes   == {"webm"}
LastIsShort == {1}

\* Nothing is claimed of a take once a commit has overtaken its row: what follows
\* is not searched for a counterexample to what is claimed until then.
UntilOvertaken == ~overtaken

Declarations       == {Payload(0, 1, FALSE), Payload(1, 1, FALSE), Payload(1, 1, TRUE)}
HeaderDeclarations == {Payload(0, 1, FALSE)}
=============================================================================
