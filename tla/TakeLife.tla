------------------------------ MODULE TakeLife ------------------------------
(***************************************************************************)
(* What a recording take promises, of its row alone: the states of         *)
(* models.py (ADR-0005 section 7.1), by what is settled in each.  An open  *)
(* take becomes complete or incomplete, once; the end of a complete one is *)
(* that of its declaration, and from there it only goes on: to a verified  *)
(* MP4, to its object, and with any take to its deletion.  All of this     *)
(* holds of a take until a commit that was decided on an earlier row is    *)
(* written over the present one: then nothing more is promised of it.      *)
(***************************************************************************)
EXTENDS Naturals

CONSTANT NoEnd

VARIABLES
  stage,  \* "transcoding" and "transcode_failed" settle nothing: they are
          \* of the stage that was reached before; "void" is a take overtaken
  end     \* the last sequence of a complete take

lifeVars == <<stage, end>>

Undecided == {"absent", "open"}
Deleted   == {"deleting", "deleted"}

Reach(from, to) == stage \in from /\ stage' = to /\ UNCHANGED end

Open    == Reach({"absent"}, "open")
GiveUp  == Reach(Undecided, "incomplete")
Verify  == Reach({"complete"}, "verified")
Store   == Reach({"verified"}, "stored")
Bury    == Reach({"deleting"}, "deleted")

Complete == stage \in Undecided /\ stage' = "complete" /\ end' \in Nat

Delete == stage \notin Deleted \cup {"void"} /\ stage' = "deleting" /\ end' = NoEnd

Overtake == stage # "void" /\ stage' = "void" /\ end' = NoEnd

Init == stage = "absent" /\ end = NoEnd

Next == Open \/ GiveUp \/ Complete \/ Verify \/ Store \/ Delete \/ Bury \/ Overtake

Spec == Init /\ [][Next]_lifeVars
=============================================================================
