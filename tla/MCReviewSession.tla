------------------------- MODULE MCReviewSession -------------------------
(* Small instances of ReviewSession for TLC. *)
EXTENDS ReviewSession, TLC

CONSTANTS c1, c2
TwoCalls == {c1, c2}
Slotwise == Permutations(TwoCalls)

(* Nothing is promised once the back/forward cache has given a document    *)
(* without a login back to a tab that stores one: the search ends there.   *)
UntilFound == ~ foundLogin
=============================================================================
