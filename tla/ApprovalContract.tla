------------------------- MODULE ApprovalContract -------------------------
(***************************************************************************)
(* What the approval of a GRC record promises to its users, whatever kind  *)
(* of record it is: a record is worked on, goes into review, and comes out *)
(* of review approved for good or sent back.  No step skips the review and *)
(* no step leaves "approved".  ApprovalWorkflow implements this contract   *)
(* (ImplementsContract there).                                             *)
(***************************************************************************)
CONSTANT Entity          \* the records under approval

VARIABLE phase           \* where each record is in its approval

Phases == {"open", "inReview", "returned", "approved"}

Init == phase = [e \in Entity |-> "open"]

\* A submission puts an open record into review.
Start(e) ==
    /\ phase[e] = "open"
    /\ phase' = [phase EXCEPT ![e] = "inReview"]

Approve(e) ==
    /\ phase[e] = "inReview"
    /\ phase' = [phase EXCEPT ![e] = "approved"]

\* The reviewers send the record back: to "open" when it may be submitted
\* again, to "returned" when it stays with their comments.
SendBack(e) ==
    /\ phase[e] = "inReview"
    /\ \E to \in {"open", "returned"} : phase' = [phase EXCEPT ![e] = to]

Next == \E e \in Entity : Start(e) \/ Approve(e) \/ SendBack(e)

Spec == Init /\ [][Next]_phase
===========================================================================
