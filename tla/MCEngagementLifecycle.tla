----------------------- MODULE MCEngagementLifecycle -----------------------
(***************************************************************************)
(* Instances of EngagementLifecycle for TLC: members with and without a    *)
(* document, workers and plans are interchangeable.                        *)
(***************************************************************************)
EXTENDS EngagementLifecycle, TLC

\* Bodies that carry neither field; that waive a declaration or take the
\* waiver back.
NoBodies == {}
Waivers == {[status |-> s, signed |-> FALSE] : s \in {"waived", "pending"}}

Symmetry ==
    Permutations(Documented) \union Permutations(Member \ Documented)
        \union Permutations(Plan) \union Permutations(Worker)
============================================================================
