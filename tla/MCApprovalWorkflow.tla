------------------------ MODULE MCApprovalWorkflow ------------------------
(***************************************************************************)
(* Instances of ApprovalWorkflow for TLC: the kinds of the records r1 and  *)
(* r2 are chosen by each .cfg; plans, and workers, are interchangeable.    *)
(***************************************************************************)
EXTENDS ApprovalWorkflow, TLC

CONSTANTS r1, r2

PlanAndUniverse == (r1 :> "rbiap") @@ (r2 :> "audit_universe")
PaperAndProgram == (r1 :> "working_paper") @@ (r2 :> "program")
UniverseAndPaper == (r1 :> "audit_universe") @@ (r2 :> "working_paper")

Symmetry == Permutations(Plan) \union Permutations(Worker)
===========================================================================
