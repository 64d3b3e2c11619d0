------------------------ MODULE EngagementContract ------------------------
(***************************************************************************)
(* What the lifecycle of an audit engagement promises: planning, fieldwork,*)
(* reporting and completion come in this order, an engagement whose        *)
(* workflow is rejected or cancelled starts again from planning, and a     *)
(* completed one is done.  EngagementLifecycle implements this contract    *)
(* while nothing fails (ImplementsContract there).                         *)
(***************************************************************************)
VARIABLE phase

Phases == {"planning", "fieldwork", "reporting", "completed"}

Init == phase = "planning"

Advance ==
    \/ phase = "planning"  /\ phase' = "fieldwork"
    \/ phase = "fieldwork" /\ phase' = "reporting"
    \/ phase = "reporting" /\ phase' = "completed"

StartAgain ==
    /\ phase \in {"fieldwork", "reporting"}
    /\ phase' = "planning"

Next == Advance \/ StartAgain

Spec == Init /\ [][Next]_phase
===========================================================================
