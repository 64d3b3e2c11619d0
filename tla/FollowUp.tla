------------------------------ MODULE FollowUp ------------------------------
(***************************************************************************)
(* From a finding of an engagement to the follow-up of what it recommends: *)
(* findings, the auditee's and the management's responses to them, the     *)
(* recommendations made on them and the monitoring of a recommendation.    *)
(*                                                                         *)
(* Nothing here is locked.  A request reads a row, checks it, and writes   *)
(* it later: the column it changes (update_fields), or the whole row as it *)
(* was read (PUT, PATCH).  Requests of the web workers overlap.            *)
(***************************************************************************)
EXTENDS Naturals, Sequences

CONSTANTS
    Finding,           \* the findings that one engagement may have
    Recommendation,    \* the recommendations that may be made on them
    Worker,            \* the web workers
    FindingBodies,     \* statuses that bodies of PUT, PATCH and POST carry ...
    RecommendationBodies,
    Rehomes,           \* findings a body moves a recommendation to
    None

Party == {"auditee", "management"}
FindingPhase == {"draft", "discussed", "final"}
Phase == {"open", "in_progress", "implemented", "verified", "closed"}

ASSUME ConstantsAssumption ==
    /\ None \notin Finding \union Recommendation \union FindingPhase \union Phase
    /\ FindingBodies \subseteq FindingPhase
    /\ RecommendationBodies \subseteq Phase
    /\ Rehomes \subseteq Finding

VARIABLES
    open,        \* the engagement is in fieldwork or reporting
    finding,     \* the row of each finding
    finalised,   \* history: the findings that have been final
    rec,         \* the row of each recommendation
    was,         \* history: the phases each recommendation has been in
    mon,         \* the monitoring row of each recommendation
    web          \* the request each worker is serving

rows == <<finding, finalised, rec, was, mon>>
vars == <<open, finding, finalised, rec, was, mon, web>>

\* Status "none": the row does not exist yet.
FindingRow == [status : FindingPhase \union {"none"}, answered : SUBSET Party,
               active : BOOLEAN]
NoFinding == [status |-> "none", answered |-> {}, active |-> FALSE]

RecRow == [status : Phase \union {"none"}, of : Finding \union {None},
           active : BOOLEAN]
NoRec == [status |-> "none", of |-> None, active |-> FALSE]

Op == {"idle", "add finding", "edit finding", "move finding", "answer",
       "delete finding", "drop finding", "add recommendation",
       "edit recommendation", "move recommendation", "delete recommendation",
       "drop recommendation", "add monitoring", "edit monitoring",
       "delete monitoring"}

\* What a request does, the row it is about, its copy of that row, and the
\* status it was asked for.
Request == [op : Op, f : Finding \union {None}, r : Recommendation \union {None},
            finding : FindingRow, rec : RecRow,
            to : FindingPhase \union Phase \union {None}]
Idle == [op |-> "idle", f |-> None, r |-> None, finding |-> NoFinding,
         rec |-> NoRec, to |-> None]

\* A save with update_fields writes nothing else of the row that was read:
\* the status is all that such a request keeps.
SeenFinding(f) == [NoFinding EXCEPT !.status = finding[f].status]
SeenRec(r) == [NoRec EXCEPT !.status = rec[r].status]

TypeOK ==
    /\ open \in BOOLEAN
    /\ finding \in [Finding -> FindingRow]
    /\ finalised \subseteq Finding
    /\ rec \in [Recommendation -> RecRow]
    /\ was \in [Recommendation -> SUBSET Phase]
    /\ mon \in [Recommendation -> {"none", "active", "deleted"}]
    /\ web \in [Worker -> Request]

Init ==
    /\ open \in BOOLEAN
    /\ finding = [f \in Finding |-> NoFinding]
    /\ finalised = {}
    /\ rec = [r \in Recommendation |-> NoRec]
    /\ was = [r \in Recommendation |-> {}]
    /\ mon = [r \in Recommendation |-> "none"]
    /\ web = [w \in Worker |-> Idle]

\* Worker w takes a request, reads, and goes on with q; or it is refused,
\* which changes nothing.
Begin(w, q) ==
    /\ web[w].op = "idle"
    /\ web' = [web EXCEPT ![w] = q]
    /\ UNCHANGED <<open, rows>>

\* The request of w, doing op, ends with a write.
End(w, op) ==
    /\ web[w].op = op
    /\ web' = [web EXCEPT ![w] = Idle]
    /\ UNCHANGED open

SaveFinding(f, row) ==
    /\ finding' = [finding EXCEPT ![f] = row]
    /\ finalised' = IF row.status = "final" THEN finalised \union {f} ELSE finalised
    /\ UNCHANGED <<rec, was, mon>>

SaveRec(r, row) ==
    /\ rec' = [rec EXCEPT ![r] = row]
    /\ was' = [was EXCEPT ![r] = @ \union {row.status}]
    /\ UNCHANGED <<finding, finalised, mon>>

---------------------------------------------------------------------------
(* Findings.                                                               *)

AddFindingRead(w) ==
    /\ open
    /\ Begin(w, [Idle EXCEPT !.op = "add finding"])

AddFindingSave(w, f) ==
    /\ End(w, "add finding")
    /\ finding[f].status = "none"
    /\ \E s \in {"draft"} \union FindingBodies, a \in SUBSET Party, v \in BOOLEAN :
           SaveFinding(f, [status |-> s, answered |-> a, active |-> v])

\* Mutant of EditFindingRead: final findings are edited too.
EditFindingReadAny(w, f) ==
    /\ finding[f].status # "none"
    /\ Begin(w, [Idle EXCEPT !.op = "edit finding", !.f = f, !.finding = finding[f]])

\* PUT and PATCH: not of a final finding ...
EditFindingRead(w, f) ==
    /\ finding[f].status \notin {"none", "final"}
    /\ Begin(w, [Idle EXCEPT !.op = "edit finding", !.f = f, !.finding = finding[f]])

\* ... and the whole row is written back, the responses and is_active among
\* the fields that a body may carry.
EditFindingSave(w) ==
    /\ End(w, "edit finding")
    /\ \E s \in {web[w].finding.status} \union FindingBodies,
          a \in SUBSET Party, v \in BOOLEAN :
           SaveFinding(web[w].f, [status |-> s, answered |-> a, active |-> v])

\* POST .../finalize/: its table, and both responses before "final".
FinalizeTo(s) ==
    CASE s = "draft"     -> {"discussed"}
      [] s = "discussed" -> {"final", "draft"}
      [] OTHER           -> {}

FinalizeRead(w, f, t) ==
    /\ t \in FinalizeTo(finding[f].status)
    /\ t = "final" => finding[f].answered = Party
    /\ Begin(w, [Idle EXCEPT !.op = "move finding", !.f = f,
                             !.finding = SeenFinding(f), !.to = t])

\* POST .../update-status/: a wider table, and no response is asked for.
UpdateTo(s) ==
    CASE s = "draft"     -> {"discussed", "final"}
      [] s = "discussed" -> {"final", "draft"}
      [] OTHER           -> {}

UpdateFindingRead(w, f, t) ==
    /\ t \in UpdateTo(finding[f].status)
    /\ Begin(w, [Idle EXCEPT !.op = "move finding", !.f = f,
                             !.finding = SeenFinding(f), !.to = t])

MoveFindingSave(w) ==
    /\ End(w, "move finding")
    /\ SaveFinding(web[w].f, [finding[web[w].f] EXCEPT !.status = web[w].to])

\* PATCH .../responses/: not of a final finding ...
AnswerRead(w, f) ==
    /\ finding[f].status \notin {"none", "final"}
    /\ Begin(w, [Idle EXCEPT !.op = "answer", !.f = f,
                     !.finding = [finding[f] EXCEPT !.active = FALSE]])

\* ... and both columns are written: what the body carries, a blank one
\* perhaps, and for the other party what was read.
AnswerSave(w) ==
    /\ End(w, "answer")
    /\ \E given \in SUBSET Party : \E filled \in SUBSET given :
           SaveFinding(web[w].f,
               [finding[web[w].f] EXCEPT
                   !.answered = (web[w].finding.answered \ given) \union filled])

\* DELETE is soft: not of a final finding ...
DeleteFindingRead(w, f) ==
    /\ finding[f].status \notin {"none", "final"}
    /\ Begin(w, [Idle EXCEPT !.op = "delete finding", !.f = f,
                             !.finding = SeenFinding(f)])

\* ... nor of one with active recommendations, which are looked up next ...
DeleteFindingCheck(w) ==
    /\ web[w].op = "delete finding"
    /\ web' = [web EXCEPT ![w] =
                  IF \E r \in Recommendation : rec[r].of = web[w].f /\ rec[r].active
                  THEN Idle ELSE [web[w] EXCEPT !.op = "drop finding"]]
    /\ UNCHANGED <<open, rows>>

\* ... and is_active is all that is written.
DeleteFindingSave(w) ==
    /\ End(w, "drop finding")
    /\ SaveFinding(web[w].f, [finding[web[w].f] EXCEPT !.active = FALSE])

---------------------------------------------------------------------------
(* Recommendations.                                                        *)

\* Mutant of AddRecRead: discussed findings take recommendations.
AddRecReadEarly(w, f) ==
    /\ finding[f].status \in {"discussed", "final"}
    /\ Begin(w, [Idle EXCEPT !.op = "add recommendation", !.f = f])

\* Only on a final finding, active or not, says the row that was read.
AddRecRead(w, f) ==
    /\ finding[f].status = "final"
    /\ Begin(w, [Idle EXCEPT !.op = "add recommendation", !.f = f])

AddRecSave(w, r) ==
    /\ End(w, "add recommendation")
    /\ rec[r].status = "none"
    /\ \E s \in {"open"} \union RecommendationBodies, v \in BOOLEAN :
           SaveRec(r, [status |-> s, of |-> web[w].f, active |-> v])

\* PUT and PATCH: not of a verified or closed one; the whole row is saved,
\* finding_id, status and is_active among the fields that a body may carry.
EditRecRead(w, r) ==
    /\ rec[r].status \notin {"none", "verified", "closed"}
    /\ Begin(w, [Idle EXCEPT !.op = "edit recommendation", !.r = r, !.rec = rec[r]])

EditRecSave(w) ==
    /\ End(w, "edit recommendation")
    /\ \E s \in {web[w].rec.status} \union RecommendationBodies,
          f \in {web[w].rec.of} \union Rehomes, v \in BOOLEAN :
           SaveRec(web[w].r, [status |-> s, of |-> f, active |-> v])

\* Mutant of RecommendationTo: implemented work is closed unverified.
RecommendationToShort(s) ==
    CASE s = "open"        -> {"in_progress"}
      [] s = "in_progress" -> {"implemented", "open"}
      [] s = "implemented" -> {"verified", "in_progress", "closed"}
      [] s = "verified"    -> {"closed", "in_progress"}
      [] OTHER             -> {}

\* POST .../update-status/: the table of the view.  Implementation notes
\* and evidence are asked for, and not kept.
RecommendationTo(s) ==
    CASE s = "open"        -> {"in_progress"}
      [] s = "in_progress" -> {"implemented", "open"}
      [] s = "implemented" -> {"verified", "in_progress"}
      [] s = "verified"    -> {"closed", "in_progress"}
      [] OTHER             -> {}

MoveRecRead(w, r, t) ==
    /\ t \in RecommendationTo(rec[r].status)
    /\ Begin(w, [Idle EXCEPT !.op = "move recommendation", !.r = r,
                             !.rec = SeenRec(r), !.to = t])

MoveRecSave(w) ==
    /\ End(w, "move recommendation")
    /\ SaveRec(web[w].r, [rec[web[w].r] EXCEPT !.status = web[w].to])

\* DELETE: not of a verified or closed one, nor of one with a monitoring
\* row, deleted or not.
DeleteRecRead(w, r) ==
    /\ rec[r].status \notin {"none", "verified", "closed"}
    /\ Begin(w, [Idle EXCEPT !.op = "delete recommendation", !.r = r,
                             !.rec = SeenRec(r)])

DeleteRecCheck(w) ==
    /\ web[w].op = "delete recommendation"
    /\ web' = [web EXCEPT ![w] = IF mon[web[w].r] # "none" THEN Idle
                                 ELSE [web[w] EXCEPT !.op = "drop recommendation"]]
    /\ UNCHANGED <<open, rows>>

DeleteRecSave(w) ==
    /\ End(w, "drop recommendation")
    /\ SaveRec(web[w].r, [rec[web[w].r] EXCEPT !.active = FALSE])

---------------------------------------------------------------------------
(* Monitoring of a recommendation.                                         *)

\* Mutant of AddMonitoringRead: the status is not looked at.
AddMonitoringReadAny(w, r) ==
    /\ rec[r].status # "none"
    /\ mon[r] = "none"
    /\ Begin(w, [Idle EXCEPT !.op = "add monitoring", !.r = r, !.rec = SeenRec(r)])

\* Not of an open recommendation, says the row that was read; nor of a
\* monitored one.
AddMonitoringRead(w, r) ==
    /\ rec[r].status \notin {"none", "open"}
    /\ mon[r] = "none"
    /\ Begin(w, [Idle EXCEPT !.op = "add monitoring", !.r = r, !.rec = SeenRec(r)])

\* The one-to-one column refuses a second row.
AddMonitoringSave(w) ==
    /\ End(w, "add monitoring")
    /\ mon' = [mon EXCEPT ![web[w].r] = IF @ = "none" THEN "active" ELSE @]
    /\ UNCHANGED <<finding, finalised, rec, was>>

\* PUT and PATCH, while the recommendation is not closed; is_active is
\* among the fields of the body.
EditMonitoringRead(w, r) ==
    /\ mon[r] # "none"
    /\ rec[r].status # "closed"
    /\ Begin(w, [Idle EXCEPT !.op = "edit monitoring", !.r = r, !.rec = SeenRec(r)])

EditMonitoringSave(w) ==
    /\ End(w, "edit monitoring")
    /\ \E m \in {"active", "deleted"} : mon' = [mon EXCEPT ![web[w].r] = m]
    /\ UNCHANGED <<finding, finalised, rec, was>>

\* Soft; not while the recommendation is verified or closed.
DeleteMonitoringRead(w, r) ==
    /\ mon[r] # "none"
    /\ rec[r].status \notin {"verified", "closed"}
    /\ Begin(w, [Idle EXCEPT !.op = "delete monitoring", !.r = r, !.rec = SeenRec(r)])

DeleteMonitoringSave(w) ==
    /\ End(w, "delete monitoring")
    /\ mon' = [mon EXCEPT ![web[w].r] = "deleted"]
    /\ UNCHANGED <<finding, finalised, rec, was>>

---------------------------------------------------------------------------
\* A request dies between its read and its write.
Abandon(w) ==
    /\ web[w].op # "idle"
    /\ web' = [web EXCEPT ![w] = Idle]
    /\ UNCHANGED <<open, rows>>

\* The engagement enters or leaves fieldwork and reporting
\* (EngagementLifecycle).
EngagementMoves ==
    /\ open' = ~open
    /\ UNCHANGED <<rows, web>>

FindingStep(w) ==
    \/ AddFindingRead(w) \/ EditFindingSave(w) \/ MoveFindingSave(w)
    \/ AnswerSave(w) \/ DeleteFindingCheck(w) \/ DeleteFindingSave(w)
    \/ \E f \in Finding :
          \/ AddFindingSave(w, f) \/ EditFindingRead(w, f) \/ AnswerRead(w, f)
          \/ DeleteFindingRead(w, f)
          \/ \E t \in FindingPhase : FinalizeRead(w, f, t) \/ UpdateFindingRead(w, f, t)

RecommendationStep(w) ==
    \/ EditRecSave(w) \/ MoveRecSave(w) \/ DeleteRecCheck(w) \/ DeleteRecSave(w)
    \/ \E f \in Finding : AddRecRead(w, f)
    \/ \E r \in Recommendation :
          \/ AddRecSave(w, r) \/ EditRecRead(w, r) \/ DeleteRecRead(w, r)
          \/ \E t \in Phase : MoveRecRead(w, r, t)

MonitoringStep(w) ==
    \/ AddMonitoringSave(w) \/ EditMonitoringSave(w) \/ DeleteMonitoringSave(w)
    \/ \E r \in Recommendation :
          AddMonitoringRead(w, r) \/ EditMonitoringRead(w, r) \/ DeleteMonitoringRead(w, r)

Next ==
    \/ \E w \in Worker :
          FindingStep(w) \/ RecommendationStep(w) \/ MonitoringStep(w) \/ Abandon(w)
    \/ EngagementMoves

Spec == Init /\ [][Next]_vars
---------------------------------------------------------------------------
(* Properties.                                                             *)

\* A recommendation rests on a finding that has been final: no order of a
\* creation and of the finding's moves and edits gets around the check of
\* AuditRecommendationListCreateView.post.
RestsOnFinal ==
    \A r \in Recommendation : rec[r].status # "none" => rec[r].of \in finalised

\* Monitoring is of work that has begun: sending the recommendation back,
\* or a late save of its row, never puts monitoring on one nobody took up
\* (ImplementationMonitoringListCreateView.post).
MonitoredWorkBegan ==
    \A r \in Recommendation : mon[r] # "none" => "in_progress" \in was[r]

\* The phases of a recommendation come in order, whatever overlaps: none
\* is closed that was not verified, none verified that was not implemented
\* (the table of AuditRecommendationStatusUpdateView).
Lifecycle == INSTANCE LifecycleContract WITH
    Item  <- Recommendation,
    Chain <- <<"open", "in_progress", "implemented", "verified", "closed">>,
    been  <- was
ImplementsContract == Lifecycle!Spec

\* A final finding and a closed recommendation are changed by nobody but a
\* request that read the row before: each of the handlers refuses what it
\* finds done, and what undoes it is a race.
OnlyStaleRequestsUndo ==
    [][/\ \A f \in Finding :
              finding[f].status = "final" /\ finding'[f] # finding[f] =>
              \E w \in Worker : /\ web[w].f = f /\ web[w].finding.status # "final"
                                /\ web'[w] = Idle
       /\ \A r \in Recommendation :
              rec[r].status = "closed" /\ rec'[r] # rec[r] =>
              \E w \in Worker : /\ web[w].r = r /\ web[w].rec.status # "closed"
                                /\ web'[w] = Idle]_vars
=============================================================================
