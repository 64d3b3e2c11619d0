------------------------- MODULE ApprovalWorkflow -------------------------
(***************************************************************************)
(* The approval of working papers, audit universes, audit plans (RBIAP),   *)
(* audit memos and audit programs.                                         *)
(*                                                                         *)
(* Three parties act concurrently on the rows of the GRC database:         *)
(*   - web workers (gunicorn) that submit a record, edit it, delete it or  *)
(*     record a review;                                                    *)
(*   - the Work Orchestration service (WO, external), where a workflow     *)
(*     plan is created for the record, decided by its reviewers, and the   *)
(*     decision published on the Kafka topic workflow-events;              *)
(*   - the GRC Kafka consumer, which applies the decisions to the rows.    *)
(*                                                                         *)
(* A submission is not one step: the view checks the row, the service      *)
(* locks it (or does not), calls WO over HTTP and then saves.  An edit is  *)
(* a read of the whole row and a later save of the whole row.              *)
(***************************************************************************)
EXTENDS Naturals, Sequences

CONSTANTS
    Entity,          \* the records
    Worker,          \* the web workers
    Plan,            \* workflow plans WO can create: bounds the submissions
    KindOf,          \* the kind of each record
    ClientStatuses,  \* statuses that the bodies of PUT and PATCH carry
    None

Kind == {"working_paper", "audit_universe", "rbiap", "memo", "program"}

\* One record per kind of record, from its model, submit view and service:
\*   statuses  the choices of its status field (review_status for a paper)
\*   from      the statuses its submit view accepts
\*   start     the status saved together with the new plan
\*   edit      the statuses in which some handler saves the whole row
WorkingPaper ==
    [statuses |-> {"draft", "pending", "reviewed", "approved"},
     from     |-> {"draft"},
     start    |-> "pending",
     edit     |-> {"draft", "pending", "reviewed"}]

AuditUniverse ==
    LET all == {"draft", "under_review", "approved", "archived"} IN
    [statuses |-> all,
     from     |-> {"draft", "under_review"},
     start    |-> "under_review",
     edit     |-> all]

AuditPlan ==
    LET all == {"draft", "management_review", "committee_review", "approved",
                "implementation"} IN
    [statuses |-> all,
     from     |-> {"draft"},
     start    |-> "management_review",
     edit     |-> all]

AuditMemo ==
    [statuses |-> {"draft", "cia_review", "dg_review", "approved", "transmitted"},
     from     |-> {"draft"},
     start    |-> "cia_review",
     edit     |-> {"draft"}]

AuditProgram ==
    [statuses |-> {"draft", "under_review", "approved"},
     from     |-> {"draft"},
     start    |-> "under_review",
     edit     |-> {"draft"}]

Rules == [working_paper |-> WorkingPaper, audit_universe |-> AuditUniverse,
          rbiap |-> AuditPlan, memo |-> AuditMemo, program |-> AuditProgram]

\* "deleted" stands for a row that is no longer in its table.
Status == (UNION {Rules[k].statuses : k \in Kind}) \union {"deleted"}

ASSUME ConstantsAssumption ==
    /\ KindOf \in [Entity -> Kind]
    /\ ClientStatuses \subseteq Status \ {"deleted"}
    /\ None \notin Entity \union Worker \union Plan

VARIABLES
    row,        \* the database row of each record
    lock,       \* the worker whose transaction holds the row (FOR UPDATE)
    web,        \* what each web worker is doing
    wo,         \* WO's plans
    log,        \* the workflow-events topic
    pos,        \* events the consumer has taken from the topic
    committed   \* the group's committed offset

vars == <<row, lock, web, wo, log, pos, committed>>

Decision == {"approved", "rejected", "cancelled"}

\* reviewed: reviewed_by was filled in by a review recorded in GRC itself.
Row == [status : Status, plan : Plan \union {None}, reviewed : BOOLEAN]
NewRow == [status |-> "draft", plan |-> None, reviewed |-> FALSE]

Request == [pc : {"idle", "waiting", "calling", "created", "editing", "deleting"},
            entity : Entity \union {None},
            plan : Plan \union {None},
            copy : Row]
Idle == [pc |-> "idle", entity |-> None, plan |-> None, copy |-> NewRow]

WOPlan == [subject : Entity \union {None},
           state : {"unused", "live"} \union Decision]

Event == [plan : Plan, decision : Decision]

TypeOK ==
    /\ row \in [Entity -> Row]
    /\ lock \in [Entity -> Worker \union {None}]
    /\ web \in [Worker -> Request]
    /\ wo \in [Plan -> WOPlan]
    /\ log \in Seq(Event)
    /\ pos \in 0..Len(log)
    /\ committed \in 0..pos

Init ==
    /\ row = [e \in Entity |-> NewRow]
    /\ lock = [e \in Entity |-> None]
    /\ web = [w \in Worker |-> Idle]
    /\ wo = [p \in Plan |-> [subject |-> None, state |-> "unused"]]
    /\ log = <<>>
    /\ pos = 0
    /\ committed = 0

---------------------------------------------------------------------------
(* What differs from kind to kind.                                         *)

Rule(e) == Rules[KindOf[e]]

\* Mutant of LockingKinds: no service locks.
NoLockingKinds == {}

\* The kinds whose service re-reads the row with select_for_update(); the
\* submit views of memos and programs use the row they read before.
LockingKinds == {"working_paper", "audit_universe", "rbiap"}
Locks(e) == KindOf[e] \in LockingKinds

\* The submit view's checks.  The one for working papers does not look at
\* workflow_plan_id: the service does.
MaySubmit(e) ==
    /\ row[e].status \in Rule(e).from
    /\ KindOf[e] # "working_paper" => row[e].plan = None

\* The consumer's handlers: a decision d on the row r.
\* Mutant of OnWorkingPaper: the plan goes with a decision against it.
OnWorkingPaperReleasing(r, d) ==
    CASE d = "approved"  -> [r EXCEPT !.status = "approved"]
      [] d = "rejected"  -> [r EXCEPT !.status = "reviewed", !.plan = None]
      [] d = "cancelled" -> [r EXCEPT !.status = "draft", !.plan = None]

\* A working paper keeps its plan whatever the decision.
OnWorkingPaper(r, d) ==
    [r EXCEPT !.status = CASE d = "approved"  -> "approved"
                           [] d = "rejected"  -> "reviewed"
                           [] d = "cancelled" -> "draft"]

\* Mutants of OnAuditUniverse: a record sent back keeps its plan; a
\* cancellation is forgotten.
OnAuditUniverseKeepingPlan(r, d) ==
    [r EXCEPT !.status = IF d = "approved" THEN "approved" ELSE "draft"]
OnAuditUniverseForgetting(r, d) ==
    CASE d = "approved"  -> [r EXCEPT !.status = "approved"]
      [] d = "rejected"  -> [r EXCEPT !.status = "draft", !.plan = None]
      [] d = "cancelled" -> r

\* The others go back to draft and give up their plan.
OnAuditUniverse(r, d) ==
    IF d = "approved" THEN [r EXCEPT !.status = "approved"]
                      ELSE [r EXCEPT !.status = "draft", !.plan = None]

OnAuditPlan(r, d) == OnAuditUniverse(r, d)

OnAuditMemo(r, d) == OnAuditUniverse(r, d)

OnAuditProgram(r, d) == OnAuditUniverse(r, d)

\* Routing by template_code.
OnDecision(k, r, d) ==
    CASE k = "working_paper"  -> OnWorkingPaper(r, d)
      [] k = "audit_universe" -> OnAuditUniverse(r, d)
      [] k = "rbiap"          -> OnAuditPlan(r, d)
      [] k = "memo"           -> OnAuditMemo(r, d)
      [] k = "program"        -> OnAuditProgram(r, d)

---------------------------------------------------------------------------
(* Submitting a record for approval.                                       *)

\* The transaction of w ends and the response is sent.
Finish(w) ==
    /\ web' = [web EXCEPT ![w] = Idle]
    /\ lock' = [e \in Entity |-> IF lock[e] = w THEN None ELSE lock[e]]

\* The view reads the row, without a lock, checks it and calls the service.
SubmitRead(w, e) ==
    /\ web[w].pc = "idle"
    /\ Locks(e)
    /\ MaySubmit(e)
    /\ web' = [web EXCEPT ![w] = [Idle EXCEPT !.pc = "waiting", !.entity = e]]
    /\ UNCHANGED <<row, lock, wo, log, pos, committed>>

\* The views of memos and programs call WO at once, for the row they read.
SubmitUnlocked(w, e) ==
    /\ web[w].pc = "idle"
    /\ ~Locks(e)
    /\ MaySubmit(e)
    /\ web' = [web EXCEPT ![w] = [Idle EXCEPT !.pc = "calling", !.entity = e]]
    /\ UNCHANGED <<row, lock, wo, log, pos, committed>>

\* Mutant of SubmitLock: the service trusts the view's check.
SubmitLockUnchecked(w) ==
    /\ web[w].pc = "waiting"
    /\ lock[web[w].entity] = None
    /\ web' = [web EXCEPT ![w].pc = "calling"]
    /\ lock' = [lock EXCEPT ![web[w].entity] = w]
    /\ UNCHANGED <<row, wo, log, pos, committed>>

\* The service locks the row.  A plan found on it means another request
\* was first, and a row that is gone is an error: both end the request.
SubmitLock(w) ==
    LET e == web[w].entity IN
    /\ web[w].pc = "waiting"
    /\ lock[e] = None
    /\ IF row[e].plan # None \/ row[e].status = "deleted"
       THEN Finish(w)
       ELSE /\ web' = [web EXCEPT ![w].pc = "calling"]
            /\ lock' = [lock EXCEPT ![e] = w]
    /\ UNCHANGED <<row, wo, log, pos, committed>>

\* WO receives the POST and creates the plan, inside GRC's transaction.
CreatePlan(w, p) ==
    /\ web[w].pc = "calling"
    /\ wo[p].state = "unused"
    /\ wo' = [wo EXCEPT ![p] = [subject |-> web[w].entity, state |-> "live"]]
    /\ web' = [web EXCEPT ![w].pc = "created", ![w].plan = p]
    /\ UNCHANGED <<row, lock, log, pos, committed>>

\* No template and no stages, no connection, or an answer other than 201:
\* start_workflow() returns None and nothing is saved.
CallFails(w) ==
    /\ web[w].pc = "calling"
    /\ Finish(w)
    /\ UNCHANGED <<row, wo, log, pos, committed>>

\* The answer arrives: plan and status are saved and committed.  A row
\* deleted meanwhile (no lock kept it) cannot be: only working papers are
\* deleted for good, and they are locked.
SubmitSave(w) ==
    LET e == web[w].entity IN
    /\ web[w].pc = "created"
    /\ row' = [row EXCEPT ![e].plan = web[w].plan,
                          ![e].status = Rule(e).start]
    /\ Finish(w)
    /\ UNCHANGED <<wo, log, pos, committed>>

SubmitStep(w) ==
    \/ \E e \in Entity : SubmitRead(w, e) \/ SubmitUnlocked(w, e)
    \/ SubmitLock(w)
    \/ \E p \in Plan : CreatePlan(w, p)
    \/ CallFails(w)
    \/ SubmitSave(w)

---------------------------------------------------------------------------
(* Work Orchestration decides; the consumer applies the decision.          *)

\* WO's reviewers finish a plan, whenever they like, and WO publishes it.
WODecide(p, d) ==
    /\ wo[p].state = "live"
    /\ wo' = [wo EXCEPT ![p].state = d]
    /\ log' = Append(log, [plan |-> p, decision |-> d])
    /\ UNCHANGED <<row, lock, web, pos, committed>>

\* One message of a completed workflow: its record is found by subject_ref;
\* its plan is never compared with workflow_plan_id.  The UPDATE waits for a
\* row lock.  A row that is gone is logged and skipped.  (The messages of
\* completed stages carry no decision: for these kinds they change nothing.)
Consume ==
    /\ pos < Len(log)
    /\ LET ev == log[pos + 1]
           e  == wo[ev.plan].subject
       IN  /\ lock[e] = None
           /\ row' = IF row[e].status = "deleted" THEN row
                     ELSE [row EXCEPT ![e] = OnDecision(KindOf[e], @, ev.decision)]
    /\ pos' = pos + 1
    /\ UNCHANGED <<lock, web, wo, log, committed>>

Core ==
    \/ \E w \in Worker : SubmitStep(w)
    \/ \E p \in Plan, d \in Decision : WODecide(p, d)
    \/ Consume

---------------------------------------------------------------------------
(* What can fail.                                                          *)

\* The request dies after WO created the plan or at any other point: the
\* 15 s read timeout, a database error at the save, a killed worker.
Abandon(w) ==
    /\ web[w].pc # "idle"
    /\ Finish(w)
    /\ UNCHANGED <<row, wo, log, pos, committed>>

\* Mutant of CommitOffset: the offset of a message not yet taken is
\* committed.
CommitEarly ==
    /\ committed' = IF pos < Len(log) THEN pos + 1 ELSE pos
    /\ UNCHANGED <<row, lock, web, wo, log, pos>>

\* enable_auto_commit: the processed position is committed now and then.
CommitOffset ==
    /\ committed' = pos
    /\ UNCHANGED <<row, lock, web, wo, log, pos>>

\* The consumer process dies, or loses its broker connection, and starts
\* again from the committed offset.
ConsumerRestart ==
    /\ pos' = committed
    /\ UNCHANGED <<row, lock, web, wo, log, committed>>

\* A handler logs a database error and returns: the event is passed over.
ConsumeFails ==
    /\ pos < Len(log)
    /\ pos' = pos + 1
    /\ UNCHANGED <<row, lock, web, wo, log, committed>>

Restarts == CommitOffset \/ ConsumerRestart

Faults == (\E w \in Worker : Abandon(w)) \/ Restarts \/ ConsumeFails

---------------------------------------------------------------------------
(* The other requests that write the row.                                  *)

\* PUT, PATCH and the soft DELETE of universes and plans load the row ...
EditRead(w, e) ==
    /\ web[w].pc = "idle"
    /\ row[e].status \in Rule(e).edit
    /\ web' = [web EXCEPT ![w] = [Idle EXCEPT !.pc = "editing", !.entity = e,
                                              !.copy = row[e]]]
    /\ UNCHANGED <<row, lock, wo, log, pos, committed>>

\* ... and save every column of it, with the status of the request body if
\* there is one.  Saving a row that is gone inserts it again.
EditSave(w) ==
    LET e == web[w].entity IN
    /\ web[w].pc = "editing"
    /\ lock[e] = None
    /\ \E s \in {web[w].copy.status} \union (ClientStatuses \intersect Rule(e).statuses) :
           row' = [row EXCEPT ![e] = [web[w].copy EXCEPT !.status = s]]
    /\ Finish(w)
    /\ UNCHANGED <<wo, log, pos, committed>>

\* DELETE of a working paper removes the row, after a check of the row
\* read before.
DeleteRead(w, e) ==
    /\ web[w].pc = "idle"
    /\ KindOf[e] = "working_paper"
    /\ row[e].status \notin {"approved", "deleted"}
    /\ web' = [web EXCEPT ![w] = [Idle EXCEPT !.pc = "deleting", !.entity = e]]
    /\ UNCHANGED <<row, lock, wo, log, pos, committed>>

DeleteRow(w) ==
    LET e == web[w].entity IN
    /\ web[w].pc = "deleting"
    /\ lock[e] = None
    /\ row' = [row EXCEPT ![e] = [NewRow EXCEPT !.status = "deleted"]]
    /\ Finish(w)
    /\ UNCHANGED <<wo, log, pos, committed>>

\* Mutant of RecordReview: the reviewer is not recorded.
RecordReviewUnsigned(e, s) ==
    /\ KindOf[e] = "working_paper"
    /\ row[e].status # "deleted"
    /\ lock[e] = None
    /\ row' = [row EXCEPT ![e].status = s]
    /\ UNCHANGED <<lock, web, wo, log, pos, committed>>

\* PATCH /working-papers/<id>/review/ sets the status and the reviewer,
\* whatever the status was.
RecordReview(e, s) ==
    /\ KindOf[e] = "working_paper"
    /\ row[e].status # "deleted"
    /\ lock[e] = None
    /\ row' = [row EXCEPT ![e].status = s, ![e].reviewed = TRUE]
    /\ UNCHANGED <<lock, web, wo, log, pos, committed>>

Edits ==
    \/ \E w \in Worker :
          \/ \E e \in Entity : EditRead(w, e) \/ DeleteRead(w, e)
          \/ EditSave(w) \/ DeleteRow(w)
    \/ \E e \in Entity, s \in {"approved", "reviewed"} : RecordReview(e, s)

---------------------------------------------------------------------------
(* Specifications, from the kindest environment to the real one.           *)

\* Submissions and decisions only, nothing fails.
ReliableSpec == Init /\ [][Core]_vars

\* Everything.
Next == Core \/ Faults \/ Edits
Spec == Init /\ [][Next]_vars

\* A request in progress ends (the HTTP call has a timeout) and the consumer
\* keeps reading.  Its UPDATE may wait for a row lock that requests take in
\* turn, but PostgreSQL serves the waiters of a row lock in order: SF.
\* Nothing makes users submit or reviewers decide.
WebProgress(w) ==
    SubmitLock(w) \/ (\E p \in Plan : CreatePlan(w, p)) \/ CallFails(w) \/ SubmitSave(w)

Fairness == SF_vars(Consume) /\ \A w \in Worker : WF_vars(WebProgress(w))

FairReliableSpec == ReliableSpec /\ Fairness

\* The consumer restarts any number of times.  Auto-commit runs on a timer
\* while the consumer lives, so it succeeds again and again: SF.
RestartSpec == Init /\ [][Core \/ Restarts]_vars

FairRestartSpec == RestartSpec /\ Fairness /\ SF_vars(CommitOffset)
---------------------------------------------------------------------------
(* Properties.                                                             *)

PlansOf(e) == {p \in Plan : wo[p].subject = e}
ApprovedByWO(e) == \E p \in PlansOf(e) : wo[p].state = "approved"

\* The events of e that the consumer has not taken yet.
Undelivered(e) == \E i \in (pos + 1)..Len(log) : wo[log[i].plan].subject = e
Quiet(e) ==
    /\ ~Undelivered(e)
    /\ \A p \in PlansOf(e) : wo[p].state # "live"
    /\ \A w \in Worker : web[w].entity # e

\* An approved record was approved by Work Orchestration, in some plan for
\* that very record, or - a working paper - by a reviewer whose name is on
\* it.  No stale save, replayed event, dead request or restart makes an
\* approval out of nothing: the consumer's handlers, SubmitSave, EditSave.
ApprovalAttributable ==
    \A e \in Entity : row[e].status = "approved" =>
        ApprovedByWO(e) \/ (KindOf[e] = "working_paper" /\ row[e].reviewed)

\* A record has one approval running at a time: two concurrent submissions
\* do not both start a plan (select_for_update and the plan check in the
\* services; the check without a lock in the memo and program views).
AtMostOneOpenPlan ==
    \A p, q \in Plan :
        /\ wo[p].state = "live" /\ wo[q].state = "live"
        /\ wo[p].subject = wo[q].subject
        => p = q

\* A draft that nobody is working on can be submitted: no old plan on it
\* makes the service skip the submission.
DraftIsSubmittable ==
    \A e \in Entity : row[e].status = "draft" /\ Quiet(e) => row[e].plan = None

\* A plan on record is taken off before another one takes its place, so
\* the plan a decision was made in stays known to GRC - for the kinds whose
\* service locks the row, and but for a stale edit, which writes back
\* whatever plan its copy has: lost answers, dead requests, replayed and
\* lost events never make a submission go over a plan.
NoPlanReplaced ==
    [][\A e \in Entity :
            Locks(e) /\ row[e].plan # None /\ row'[e].plan # None
            => row'[e].plan = row[e].plan \/ \E w \in Worker : EditSave(w)]_vars

\* The records' life is the abstract one: no step skips the review.
PhaseOf(r) ==
    CASE r.status = "draft"    -> "open"
      [] r.status = "reviewed" -> "returned"
      [] r.status = "approved" -> "approved"
      [] OTHER                 -> "inReview"

Contract == INSTANCE ApprovalContract
                WITH phase <- [e \in Entity |-> PhaseOf(row[e])]

ImplementsContract == Contract!Spec

\* WO decided p, a plan for e; and the row of e shows it.
Decided(p, e) == wo[p].subject = e /\ wo[p].state \in Decision
Settled(p, e) ==
    IF wo[p].state = "approved"
    THEN row[e].status = "approved"
    ELSE row[e].plan # p \/ row[e].status \in {"draft", "reviewed"}

\* WO's decision on p is in the topic and the consumer has yet to take it.
OnItsWay(p) == \E i \in (pos + 1)..Len(log) : log[i].plan = p

\* No decision gets lost between WO and the row: what the consumer has
\* taken shows on the record, for good, whatever has been submitted since
\* (the lock keeps the consumer off a submission that is not saved yet).
NoDecisionLost ==
    \A p \in Plan, e \in Entity : Decided(p, e) => OnItsWay(p) \/ Settled(p, e)

\* A working paper keeps its plan, so that a decision which is delivered
\* again, with those before it, finds the row as it left it
\* (_handle_working_paper_completion; the other kinds do not have this).
PaperDecisionStands ==
    [][\A e \in Entity :
            /\ KindOf[e] = "working_paper"
            /\ row[e].plan # None /\ row[e].status # WorkingPaper.start
            => row'[e] = row[e]]_row

\* Every decision of WO reaches its record and stays there, also the one
\* published before the submission was saved.
DecisionReflected ==
    \A p \in Plan, e \in Entity : Decided(p, e) ~> []Settled(p, e)

\* However often the consumer restarts, an approval is applied at least once.
ApprovalDelivered ==
    \A p \in Plan, e \in Entity :
        Decided(p, e) /\ wo[p].state = "approved" ~> row[e].status = "approved"
===========================================================================
