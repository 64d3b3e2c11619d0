------------------------ MODULE EngagementLifecycle ------------------------
(***************************************************************************)
(* The life of one audit engagement: the declarations of independence of   *)
(* its team, the start of its workflow, and the phases that Work           *)
(* Orchestration (WO, external) leads it through.                          *)
(*                                                                         *)
(* The team signs; when the last signature is in, every signed declaration *)
(* is stamped by the Document service (DRS, external).  Starting the       *)
(* workflow needs every declaration signed; from then on WO publishes an   *)
(* event per finished stage and one for the end, and the Kafka consumer    *)
(* applies them to the row.                                                *)
(***************************************************************************)
EXTENDS Naturals, Sequences

CONSTANTS
    Member,          \* the people of the audit team
    Documented,      \* those whose declaration has a document in DRS
    Worker,          \* the web workers
    Plan,            \* workflow plans WO can create: bounds the starts
    ClientStatuses,  \* engagement statuses the bodies of PUT and PATCH carry
    Bodies,          \* status and is_signed in bodies for declarations
    None

Phase == {"planning", "fieldwork", "reporting", "completed"}

ASSUME ConstantsAssumption ==
    /\ Documented \subseteq Member
    /\ ClientStatuses \subseteq Phase
    /\ Bodies \subseteq [status : {"pending", "waived", "signed"}, signed : BOOLEAN]
    /\ None \notin Member \union Worker \union Plan

VARIABLES
    eng,        \* the row of the engagement
    decl,       \* the row of each member's declaration
    lock,       \* the worker whose transaction holds the engagement's row
    web,        \* what each web worker is doing
    wo,         \* where each of WO's plans is
    log,        \* the workflow-events topic
    pos,        \* events the consumer has taken from the topic
    committed   \* the group's committed offset

vars == <<eng, decl, lock, web, wo, log, pos, committed>>

Engagement == [status : Phase, plan : Plan \union {None}]
NewEngagement == [status |-> "planning", plan |-> None]

\* "none": the member has no declaration for this engagement yet.
Declaration == [status : {"none", "pending", "waived", "signed"}, signed : BOOLEAN,
                stamped : BOOLEAN]
NoDeclaration == [status |-> "none", signed |-> FALSE, stamped |-> FALSE]
Unsigned == [status |-> "pending", signed |-> FALSE]

\* The declaration d with the fields that a body b carries.
Written(d, b) == [d EXCEPT !.status = b.status, !.signed = b.signed]

Request == [pc : {"idle", "checking", "waiting", "calling", "created",
                  "signed", "stamping", "editing", "declaring"},
            plan : Plan \union {None},
            member : Member \union {None},
            todo : SUBSET Member,
            copy : Engagement,
            form : Declaration]
Idle == [pc |-> "idle", plan |-> None, member |-> None, todo |-> {},
         copy |-> NewEngagement, form |-> NoDeclaration]

Stage == {"planning", "fieldwork", "reporting"}
Ending == {"approved", "rejected", "cancelled"}

\* The name of the action that ends a stage, or the final decision.
News == {"start_fieldwork", "start_reporting", "complete"} \union Ending

TypeOK ==
    /\ eng \in Engagement
    /\ decl \in [Member -> Declaration]
    /\ lock \in Worker \union {None}
    /\ web \in [Worker -> Request]
    /\ wo \in [Plan -> {"unused"} \union Stage \union Ending]
    /\ log \in Seq(News)
    /\ pos \in 0..Len(log)
    /\ committed \in 0..pos

\* The team's declarations may have been created before.
Init ==
    /\ eng = NewEngagement
    /\ decl \in [Member -> {NoDeclaration, Written(NoDeclaration, Unsigned)}]
    /\ lock = None
    /\ web = [w \in Worker |-> Idle]
    /\ wo = [p \in Plan |-> "unused"]
    /\ log = <<>>
    /\ pos = 0
    /\ committed = 0

Declared == {m \in Member : decl[m].status # "none"}
TeamSigned == \A m \in Declared : decl[m].status = "signed"

\* The transaction of w ends and the response is sent.
Finish(w) ==
    /\ web' = [web EXCEPT ![w] = Idle]
    /\ lock' = IF lock = w THEN None ELSE lock

---------------------------------------------------------------------------
(* Declarations of independence.                                           *)

\* The missing declarations of a list of members are created; a single one
\* is created with what the body says.
Declare(S, b) ==
    /\ ~ S \subseteq Declared
    /\ b = Unsigned \/ \E m \in Member : S = {m}
    /\ decl' = [m \in Member |-> IF m \in S \ Declared THEN Written(decl[m], b)
                                                       ELSE decl[m]]
    /\ UNCHANGED <<eng, lock, web, wo, log, pos, committed>>

\* Mutant of Sign: the team is looked at before the signature is saved.
SignCheckingFirst(w, m) ==
    /\ web[w].pc = "idle"
    /\ decl[m].status # "none" /\ ~decl[m].signed
    /\ decl' = [decl EXCEPT ![m].status = "signed", ![m].signed = TRUE]
    /\ web' = IF TeamSigned THEN [web EXCEPT ![w].pc = "signed"] ELSE web
    /\ UNCHANGED <<eng, lock, wo, log, pos, committed>>

\* The declarant signs, whatever the status says as long as is_signed does
\* not; the signature is committed before the view goes on.
Sign(w, m) ==
    /\ web[w].pc = "idle"
    /\ decl[m].status # "none" /\ ~decl[m].signed
    /\ decl' = [decl EXCEPT ![m].status = "signed", ![m].signed = TRUE]
    /\ web' = [web EXCEPT ![w].pc = "signed"]
    /\ UNCHANGED <<eng, lock, wo, log, pos, committed>>

\* If nobody is left to sign, all signed declarations are stamped in turn.
StampCheck(w) ==
    /\ web[w].pc = "signed"
    /\ web' = IF TeamSigned /\ Declared \intersect Documented # {}
              THEN [web EXCEPT ![w].pc = "stamping",
                               ![w].todo = Declared \intersect Documented]
              ELSE [web EXCEPT ![w] = Idle]
    /\ UNCHANGED <<eng, decl, lock, wo, log, pos, committed>>

\* DRS answers with the URL of the stamped document, or not at all: the
\* loop goes on either way.
Stamped(w, m, answered) ==
    /\ web[w].pc = "stamping"
    /\ m \in web[w].todo
    /\ decl' = IF answered THEN [decl EXCEPT ![m].stamped = TRUE] ELSE decl
    /\ web' = [web EXCEPT ![w] = IF web[w].todo = {m} THEN Idle
                                 ELSE [web[w] EXCEPT !.todo = @ \ {m}]]
    /\ UNCHANGED <<eng, lock, wo, log, pos, committed>>

\* PUT of a declaration: not a signed one, says the row that was read ...
DeclarationRead(w, m) ==
    /\ web[w].pc = "idle"
    /\ decl[m].status \in {"pending", "waived"}
    /\ web' = [web EXCEPT ![w] = [Idle EXCEPT !.pc = "declaring", !.member = m,
                                              !.form = decl[m]]]
    /\ UNCHANGED <<eng, decl, lock, wo, log, pos, committed>>

\* ... and all its columns are saved, with what the body says.
DeclarationSave(w) ==
    /\ web[w].pc = "declaring"
    /\ \E d \in {web[w].form} \union {Written(web[w].form, b) : b \in Bodies} :
           decl' = [decl EXCEPT ![web[w].member] = d]
    /\ Finish(w)
    /\ UNCHANGED <<eng, wo, log, pos, committed>>

---------------------------------------------------------------------------
(* Starting the workflow.                                                  *)

\* POST .../transition/ reads the row, without a lock: still in planning?
StartRead(w) ==
    /\ web[w].pc = "idle"
    /\ eng.status = "planning"
    /\ web' = [web EXCEPT ![w].pc = "checking"]
    /\ UNCHANGED <<eng, decl, lock, wo, log, pos, committed>>

\* Mutant of StartCheck: one signature is enough for the team.
StartCheckOne(w) ==
    /\ web[w].pc = "checking"
    /\ web' = IF Declared = {} \/ \E m \in Declared : decl[m].status = "signed"
              THEN [web EXCEPT ![w].pc = "waiting"] ELSE [web EXCEPT ![w] = Idle]
    /\ UNCHANGED <<eng, decl, lock, wo, log, pos, committed>>

\* SRS requirement 16: no declaration may be unsigned; "waived" is not
\* signed, and no declaration at all is fine.
StartCheck(w) ==
    /\ web[w].pc = "checking"
    /\ web' = IF TeamSigned THEN [web EXCEPT ![w].pc = "waiting"]
                            ELSE [web EXCEPT ![w] = Idle]
    /\ UNCHANGED <<eng, decl, lock, wo, log, pos, committed>>

\* Mutant of StartLock: the service does not look for a plan on the row.
StartLockUnchecked(w) ==
    /\ web[w].pc = "waiting"
    /\ lock = None
    /\ web' = [web EXCEPT ![w].pc = "calling"]
    /\ lock' = w
    /\ UNCHANGED <<eng, decl, wo, log, pos, committed>>

\* The service locks the row and looks for a plan on it; it looks at the
\* status and the declarations no more.
StartLock(w) ==
    /\ web[w].pc = "waiting"
    /\ lock = None
    /\ IF eng.plan # None
       THEN Finish(w)
       ELSE web' = [web EXCEPT ![w].pc = "calling"] /\ lock' = w
    /\ UNCHANGED <<eng, decl, wo, log, pos, committed>>

\* WO creates the plan, inside GRC's transaction.
CreatePlan(w, p) ==
    /\ web[w].pc = "calling"
    /\ wo[p] = "unused"
    /\ wo' = [wo EXCEPT ![p] = "planning"]
    /\ web' = [web EXCEPT ![w].pc = "created", ![w].plan = p]
    /\ UNCHANGED <<eng, decl, lock, log, pos, committed>>

\* WO is not reached or refuses: nothing is saved.
CallFails(w) ==
    /\ web[w].pc = "calling"
    /\ Finish(w)
    /\ UNCHANGED <<eng, decl, wo, log, pos, committed>>

\* The answer arrives: fieldwork begins at once, before WO's first event.
StartSave(w) ==
    /\ web[w].pc = "created"
    /\ eng' = [status |-> "fieldwork", plan |-> web[w].plan]
    /\ Finish(w)
    /\ UNCHANGED <<decl, wo, log, pos, committed>>

---------------------------------------------------------------------------
(* WO leads the engagement through its phases; the consumer follows.       *)

\* The lead auditor ends the stage of p.
WOAdvance(p) ==
    /\ \/ /\ wo[p] = "planning"
          /\ wo' = [wo EXCEPT ![p] = "fieldwork"]
          /\ log' = Append(log, "start_fieldwork")
       \/ /\ wo[p] = "fieldwork"
          /\ wo' = [wo EXCEPT ![p] = "reporting"]
          /\ log' = Append(log, "start_reporting")
       \/ /\ wo[p] = "reporting"
          /\ wo' = [wo EXCEPT ![p] = "approved"]
          /\ log' = log \o <<"complete", "approved">>
    /\ UNCHANGED <<eng, decl, lock, web, pos, committed>>

\* The plan is rejected or cancelled in any of its stages.
WOStop(p, d) ==
    /\ wo[p] \in Stage
    /\ wo' = [wo EXCEPT ![p] = d]
    /\ log' = Append(log, d)
    /\ UNCHANGED <<eng, decl, lock, web, pos, committed>>

\* Mutants of OnEngagementNews: any final decision completes the engagement;
\* a stopped plan stays on the row.
OnEngagementNewsLoosely(e, n) ==
    CASE n = "start_fieldwork" -> [e EXCEPT !.status = "fieldwork"]
      [] n = "start_reporting" -> [e EXCEPT !.status = "reporting"]
      [] n = "complete"        -> e
      [] n \in Ending          -> [e EXCEPT !.status = "completed"]

OnEngagementNewsKeepingPlan(e, n) ==
    CASE n = "start_fieldwork"           -> [e EXCEPT !.status = "fieldwork"]
      [] n = "start_reporting"           -> [e EXCEPT !.status = "reporting"]
      [] n = "complete"                  -> e
      [] n = "approved"                  -> [e EXCEPT !.status = "completed"]
      [] n \in {"rejected", "cancelled"} -> [e EXCEPT !.status = "planning"]

\* STAGE_STATUS_MAP and the final decisions, whatever the status was; the
\* end of the reporting stage is left to the final event.
OnEngagementNews(e, n) ==
    CASE n = "start_fieldwork"          -> [e EXCEPT !.status = "fieldwork"]
      [] n = "start_reporting"          -> [e EXCEPT !.status = "reporting"]
      [] n = "complete"                 -> e
      [] n = "approved"                 -> [e EXCEPT !.status = "completed"]
      [] n \in {"rejected", "cancelled"} -> NewEngagement

\* Mutant of Consume: the update does not wait for the row.
ConsumeUnlocked ==
    /\ pos < Len(log)
    /\ eng' = OnEngagementNews(eng, log[pos + 1])
    /\ pos' = pos + 1
    /\ UNCHANGED <<decl, lock, web, wo, log, committed>>

Consume ==
    /\ pos < Len(log)
    /\ lock = None
    /\ eng' = OnEngagementNews(eng, log[pos + 1])
    /\ pos' = pos + 1
    /\ UNCHANGED <<decl, lock, web, wo, log, committed>>

---------------------------------------------------------------------------
(* What can fail, and the edits of the engagement.                         *)

\* The request dies, at whatever point.
Abandon(w) ==
    /\ web[w].pc # "idle"
    /\ Finish(w)
    /\ UNCHANGED <<eng, decl, wo, log, pos, committed>>

\* Mutant of CommitOffset: it covers a message not taken yet.
CommitEarly ==
    /\ committed' = IF pos < Len(log) THEN pos + 1 ELSE pos
    /\ UNCHANGED <<eng, decl, lock, web, wo, log, pos>>

CommitOffset ==
    /\ committed' = pos
    /\ UNCHANGED <<eng, decl, lock, web, wo, log, pos>>

ConsumerRestart ==
    /\ pos' = committed
    /\ UNCHANGED <<eng, decl, lock, web, wo, log, committed>>

\* A database error in the handler: the event is logged and passed over.
ConsumeFails ==
    /\ pos < Len(log)
    /\ pos' = pos + 1
    /\ UNCHANGED <<eng, decl, lock, web, wo, log, committed>>

\* PUT and PATCH: not of a completed engagement, says the row read before.
EditRead(w) ==
    /\ web[w].pc = "idle"
    /\ eng.status # "completed"
    /\ web' = [web EXCEPT ![w] = [Idle EXCEPT !.pc = "editing", !.copy = eng]]
    /\ UNCHANGED <<eng, decl, lock, wo, log, pos, committed>>

EditSave(w) ==
    /\ web[w].pc = "editing"
    /\ lock = None
    /\ \E s \in {web[w].copy.status} \union ClientStatuses :
           eng' = [web[w].copy EXCEPT !.status = s]
    /\ Finish(w)
    /\ UNCHANGED <<decl, wo, log, pos, committed>>

---------------------------------------------------------------------------
(* Specifications.                                                         *)

StartStep(w) ==
    \/ StartRead(w) \/ StartCheck(w) \/ StartLock(w)
    \/ \E p \in Plan : CreatePlan(w, p)
    \/ CallFails(w) \/ StartSave(w)

WOStep == \E p \in Plan : WOAdvance(p) \/ \E d \in {"rejected", "cancelled"} : WOStop(p, d)

Signing == \E w \in Worker, m \in Member : Sign(w, m) \/ Stamped(w, m, TRUE)
Stamping == \E w \in Worker : StampCheck(w)

Core == Signing \/ Stamping \/ (\E w \in Worker : StartStep(w)) \/ WOStep \/ Consume

Restarts == CommitOffset \/ ConsumerRestart

Faults ==
    \/ \E w \in Worker : Abandon(w) \/ \E m \in Member : Stamped(w, m, FALSE)
    \/ Restarts \/ ConsumeFails

EngagementEdits == \E w \in Worker : EditRead(w) \/ EditSave(w)

DeclarationEdits ==
    \E w \in Worker : DeclarationSave(w) \/ \E m \in Member : DeclarationRead(w, m)

Declaring == \E S \in SUBSET Member, b \in {Unsigned} \union Bodies : Declare(S, b)

\* Nothing fails; the team changes and its declarations are edited.
ReliableSpec == Init /\ [][Core \/ Declaring \/ DeclarationEdits]_vars

\* Requests end, the consumer reads on, and PostgreSQL hands over the row's
\* lock in order: SF.  Nothing makes users sign or start, or WO advance.
FairReliableSpec ==
    /\ ReliableSpec
    /\ SF_vars(Consume)
    /\ \A w \in Worker : WF_vars(StartStep(w) /\ web[w].pc # "idle")

\* A team declared in advance; requests die, the consumer restarts, events
\* and stamps are lost, and the engagement is edited.
FaultySpec == Init /\ [][Core \/ Faults \/ EngagementEdits]_vars

\* Everything.
Next == Core \/ Faults \/ EngagementEdits \/ DeclarationEdits \/ Declaring
Spec == Init /\ [][Next]_vars
---------------------------------------------------------------------------
(* Properties.                                                             *)

\* While nothing fails the row's phases come in the contract's order: WO's
\* events, which say nothing of the row, never skip a phase of it or take
\* it back (STAGE_STATUS_MAP, select_for_update in start_workflow).
Contract == INSTANCE EngagementContract WITH phase <- eng.status
ImplementsContract == Contract!Spec

\* A running engagement has its plan on record, so that its workflow can
\* be shown: also when WO's first event is published before the start is
\* saved, and when a plan is stopped while another start is waiting.
RunningPlanOnRecord ==
    eng.status # "planning" => eng.plan # None

\* Whenever the consumer has read all of the topic, the row is where WO is:
\* the plan at work is on it, in the phase of its stage, or is just created
\* and about to be saved; and no stopped plan is left on it to keep the next
\* start out (start_workflow, STAGE_STATUS_MAP).
RowPhase == [planning |-> "fieldwork", fieldwork |-> "fieldwork",
             reporting |-> "reporting", approved |-> "completed"]

RowFollowsWO ==
    pos = Len(log) =>
        /\ eng.plan # None => wo[eng.plan] \in DOMAIN RowPhase
        /\ \A p \in Plan : wo[p] \in DOMAIN RowPhase =>
              \/ eng = [status |-> RowPhase[wo[p]], plan |-> p]
              \/ wo[p] = "planning" /\ \E w \in Worker : web[w].pc = "created" /\ web[w].plan = p

\* Nobody but a team that has signed leaves planning: no orphaned plan, no
\* replayed or lost event and no second start gets around the check in
\* AuditEngagementPhaseTransitionView.
SignedBeforeFieldwork == eng.status # "planning" => TeamSigned

\* The step out of planning finds no declaration unsigned ("All team
\* members must sign their Declaration of Independence").
LeavesPlanningSigned ==
    [][eng.status = "planning" /\ eng'.status # "planning" => TeamSigned]_vars

\* The last signature triggers the stamps of all: two people who sign last
\* at the same time do not each leave it to the other (DeclarationSignView).
TeamIsStamped ==
    /\ TeamSigned
    /\ \A w \in Worker : web[w].pc \notin {"signed", "stamping"}
    => \A m \in Declared \intersect Documented : decl[m].stamped

\* Only WO completes an engagement, unless a request body says so: a stale
\* save never brings "completed" back, no other decision is taken for it.
CompletedByWO ==
    eng.status = "completed" => \E p \in Plan : wo[p] = "approved"

\* An engagement WO saw through to the end is completed and stays so.
EndDelivered ==
    \A p \in Plan : wo[p] = "approved" ~> [](eng.status = "completed")
============================================================================
