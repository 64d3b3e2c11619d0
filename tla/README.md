# Verification of the GRC service

TLA+ models of the GRC (internal audit) service of this repository, the TLC
configurations that check them on small instances, and theorems about them
checked by TLAPS for every instance. `PROJECT.json` is the machine-readable
index: components, runs, the source lines of each definition (`map`), mutants,
findings, hazards and theorems. Paths below are relative to `src/`.

    tlc -config approval_edits.cfg MCApprovalWorkflow      # a run
    tlapm ApprovalWorkflow_proofs.tla                      # the proofs of a module

## 1. The system

A Django/DRF service with these processes, all on one PostgreSQL database
(autocommit, no `ATOMIC_REQUESTS`):

| process | runs | shares |
|---|---|---|
| web | gunicorn, 4 workers, one request each at a time | all tables |
| Kafka consumer | `consume_grc_events`, one process, restarted by docker | the rows under a workflow |
| Celery worker and beat | `apps/core/tasks`, concurrency 4 | monitoring rows, organisation tables |

and these external services: Work Orchestration (WO), where approvals and the
stages of an engagement are decided, the document service (DRS), IAM, the
Corporate service, Kafka.

### Components

| component | state it keeps | operations | talks to |
|---|---|---|---|
| approvals of working papers, universes, audit plans, memos, programs | row: status, `workflow_plan_id` (`WorkflowMixin`), reviewer | submit, PUT/PATCH, DELETE, recorded review | WO over HTTP, consumer |
| engagement lifecycle | row: status, plan | transition to fieldwork, PUT/PATCH | WO, consumer, declarations |
| declarations of independence | row per member: status, `is_signed`, stamped document | create, PUT, sign | engagement, DRS |
| workflow event consumer | offset (auto-committed), rows | one handler per `template_code` | Kafka |
| WO client | template id cache | `start_workflow` | WO |
| implementation monitoring | row: notified, deadline, overdue, escalated | create, notify, PUT/PATCH, DELETE, daily task | recommendations, Kafka |
| audit reports | row: status, approver, stamped document | create, PUT/PATCH, status, distribute, DELETE | engagement, findings, consumer, DRS, Kafka |
| findings | row: status, two responses, `is_active` | create, PUT/PATCH, finalize, update-status, respond, DELETE | engagement, reports |
| recommendations | row: status, finding, `is_active` | create, PUT/PATCH, update-status, DELETE | findings, monitoring |
| quarterly reports | status, linked audit reports, figures | create, PUT/PATCH, DELETE, status, link, unlink, consolidate | reports |
| risk assessments | status, scores, list of evidence | create, PUT/PATCH, DELETE, submit, review, evidence | DRS, universe |
| risk control matrices | status, entries (rows of their own) | create, PUT, DELETE, submit, approve, entries | engagement |
| surveys, meetings | status, answers, minutes | create, PUT/PATCH, DELETE, complete, status | engagement |
| corporate sync | organisation tables, a log per run and per level | sync of one level or of all, by request, command or task | Corporate service |
| publishing, notifications | producer, idempotency key | publish | Kafka |
| IAM, permissions | none (token) | check, register | IAM |

### What is hard in it

- A submission is a chain of separate steps - the view checks a row it read, the
  service locks it (or does not), WO creates a plan over HTTP, the row is saved -
  and WO's decision comes back through another process, possibly before the
  save, possibly twice, possibly never.
- Edits read a whole row and write a whole row (`serializer.save()`).
- Offsets are committed by a timer, so a restart replays; handler errors are
  logged and the event is passed over.
- Checks (`already submitted`, `already notified`, `all signed`) are made on
  reads without a lock.
- Evidence is uploaded to DRS between the check of a record and the change of it.
- The organisation is read level by level from a service that changes meanwhile,
  each level in a transaction of its own; nothing keeps two runs apart.
- The daily task counts calendar days, the deadline business days; windows are
  half open and move with the clock; a Celery message is acknowledged when taken.

`PROJECT.json` `hazards` lists each one at its line with the property that would
catch it, and in a note what of it no property is against: mostly races that the
code has and nothing in it forbids. The models have those races; the properties
named `OnlyStale...` and `...AreStale` except just the requests whose reading was out
of date, and say that nothing else does the damage.

### What makes each component correct

| component | properties |
|---|---|
| approvals | one running approval per record; an approved record was approved by someone; a plan on record is not replaced; a record sent back can be submitted again; no decision is lost between WO and its row; replay does not change a decided paper |
| engagement | phases in order; no fieldwork with an unsigned team; completed only by WO; plan on record while it runs; the row is where WO is once the topic is read; the end reaches the row |
| declarations | the last signature stamps all; a signature stays |
| monitoring | reminder and escalation once; nothing flagged early, nor before it was announced; overdue at the first run after the deadline |
| findings, recommendations | a recommendation rests on a finding that has been final, monitoring on work that began; phases in order; what is final or closed is undone only by a race |
| reports | approved after a review; distributed after an approval; a finding announced after an approval, and once for each; the findings of an approved report are announced |
| records reviewed in GRC (quarterly reports, assessments, matrices, surveys, meetings) | phases in the tables' order; what is closed changes only by a request that read it before; no upload is lost to another; what asks for items has some |
| corporate sync | a full sync logged as completed has left the rows as Corporate says; runs that overlap do not undo each other |

## 2. Modules

| module | what it is |
|---|---|
| `ApprovalContract` | what an approval promises: open, in review, approved or sent back |
| `ApprovalWorkflow` | web workers, WO, topic and consumer for the five kinds of records; implements the contract |
| `MCApprovalWorkflow` | its instances for TLC |
| `ApprovalWorkflow_proofs` | its theorems |
| `EngagementContract` | the order of an engagement's phases |
| `EngagementLifecycle` | declarations, start of the workflow, stages, consumer; implements the contract |
| `MCEngagementLifecycle`, `EngagementLifecycle_proofs` | instances, theorems |
| `MonitoringDeadlines` | notifications, the daily task, queue, clock |
| `MCMonitoringDeadlines`, `MonitoringDeadlines_proofs` | its instances, its theorems |
| `LifecycleContract` | what a status table promises: phases reached one at a time, in order |
| `FollowUp` | findings, responses, recommendations and the creation of monitoring, under overlapping requests; implements the contract |
| `MCFollowUp`, `FollowUp_proofs` | its instance, its theorems |
| `AuditReport` | review, approval, announcement and distribution of a report, by web workers and the consumer; implements the contract |
| `MCAuditReport`, `AuditReport_proofs` | its instance, its theorems |
| `InternalReview` | the five kinds of records that are reviewed in GRC itself; implements `LifecycleContract` for each of the four kinds with more than two statuses |
| `MCInternalReview`, `InternalReview_proofs` | its instance, its theorems |
| `CorporateSync` | Corporate, the organisation's rows, and runs that fail, retry and overlap |
| `MCCorporateSync`, `CorporateSync_proofs` | its instance, its theorems |

### ApprovalWorkflow

`row[e]` is the database row (status - `review_status` for a paper - plan,
whether a reviewer is on it), `lock[e]` the transaction that holds it `FOR
UPDATE`, `web[w]` where each worker's request is, `wo[p]` WO's plan, `log` the
topic `workflow-events`, `pos` and `committed` the consumer's position and the
group's offset. What differs between the kinds is in one record per kind
(`WorkingPaper`, `AuditUniverse`, `AuditPlan`, `AuditMemo`, `AuditProgram`) and
in the five handlers `On...`.

| code | actions |
|---|---|
| submit view + service | `SubmitRead`, `SubmitLock`, `CreatePlan`/`CallFails`, `SubmitSave`; for memos and programs, which do not lock, `SubmitUnlocked` in place of the first two |
| WO (external) | `WODecide` |
| consumer | `Consume`; `CommitOffset`, `ConsumerRestart`, `ConsumeFails` |
| PUT, PATCH, soft DELETE | `EditRead`, `EditSave` |
| DELETE of a paper, `PATCH .../review/` | `DeleteRead`, `DeleteRow`; `RecordReview` |
| a request that dies anywhere (15 s read timeout, killed worker, failed save) | `Abandon` |

Every action that writes a row waits for its lock, as the UPDATE does.

### EngagementLifecycle

One engagement, its team's declarations, and the same parties. `StartRead`,
`StartCheck`, `StartLock`, `CreatePlan`, `StartSave` are
`AuditEngagementPhaseTransitionView` and `AuditEngagementService.start_workflow`;
`WOAdvance` and `WOStop` are WO; `Consume` is `_handle_audit_engagement_stage`
with `STAGE_STATUS_MAP`. `Sign`, `StampCheck`, `Stamped` are
`DeclarationSignView`: the signature is committed, then the team is looked at,
then each document is sent to DRS in turn. `Declare`, `DeclarationRead` and
`DeclarationSave` are the other declaration endpoints.

### MonitoringDeadlines

Time counts half days from a Monday 07:00, fine enough to put a notification at
the time of the run or between two runs, and both sides of each half-open window.
`NotifyRead`/`NotifySave` are the notify view; `Beat` puts the task into its
queue; `RunStart`, `RemindQuery`, `Remind`, `EscalateQuery`, `Escalate`,
`EscalateSave`, `RunEnd` are `check_monitoring_deadlines` statement by statement,
so that runs overlap and die between any two; `Tick` lets time pass (requests do
not last half a day: gunicorn's timeout is two minutes).
`AddBusinessDays` is the loop of `_add_business_days`.

The task as deployed: beat sends it to the queue `default`
(`config/settings.py:202`), the worker is started without `-Q`
(`docker-compose.yml:85`) and takes `celery`. `WorkerQueues` is that choice. The
runs have a worker that takes `default`, because of the deployed one there is little to
check: no run ever starts, and TLC refutes `DeadlineEnforced` (section 3). The theorems
are about any choice. And what the task announces does not
arrive: `publish_audit_plan_event` drops every type that is not of a plan, so the
model counts announcements (`told`), not messages.

### FollowUp

`finding[f]`, `rec[r]` and `mon[r]` are the rows, `web[w]` the request of a worker
with its copy of the row it read. None of these handlers locks: each operation is
a read with its checks (`...Read`), for the two deletions a second query
(`...Check`), and a write (`...Save`) of one column (`save(update_fields=...)`) or of
the whole row (`serializer.save()`). `finalised` and `was` are history: which
findings have been final, which phases a recommendation has been in.

| code | actions |
|---|---|
| finding: POST, PUT/PATCH, DELETE | `AddFinding...`, `EditFinding...`, `DeleteFinding...` |
| finalize, update-status, responses | `FinalizeRead`, `UpdateFindingRead`, `MoveFindingSave`; `AnswerRead`, `AnswerSave` |
| recommendation: POST, PUT/PATCH, DELETE, update-status | `AddRec...`, `EditRec...`, `DeleteRec...`, `MoveRec...` |
| monitoring: POST, PUT/PATCH, DELETE | `AddMonitoring...`, `EditMonitoring...`, `DeleteMonitoring...` |

`FindingBodies`, `RecommendationBodies` and `Rehomes` are what bodies of PUT and
POST may carry in `status` and `finding_id`, neither of which the serializers
make read-only.

### AuditReport

`report` is the row, `sent` the findings announced as finalised, `due` those that were
active when an approval was saved, `con` what the consumer is at; `approvals` (up to
two) and `twice` are history, of the approvals saved and of the findings announced
again. `MoveSave` saves the approval, `LookUp` looks up the active findings, `Announce`
announces one of them: the announcements follow the commit one by one, and `Abandon`
or `EventLost` may come between any two. `Consume`, `ConsumerLookUp`,
`ConsumerAnnounce` and `ConsumerStamp` are `_handle_audit_report_completion` on a
decision of WO (approved, rejected, cancelled - what `final_decision` can be,
`kafka_consumer.py:285`; its branch for "distributed" is not reached).
No view of this repository starts the plan of a report; its template code is
registered (`orchestration_client.py:62`) and handled, so WO may run one.

What shows in the model without a run of its own: a decision of WO leaves
`approved_by` empty (`kafka_consumer.py:705`: the conditional binds weaker than `or`,
so the value is None unless the row has an approver already, against line 681);
findings are announced as finalised whatever their status is. Of the report itself
nothing is announced: the views call `publish_audit_event` when a report is created,
approved and distributed (`audit_report_views.py:243`, `:599`, `:733`), which is the
stub of the interface (`messaging_service.py:36-38`), so these calls are no actions.

### InternalReview

One record of a kind that `Init` picks; `Rules` holds, per kind, what its views
say: the chain of statuses, the pairs the moves allow, where it may be edited,
deleted and given items, and which status asks for items. The handlers of the
five views are then the same actions:

| | quarterly report | assessment | matrix | survey | meeting |
|---|---|---|---|---|---|
| code in `apps/api/views/` | `audit_quarterly_report_views` | `risk_assessment_views` | `rcm_views` | `audit_survey_views` | `audit_meeting_views` |
| `MoveRead`, `MoveSave` | 287 | 440 (submit), 499 (review) | 228 (submit), 284 (approve) | 222 | 530 |
| `EditRead`, `EditSave` | 244 | 259, 323 | 171 | 165 | 457 |
| `DropRead`, `DropSave` | 250 | 387 | 198 | 192 | 463 |
| items | linked audit reports | evidence | entries | none | minutes |
| `AttachRead`, `AttachSave` | 509 | 648 | 361, 435 | - | in the edit |
| `DetachRead`, `DetachSave` | 527 | 772 | 472 | - | in the edit |
| `ConsolidateRead`, `ConsolidateSave` | 387 | - | - | - | - |

Evidence and minutes are columns of the row (`inRow`), so that an edit writes
them; links and entries are rows of their own, so that it does not. What of this
is easy to miss:

- A PUT of an assessment without `evidence_attachments` saves the serializer's
  default, an empty list (`audit_serializers.py:76-81`): all evidence is gone.
  A list in the body fails, its UUIDs are not JSON. `WrittenItems` has both.
- `status` is writable in these serializers. The run has bodies without it, and
  so have the two theorems that need it.
- A reviewed assessment may be edited by PUT and approved with no further review;
  evidence is read again `FOR UPDATE`, the status is not.
- A quarterly report enters "management_review" only with links, but all its links
  may be removed afterwards, until it is submitted. A consolidation makes its query a
  second time when it sets the links; links set by hand leave the figures as they
  are.
- `entry.save()` on an entry that was deleted meanwhile inserts it again.

Without a definition of its own: a matrix or survey that was deleted (deactivated)
keeps its engagement's one-to-one relation, and the check for an existing one does
not look at `is_active`, so no other can be created; the help text of
`RiskRating.max_score` says "exclusive", `classify_score` reads it inclusively.

### CorporateSync

`corp` is Corporate (external), `row` the organisation's rows here, `run[p]` where
each runner is - a web worker, a shell or a Celery task - and `log` the log of its
full sync. `Fetch` is the HTTP request of a level, `Save` the transaction that
updates its rows, `Log` the level's log, `Close` the log of `sync_all`; each of the
first three may fail (`FetchFails`, `SaveFails`, `LogFails`), after which `GiveUp`
closes the logs as failed and a task waits for its `Retry`. `Die` leaves the logs
as they are: "in_progress" for ever. A row's `Content` is what a sync writes and
anybody reads: its code, the row above, and every row it refers to.

- Rows are only updated. `update_or_create`'s defaults (`corporate_sync.py:140`)
  never give `created_by`, which `models/base.py:28-30` neither allows to be null
  nor defaults, so an INSERT raises and the level fails, against "Returns:
  (processed, created, updated)" (lines 121-124). `CanSave` and `CanFail` say so,
  and `Init` starts from rows that were loaded in some other way.
- Only active records are fetched: what Corporate deactivated stays active here,
  and a code that is used again blocks its level for good. Records that exchange
  codes block it as well (`Circle`), records that succeed one another do so in
  some orders of the answer (`Takes`).
- A row whose parent is missing is skipped, and the level is completed.
- A log that cannot be written after the commit marks the level as failed.
- Overlapping runs: the later save wins, also with the older answer.
- Answers are assumed to be complete (`limit=1000`). The hourly and daily tasks of
  `organizational_sync.py` are not in `CELERY_BEAT_SCHEDULE` (`settings.py:198`);
  they run when somebody sends them. Counts, `started_by`, the removal of old logs
  and the GET of the status are left out.

## 3. Runs

| run | instance | shows |
|---|---|---|
| `approval_reliable` | audit plan and universe, 2 workers, 3 plans, fair | `AtMostOneOpenPlan`, `DraftIsSubmittable`, `NoDecisionLost`, `ImplementsContract`, `DecisionReflected` while nothing fails |
| `approval_edits` | paper and program, 2 workers, 2 plans, every action | `TypeOK`, `ApprovalAttributable`, `NoPlanReplaced` |
| `approval_restarts` | universe and paper, 2 workers, 2 plans, fair, any number of restarts | `PaperDecisionStands`, `ApprovalDelivered` |
| `engagement_reliable` | 2 members, 1 document, 2 workers, 2 plans, declarations added and edited, fair | `RunningPlanOnRecord`, `RowFollowsWO`, `TeamIsStamped`, `ImplementsContract`, `EndDelivered` |
| `engagement_faults` | 2 members, 2 workers, 2 plans, all faults, stale saves of the engagement | `TypeOK`, `SignedBeforeFieldwork`, `CompletedByWO` |
| `monitoring_daily` | 2 records, any start of the week, 17 days, the task on time | `RemindedOnce`, `EscalatedOnce`, `EscalatedIsOverdue`, `OverdueOnTime` |
| `monitoring_anytime` | 1 record, 2 workers, 2 Celery processes, 10 days, late, lost and overlapping runs | `FlagsAreTimely`, `EscalatedIsAnnounced` |
| `followup_races` | 1 finding, 1 recommendation, 2 workers, every request, finding bodies with any status | `RestsOnFinal`, `MonitoredWorkBegan`, `ImplementsContract`, `OnlyStaleRequestsUndo` |
| `report_publication` | 1 finding, 2 workers, 1 decision of WO, a document to stamp, all faults, fair | `ApprovedIsReviewed`, `AnnouncedOncePerApproval`, `NoFindingForgotten`, `ImplementsContract`, `OnlyStaleRequestsUndo`, `FindingsAnnounced` |
| `internal_review` | one record of each kind, 2 items, 2 workers, every request, dying ones included | `ImplementsContract`, `ClosedChangesAreStale`, `ItemsKept`, `OnlyStaleRequestsHollow` |
| `corporate_sync` | 2 directorates, a department, a unit, 2 codes, 2 runners, 1 retry, 1 change in Corporate | `CompletedMirrors`, `RightRowsStay` |

Two runs check the type invariant as well, which has the order of the consumer's
position and the group's offset in it; the others leave it to the theorems.

One run is refuted by TLC, a disagreement of the code with what it says of itself
(`findings`): in `engagement_late_declaration` a declaration added during the call
to WO is unsigned when fieldwork begins, `LeavesPlanningSigned` fails.

Five more things show when the models are run with other constants; they
have no run of their own:

- `AtMostOneOpenPlan` fails for a memo, or a program, under `ReliableSpec` with two
  workers and two plans: the view checks the row and saves it without a lock
  (`audit_memo_views.py:277`), so two submissions start two plans and one of them is
  on no record. The theorem below holds for the kinds that lock.
- `DraftIsSubmittable` fails for a working paper: a cancelled paper is a draft
  with its plan (`kafka_consumer.py:378` clears it for a rejected one only), and the
  service skips every later submission while the view answers that it was
  submitted.
- A restart can lose an approval of a record whose plan is cleared: with three plans
  `NoDecisionLost` fails for a universe or an audit plan under `RestartSpec`. The
  replayed rejection of the first plan makes the approved record a draft without a
  plan, a view reads it so, the replayed approval leaves it approved without a
  plan, and the submission goes over it. For papers the theorem below says that
  this cannot be.
- `DeadlineEnforced` fails in the deployment: with `WorkerQueues = {"celery"}`, one
  record, `Backlog = 17` (a message for each day of the run) and otherwise the constants
  of `monitoring_daily`, TLC refutes it under `FairPunctualSpec`. Beat goes on sending
  (`settings.py:202`), nobody takes the messages, and no deadline is enforced. With
  `{"default"}` it holds: a worker started with `-Q default` is all it takes.
- A full sync fails, always, at the first level with a record that has no row
  (see `CorporateSync` above).

### Bounds

- Two workers: every race in this code is between two requests, or a request and
  the consumer or the task. Two Celery processes for the same reason.
- Plans bound the submissions. Two plans are an orphan and its retry; a third,
  where nothing fails, is a resubmission after a rejection while another record
  is in review. The topic is bounded by the plans (one decision each, at most
  four events each for an engagement), restarts and commits are not bounded.
- Two records: one can be in review while another is edited, and no property
  relates more than two.
- Two members: one who has signed and one who has not.
- `Last` covers the longest window (5 business days over a weekend, day 7 plus
  two runs) from each day of the first two weeks; `Backlog` is 1: the
  worker takes one task a day.
- One finding, one recommendation, one report: the history of a row concerns that
  row and the one it refers to. `FollowUp_proofs` has no such bound. Two workers
  give a stale request and the one that overtakes it; requests are not bounded,
  so longer chains of them are in the run.
- One decision of WO, redelivered as often as the consumer restarts: each goes
  through the same handler.
- Two items: one that is there and one that comes or goes; two workers as before.
  The kinds do not interact, so one record is enough.
- Two directorates, one with a department and a unit below it: a move of a
  department changes what its unit refers to, two records of a level exchange
  codes. A section is to a unit what a department is to a directorate, and the
  run has none; `CorporateSync_proofs` is about any organisation. One change in
  Corporate falls into any step of two runs; one retry is a stale one.
- Symmetry is used in the runs without liveness properties only.
- `CHECK_DEADLOCK FALSE` stands where the plans or the days run out.

### Fairness

Strong fairness of `Consume`: the consumer loop goes on for ever, and its UPDATE
waits in PostgreSQL's lock queue, which is served in order, so it is not passed
over for ever by requests that take the row lock in turn. Weak fairness of a
request in progress: the HTTP call has a timeout (15 s), so the request ends.
Strong fairness of `CommitOffset` where the consumer restarts: auto-commit runs
on a timer of 5 s, and restarts do not come faster than that for ever.
Weak fairness of `ConsumerStep` for the report, whose handler waits for nobody.
`InternalReview` and `CorporateSync` state no liveness: nothing obliges a user to
finish a review, and a sync that fails may fail for ever.
Of the daily task no run assumes fairness, since nobody takes it as deployed. Nothing makes users submit or
sign, or reviewers decide.

## 4. Theorems

For every set of records, members, workers and plans, and with the faults and
the edits:

| theorem | says | from |
|---|---|---|
| `ApprovalWorkflow_proofs!TypeCorrect` | `TypeOK`, `committed <= pos <= Len(log)` included | one step lemma per action |
| `ApprovalWorkflow_proofs!ApprovalsAttributable` | `ApprovalAttributable`, if no request body says "approved" | `AttributionInv` |
| `ApprovalWorkflow_proofs!PlansNotReplaced` | `NoPlanReplaced` | `LockInv` |
| `ApprovalWorkflow_proofs!OneOpenPlan` | `AtMostOneOpenPlan` while nothing fails, for kinds that lock the row | `SerialInv` |
| `ApprovalWorkflow_proofs!DraftsCanBeSubmitted` | `DraftIsSubmittable` while nothing fails, for universes and audit plans | `SerialInv` |
| `ApprovalWorkflow_proofs!ApprovalsKeepTheContract` | `ImplementsContract` while nothing fails, for universes and audit plans | `StatusInv` |
| `ApprovalWorkflow_proofs!DecisionsReachTheirRecord` | `NoDecisionLost` while nothing fails, for kinds that lock the row | `DecisionInv` |
| `ApprovalWorkflow_proofs!PapersOutliveReplay` | `PaperDecisionStands`, with consumer restarts and replay | `PaperInv` |
| `ApprovalWorkflow_proofs!PapersHearDecisions` | `NoDecisionLost` for papers, with consumer restarts and replay | `HearingInv` |
| `EngagementLifecycle_proofs!TypeCorrect` | `TypeOK` | one step lemma per action |
| `EngagementLifecycle_proofs!FieldworkIsSigned` | `SignedBeforeFieldwork`, while declarations are neither added nor edited and no body moves the engagement's status on | `SignedInv` |
| `EngagementLifecycle_proofs!CompletionIsWO` | `CompletedByWO`, if no body says "completed" | `CompletionInv` |
| `EngagementLifecycle_proofs!PlanIsOnRecord` | `RunningPlanOnRecord` while nothing fails | `RecordInv` |
| `EngagementLifecycle_proofs!RowIsWhereWOIs` | `RowFollowsWO` while nothing fails | `FollowInv` |
| `EngagementLifecycle_proofs!SignedTeamIsStamped` | `TeamIsStamped` while nothing fails, if no body declares somebody signed | `StampInv` |
| `EngagementLifecycle_proofs!PhasesKeepTheContract` | `ImplementsContract` while nothing fails | `PhaseInv` |
| `MonitoringDeadlines_proofs!FiveBusinessDays` | what `AddBusinessDays` returns for five days, from any day | - |
| `MonitoringDeadlines_proofs!TypeCorrect` | `TypeOK` | `TypeInv` |
| `MonitoringDeadlines_proofs!FlagsTimely` | `FlagsAreTimely`, with late, dying and overlapping runs | `FlagInv` |
| `MonitoringDeadlines_proofs!EscalationsAnnounced` | `EscalatedIsAnnounced`, with late, dying and overlapping runs | `HeardInv` |
| `MonitoringDeadlines_proofs!EscalatedAfterOverdue` | `EscalatedIsOverdue`, where each day ends with its task and nobody edits, for any `WorkerQueues` | `OnTime`, `OverdueInv`, or `Unserved` |
| `MonitoringDeadlines_proofs!RemindsOnce` | `RemindedOnce`, likewise | `OnTime`, `ReminderInv`, or `Unserved` |
| `MonitoringDeadlines_proofs!EscalatesOnce` | `EscalatedOnce`, likewise | `OnTime`, `EscalationInv`, or `Unserved` |
| `MonitoringDeadlines_proofs!OverdueWhenLate` | `OverdueOnTime`, likewise | `OnTime`, `OverdueExact`, or `Unserved` |
| `FollowUp_proofs!TypeCorrect` | `TypeOK` | `TypeInv` |
| `FollowUp_proofs!RecommendationsRestOnFinal` | `RestsOnFinal`, if no body moves a recommendation to another finding | `RestInv` |
| `FollowUp_proofs!MonitoringOfBegunWork` | `MonitoredWorkBegan`, if no body carries a recommendation's status | `PhaseInv` |
| `FollowUp_proofs!RecommendationsKeepTheContract` | `ImplementsContract`, under the same hypothesis | `PhaseInv`, `OneRecAtATime` |
| `FollowUp_proofs!OnlyStaleUndo` | `OnlyStaleRequestsUndo`, whatever the bodies carry | `StaleInv` |
| `AuditReport_proofs!TypeCorrect` | `TypeOK` | `TypeInv` |
| `AuditReport_proofs!AnnouncedOnce` | `AnnouncedOncePerApproval`, with all faults | `OnceInv` |
| `AuditReport_proofs!ApprovalsReviewed` | `ApprovedIsReviewed`, if no body says "approved" | `ReviewInv` |
| `AuditReport_proofs!OnlyStaleUndo` | `OnlyStaleRequestsUndo`, whatever the bodies carry | `StaleInv` |
| `AuditReport_proofs!FindingsNotForgotten` | `NoFindingForgotten`, with all faults | `AnnounceInv` |
| `AuditReport_proofs!PublicationInOrder` | `ImplementsContract`, if no body carries a status | `ChainInv` |
| `InternalReview_proofs!TypeCorrect` | `TypeOK` | `TypeInv` |
| `InternalReview_proofs!ClosedRecordsStay` | `ClosedChangesAreStale`, whatever the bodies carry | `ReadInv` |
| `InternalReview_proofs!NoItemIsLost` | `ItemsKept` | `TypeInv` |
| `InternalReview_proofs!GatesHold` | `OnlyStaleRequestsHollow`, if no body carries a status | `ReadInv` |
| `InternalReview_proofs!RecordsKeepTheContract` | `ImplementsContract`, likewise | `OrderInv` |
| `CorporateSync_proofs!TypeCorrect` | `TypeOK` | `TypeOK` |
| `CorporateSync_proofs!FullSyncMirrors` | `CompletedMirrors`, for any organisation, runners, retries and changes | `MirrorInv` |
| `CorporateSync_proofs!RightRowsStayRight` | `RightRowsStay` | `TypeOK` |

- `AttributionInv`: attribution of the rows alone is not inductive. An edit
  writes back the copy it holds, so the copies are attributed too; the consumer
  believes the topic, so each event says what WO decided; and WO's plans never
  leave a decision (`ApprovalsStay`).
- `LockInv`: between `SubmitLock` and `SubmitSave` the worker holds the row's
  lock and the row has no plan (`LockHeld`). `OthersKeepOut` shows that nobody
  else writes a row that is held, `CallerStep` that a worker comes to hold it
  only by having found no plan.
- `SerialInv`: the plan that runs for a record is in one place at a time - with
  the worker that holds the row's lock, or on the row, or decided and on its way
  through the topic (`OpenIsOnRecord`, `HeldIsOpen`, `DecidedOnce`, `RecordedIsOpen`).
  Whoever finds no plan on a row under the lock therefore finds none running.
- `StatusInv`: besides, the status says where the plan is (`StatusFollowsPlan`): none
  for a draft, decided for an approved record, open in the review. So a submission
  that is saved finds a draft, a decision finds its record in review, and nothing
  finds an approved one.
- `DecisionInv`: what the consumer has taken shows on the row - an approval with
  its plan, so that no submission finds the row without one, and a rejection by a
  status that is not under review or by another plan (`DecisionsShow`). The event
  of an unsaved submission cannot have been taken, for `SerialInv` keeps the row
  locked until then; that the topic tells what WO decided is `EventsTrue`.
- `PaperInv`: the plan on a paper is never taken off or replaced, also by a plan a
  request still holds (`PaperPlansOnRecord`, `HeldIsUsed`), so all events about a
  paper name one plan with one decision, and a paper out of review is a fixed
  point of that decision's handler (`PapersAsDecided`). Hence replay writes what
  is there. A universe's handler clears the plan of a rejected record; for it
  the claim is false.
- `HearingInv`: besides, what the consumer has taken of a paper, wherever it stands
  in the topic, is on the row in the plan of the event (`TakenShows`), and WO has
  published each decision (`DecisionsPublished`).
- `SignedInv`: the team has signed, or nothing of a workflow exists - no request
  past the check, no copy of an engagement beyond planning, no plan, no event.
- `CompletionInv`: every event "approved" in the topic, wherever the consumer
  stands, has an approved plan, and no copy that an edit holds is completed.
- `RecordInv`: one plan of the engagement runs at a time; it is the row's, or the
  caller's who holds the row's lock, and no event of it is consumed before the
  save, because the consumer waits for that lock.
- `PhaseInv` of an engagement: the events that the consumer has not taken, in their
  order, lead from the row's status to WO's stage (`NewsInOrder`, `StageFollowed`);
  a start finds nothing under way and the row in planning, an ending is the last
  event. So each event, applied blindly, is the contract's next step or none.
- `FollowInv`: `PhaseInv` says where the events lead; besides, the plan at work in WO
  is on the row, or with the caller who created it, or its stop is still in the
  topic (`PlanAtWork`), and WO does not get ahead of a caller who has not saved
  without an event that waits for the save (`CreatedIsNew`).
- `StampInv`: what is not stamped is on the list of a request that is stamping,
  unless some request has signed and has yet to look at the team; and the copy that
  a PUT will write back is never of a signed declaration, so a stale save makes
  the team unsigned rather than unstamped.
- `FlagInv`: whoever could write a flag - a row, the copy of a request, the list
  of a run - has seen a notification that is not newer than the one that stands.
- `HeardInv`: the record of a run that is about to set the flag has been announced, and
  so has that of an edit whose copy has the flag; announcements are not taken back.
- `OnTime`: what a punctual task means for the clock, the queue and the runs (at
  most one run at a time, done before time goes on). `ReminderInv` and
  `EscalationInv` say which 07:00 is the one of a record and that the run of that
  day alone counts it; `OverdueInv` that this run found it late before, for which
  `FiveBusinessDays` is needed: seven calendar days are never less than the window.
- `OverdueExact`: at every half day a record is overdue exactly if its deadline was
  before the last 07:00 whose task has marked (`LastMark`). A deadline lies after the
  time of its notification, so a notification never makes a record late.
- `Unserved`: the other half of the four theorems about a punctual task, if no worker
  takes "default". All runs are idle, nothing is marked or announced, and once beat has
  sent a message one waits for ever: so `TaskDone`, the premise of what three of them
  ask for, is false from the first morning on. There the theorems say that nothing
  happens, and no more.
- `RestInv`: a creation has only the finding's id in its hands and an edit writes
  back the `finding_id` it read, so both are about findings that have been final;
  `finalised` never shrinks, whatever reopens a finding.
- `StaleInv`: a request that goes to write a finding, a recommendation or a report
  holds a copy that was not yet final, closed or approved - except the move that
  distributes a report, which undoes nothing.
- `PhaseInv` of a recommendation: the phases a recommendation has been in are a prefix of the chain,
  and the status on the row, on every copy and behind every pending move is one of
  them. So a save, however late, writes a phase already passed or the one that
  follows it (`NextPhase`), and work past "open" has been in progress
  (`BegunPhase`). The refinement is that step by step (`PhaseStep`), for one
  recommendation at a time.
- `OnceInv`: while no approval is saved nobody has a finding to announce (`NobodyTells`);
  after one, a single request or the consumer has the task of announcing it, and its
  list holds nothing that is announced already (`OneTells`). A task is begun by an
  approval alone, so a request that dies, or the handler of a rejection, starts none.
- `AnnounceInv`: a finding that is due is active, so the lookups of view and consumer
  find it; it leaves a list of findings to announce only when it is announced, and
  a request or consumer that is interrupted is the fault that the claim excepts.
- `ReviewInv`: a request that goes to write "approved" read a report under review,
  and an edit holds no approved copy. That is why the gap between read and
  save does not matter to the claim, though it lets the row change meanwhile.
- `ChainInv`: what a request, the consumer or an edit of a report goes to write is
  "draft", a status after which nothing new is reached, or the next of the chain, by
  the history of the row; the topic holds no decision before there is a report.
- `ReadInv`: a request past its checks holds a copy that passed them; so a change of
  a closed record has a copy that was open.
- `OrderInv`: the statuses a record has had are a prefix of its chain, and those in
  copies and pending moves are among them or next, as in `PhaseInv`.
- `MirrorInv`: as long as nothing else writes (`calm`), the levels a full sync has
  done are as Corporate says, and the answer it holds is what Corporate would
  answer now. Two runs that both run disturb each other, so at most one is calm
  once anything is saved.

The hypotheses on request bodies are needed: `status` is not read-only in
`AuditPlanSerializer` and `AuditEngagementSerializer`, and a body that carries
the final status sets it; the same holds of a recommendation's `status` and
`finding_id`, of a report's `status`, of a declaration's (`BodiesDoNotSign`) and of
those in `InternalReview`. Assumptions about constants are those named
`ConstantsAssumption` in the modules, which the runs evaluate.

Model-checked only: the four properties that need fairness, for liveness and
ENABLED are out of the prover's reach. Their safety half is proved (of
`ApprovalDelivered`, for papers), and what is left to fairness is that the event, run or request it names is taken:

| liveness, checked by TLC | proved | left to fairness |
|---|---|---|
| `DecisionReflected` | `NoDecisionLost`: the decision shows, or its event is ahead of the consumer | the consumer advances |
| `EndDelivered` | `RowFollowsWO`: the row is where WO is once the topic is read | the consumer advances |
| `FindingsAnnounced` | `NoFindingForgotten`: announced, or with somebody who announces it next | the announcer goes on |
| `ApprovalDelivered` | for papers `NoDecisionLost` with restarts, and that replay does no harm (`PaperDecisionStands`) | commits get through between restarts |

## 5. Not modelled

- Bodies that carry `workflow_plan_id` or the reviewer; creation of the records and
  its guards; attachments, team and milestone endpoints; `is_active` of engagements.
- Of findings and recommendations: reference numbers, duplicates, descriptive
  columns, `recommendation_id` in a body of monitoring. Of reports: the soft
  DELETE (only the list filters on a report's `is_active`), `reviewed_by`, `approved_by` in a
  body, the summaries taken at creation, the distribution list. The review
  endpoint of monitoring, which writes progress columns alone.
- Template lookup and its process-wide cache, status queries to WO.
- The calls to DRS except for whether they were answered.
- Permissions and authentication: stateless checks on a token.
- Dashboards, configuration, lookups: queries and plain writes.
- Report generation tasks: stubs. Migrations, seeds, `staticfiles`: data,
  generated or vendored.
- Of the records reviewed in GRC: scores and ratings (arithmetic on the row that is
  saved), duplicate checks at creation, the figures of a consolidation, uploaded
  minutes, contents of entries. Of the sync: the columns nobody refers to, counts,
  the removal of old logs. Notifications: the idempotency key and the producer.

Hazards of this code that no property is about, next to the one in `hazards` that has
none:

- Reference numbers are count + 1 without a lock
  (`audit_report_views.py:200` and five more views): two creations collide, and the
  unique column refuses one of them.
- DELETE of a paper checks a status it read before
  (`working_paper_views.py:434`): a paper approved in between is removed. The
  actions `DeleteRead` and `DeleteRow` have it; nothing is left to state it of.
- PUT of a declaration may set `status` and `is_signed` of somebody else's
  (`declaration_views.py:190`); `Bodies` has it, and `BodiesDoNotSign` excludes it
  where it matters.
- update-status has "final" in its table without the responses that finalize asks
  for (`audit_finding_views.py:620`), and takes a report to "distributed" without the list
  and the date that distribute records (`audit_report_views.py:57`).
- A Kafka producer that could not connect at start stays None for the life of its
  process (`kafka_producer.py:45`); the idempotency key of a notification has the
  precision of a minute (`notifications/publisher.py:81`).

## 6. Plan

What is left, in the order of what it would add:

1. `ReferenceNumbers`: count + 1 in six views, with the retry a caller makes.
2. `EventPublishing`: the producer, the filter on event types and the key.
3. The guards of creation (engagement phases, duplicates), which relate the modules
   to each other: today `open` and `EngagementMoves` stand for the engagement in
   `FollowUp` and `AuditReport`.
4. The composition of `EngagementLifecycle` with `AuditReport` and `FollowUp` over one
   consumer.
