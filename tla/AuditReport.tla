---------------------------- MODULE AuditReport ----------------------------
(***************************************************************************)
(* The audit report of an engagement: drafted, reviewed, approved - which  *)
(* announces the engagement's findings to Risk Management - distributed.   *)
(*                                                                         *)
(* Web workers move and edit the report; WO, where a review plan may run   *)
(* for it, decides as well, and the Kafka consumer applies what it         *)
(* decides.  Nobody locks the row: a request checks what it has read and   *)
(* writes later, the columns it changes or (PUT, PATCH) all of them.       *)
(* The findings are announced one by one after the row is saved.  Nothing  *)
(* tells of the approval or the distribution itself: the method that the   *)
(* views call for it, publish_audit_event, has no body.                    *)
(***************************************************************************)
EXTENDS Naturals, Sequences

CONSTANTS
    Finding,        \* the findings the engagement may have
    Worker,         \* the web workers
    HasDocument,    \* the report has a document, to be stamped on approval
    ClientStatuses, \* statuses that bodies of PUT, PATCH and POST carry
    Decisions,      \* bounds the decisions WO publishes
    None

Status == {"draft", "under_review", "approved", "distributed"}
Ending == {"approved", "rejected", "cancelled"}

ASSUME ConstantsAssumption ==
    /\ Decisions \in Nat
    /\ HasDocument \in BOOLEAN
    /\ ClientStatuses \subseteq Status
    /\ None \notin Status

VARIABLES
    open,       \* the engagement is in reporting or completed
    active,     \* its active findings
    report,     \* the row
    was,        \* history: the statuses the report has had
    due,        \* history: the findings that have been active since an approval
    sent,       \* the findings announced as finalised
    approvals,  \* history: the approvals saved, none, one or more
    twice,      \* history: the findings announced more than once
    faulty,     \* history: a request, an event or the consumer has failed
    web,        \* the request each worker is serving
    con,        \* what the consumer is at
    log, pos, committed  \* topic, consumer's position, the group's offset

topic == <<log, pos, committed>>
history == <<was, due, sent, approvals, twice>>
vars == <<open, active, report, history, faulty, web, con, topic>>

\* approver: approved_by is set; stamped: stamped_document_url is.
Row == [status : Status \union {"none"}, approver : BOOLEAN, stamped : BOOLEAN]
NoRow == [status |-> "none", approver |-> FALSE, stamped |-> FALSE]

Op == {"idle", "create", "edit", "move", "approved", "announcing",
       "distribute"}
Request == [op : Op, copy : Row, to : Status \union {None}, todo : SUBSET Finding]
Idle == [op |-> "idle", copy |-> NoRow, to |-> None, todo |-> {}]
Consumer == [op : {"idle", "approved", "announcing", "stamping"},
             todo : SUBSET Finding]
Waiting == [op |-> "idle", todo |-> {}]

\* Saves with update_fields keep nothing else of the row that was read.
Seen == [NoRow EXCEPT !.status = report.status]

\* Bounds the count of approvals: two or more are the same.
More == 2

TypeOK ==
    /\ open \in BOOLEAN
    /\ active \subseteq Finding
    /\ report \in Row
    /\ was \subseteq Status
    /\ due \subseteq Finding
    /\ sent \subseteq Finding
    /\ approvals \in 0..More
    /\ twice \subseteq Finding
    /\ faulty \in BOOLEAN
    /\ web \in [Worker -> Request]
    /\ con \in Consumer
    /\ log \in Seq(Ending)
    /\ pos \in 0..Len(log)
    /\ committed \in 0..pos

Init ==
    /\ open \in BOOLEAN
    /\ active \in SUBSET Finding
    /\ report = NoRow
    /\ was = {}
    /\ due = {}
    /\ sent = {}
    /\ approvals = 0
    /\ twice = {}
    /\ faulty = FALSE
    /\ web = [w \in Worker |-> Idle]
    /\ con = Waiting
    /\ log = <<>>
    /\ pos = 0
    /\ committed = 0

Save(row) ==
    /\ report' = row
    /\ was' = was \union {row.status}

\* An approval makes the active findings due.
Approved ==
    /\ due' = due \union active
    /\ approvals' = IF approvals < More THEN approvals + 1 ELSE More

NotApproved == UNCHANGED <<due, approvals>>

\* publish_finding_finalized_event
Tell(f) ==
    /\ sent' = sent \union {f}
    /\ twice' = twice \union (sent \intersect {f})

Goto(w, q) == web' = [web EXCEPT ![w] = q]

\* Worker w takes a request, finds the row as it should be, and goes on.
Begin(w, q) ==
    /\ web[w].op = "idle"
    /\ Goto(w, q)
    /\ UNCHANGED <<open, active, report, history, faulty, con, topic>>

---------------------------------------------------------------------------
(* The web workers.                                                        *)

\* One report per engagement, in reporting or completed ...
CreateRead(w) ==
    /\ open
    /\ report.status = "none"
    /\ Begin(w, [Idle EXCEPT !.op = "create"])

\* ... which the one-to-one column enforces too: a second INSERT fails.
CreateSave(w) ==
    /\ web[w].op = "create"
    /\ IF report.status = "none"
       THEN \E s \in {"draft"} \union ClientStatuses :
                Save([NoRow EXCEPT !.status = s])
       ELSE UNCHANGED <<report, was>>
    /\ Goto(w, Idle)
    /\ UNCHANGED <<open, active, due, sent, approvals, twice, faulty, con, topic>>

\* Mutant of EditRead: approved reports are edited too.
EditReadApproved(w) ==
    /\ report.status \in {"draft", "under_review", "approved"}
    /\ Begin(w, [Idle EXCEPT !.op = "edit", !.copy = report])

\* PUT and PATCH: of a draft, or by the CIA of one under review ...
EditRead(w) ==
    /\ report.status \in {"draft", "under_review"}
    /\ Begin(w, [Idle EXCEPT !.op = "edit", !.copy = report])

\* ... and the whole row is written back.
EditSave(w) ==
    /\ web[w].op = "edit"
    /\ \E s \in {web[w].copy.status} \union ClientStatuses :
           Save([web[w].copy EXCEPT !.status = s])
    /\ Goto(w, Idle)
    /\ UNCHANGED <<open, active, due, sent, approvals, twice, faulty, con, topic>>

\* Mutant of ReportTo: a draft is approved without a review.
ReportToDirect(s) ==
    CASE s = "draft"        -> {"under_review", "approved"}
      [] s = "under_review" -> {"approved", "draft"}
      [] s = "approved"     -> {"distributed"}
      [] OTHER              -> {}

\* VALID_REPORT_TRANSITIONS
ReportTo(s) ==
    CASE s = "draft"        -> {"under_review"}
      [] s = "under_review" -> {"approved", "draft"}
      [] s = "approved"     -> {"distributed"}
      [] OTHER              -> {}

\* POST .../update-status/
MoveRead(w, t) ==
    /\ t \in ReportTo(report.status)
    /\ Begin(w, [Idle EXCEPT !.op = "move", !.copy = Seen, !.to = t])

\* The status is written, on approval with the approver; the events of an
\* approval come after that.
MoveSave(w) ==
    /\ web[w].op = "move"
    /\ Save([report EXCEPT !.status = web[w].to,
                           !.approver = @ \/ web[w].to = "approved"])
    /\ IF web[w].to = "approved"
       THEN Approved /\ Goto(w, [Idle EXCEPT !.op = "approved"])
       ELSE NotApproved /\ Goto(w, Idle)
    /\ UNCHANGED <<open, active, sent, twice, faulty, con, topic>>

\* Mutant of LookUp: only the consumer announces.
LookUpNone(w) ==
    /\ web[w].op = "approved"
    /\ Goto(w, Idle)
    /\ UNCHANGED <<open, active, report, history, faulty, con, topic>>

\* After an approval the active findings are looked up, whatever their
\* status, to be announced as finalised ...
LookUp(w) ==
    /\ web[w].op = "approved"
    /\ Goto(w, IF active = {} THEN Idle
               ELSE [Idle EXCEPT !.op = "announcing", !.todo = active])
    /\ UNCHANGED <<open, active, report, history, faulty, con, topic>>

\* ... one by one.
Announce(w, f) ==
    /\ web[w].op = "announcing"
    /\ f \in web[w].todo
    /\ Tell(f)
    /\ Goto(w, IF web[w].todo = {f} THEN Idle ELSE [web[w] EXCEPT !.todo = @ \ {f}])
    /\ UNCHANGED <<open, active, report, was, due, approvals, faulty, con, topic>>

\* Mutant of DistributeRead: a report under review is distributed.
DistributeReadEarly(w) ==
    /\ report.status \in {"under_review", "approved"}
    /\ Begin(w, [Idle EXCEPT !.op = "distribute", !.copy = Seen])

\* POST .../distribute/: an approved report.
DistributeRead(w) ==
    /\ report.status = "approved"
    /\ Begin(w, [Idle EXCEPT !.op = "distribute", !.copy = Seen])

DistributeSave(w) ==
    /\ web[w].op = "distribute"
    /\ Save([report EXCEPT !.status = "distributed"])
    /\ Goto(w, Idle)
    /\ UNCHANGED <<open, active, due, sent, approvals, twice, faulty, con, topic>>

---------------------------------------------------------------------------
(* WO and the consumer: _handle_audit_report_completion.                   *)

\* A review plan of the report, started outside GRC, is decided.
WODecide(d) ==
    /\ report.status # "none"
    /\ Len(log) < Decisions
    /\ log' = Append(log, d)
    /\ UNCHANGED <<open, active, report, history, faulty, web, con, pos, committed>>

\* Mutant of Consume: after a rejection the handler runs on.
ConsumeFallingThrough ==
    /\ con.op = "idle"
    /\ pos < Len(log)
    /\ pos' = pos + 1
    /\ Save([report EXCEPT !.status = IF log[pos + 1] = "approved" THEN "approved"
                                     ELSE "draft"])
    /\ IF log[pos + 1] = "approved" THEN Approved ELSE NotApproved
    /\ con' = [con EXCEPT !.op = "approved"]
    /\ UNCHANGED <<open, active, sent, twice, faulty, web, log, committed>>

\* An approval sets the status, whatever it was, and never the approver:
\* "a or b or c or str(x) if x else None" is None unless x, the approver on
\* the row, is there.  A report rejected or cancelled is a draft.
Consume ==
    /\ con.op = "idle"
    /\ pos < Len(log)
    /\ pos' = pos + 1
    /\ IF log[pos + 1] = "approved"
       THEN /\ Save([report EXCEPT !.status = "approved"])
            /\ Approved
            /\ con' = [con EXCEPT !.op = "approved"]
       ELSE /\ Save([report EXCEPT !.status = "draft"])
            /\ NotApproved
            /\ con' = con
    /\ UNCHANGED <<open, active, sent, twice, faulty, web, log, committed>>

\* Where the handler goes when it has announced all.
Afterwards == IF HasDocument THEN [Waiting EXCEPT !.op = "stamping"] ELSE Waiting

ConsumerLookUp ==
    /\ con.op = "approved"
    /\ con' = IF active = {} THEN Afterwards ELSE [op |-> "announcing", todo |-> active]
    /\ UNCHANGED <<open, active, report, history, faulty, web, topic>>

ConsumerAnnounce(f) ==
    /\ con.op = "announcing"
    /\ f \in con.todo
    /\ Tell(f)
    /\ con' = IF con.todo = {f} THEN Afterwards ELSE [con EXCEPT !.todo = @ \ {f}]
    /\ UNCHANGED <<open, active, report, was, due, approvals, faulty, web, topic>>

\* DRS answers with the URL of the stamped document, or not at all.
ConsumerStamp(answered) ==
    /\ con.op = "stamping"
    /\ Save([report EXCEPT !.stamped = @ \/ answered])
    /\ con' = Waiting
    /\ UNCHANGED <<open, active, due, sent, approvals, twice, faulty, web, topic>>

CommitOffset ==
    /\ committed' = pos
    /\ UNCHANGED <<open, active, report, history, faulty, web, con, log, pos>>

---------------------------------------------------------------------------
(* What can fail, and what goes on elsewhere.                              *)

\* The request dies, at whatever point.
Abandon(w) ==
    /\ web[w].op # "idle"
    /\ Goto(w, Idle)
    /\ faulty' = TRUE
    /\ UNCHANGED <<open, active, report, history, con, topic>>

\* An event is not delivered to Kafka: logged, and the loop goes on.
EventLost ==
    /\ faulty' = TRUE
    /\ \/ \E w \in Worker :
             /\ web[w].op = "announcing"
             /\ \E f \in web[w].todo :
                   Goto(w, IF web[w].todo = {f} THEN Idle
                           ELSE [web[w] EXCEPT !.todo = @ \ {f}])
             /\ con' = con
       \/ /\ con.op = "announcing"
          /\ \E f \in con.todo :
                con' = IF con.todo = {f} THEN Afterwards
                       ELSE [con EXCEPT !.todo = @ \ {f}]
          /\ web' = web
    /\ UNCHANGED <<open, active, report, history, topic>>

\* The consumer dies in its handler and starts again at the group's offset.
ConsumerRestart ==
    /\ con' = Waiting
    /\ pos' = committed
    /\ faulty' = TRUE
    /\ UNCHANGED <<open, active, report, history, web, log, committed>>

\* Findings are added and deleted (FollowUp), the engagement moves
\* (EngagementLifecycle); its phase matters until there is a report.
FindingsChange ==
    /\ active' \in SUBSET Finding
    /\ active' # active
    /\ due' = due \intersect active'
    /\ UNCHANGED <<open, report, was, sent, approvals, twice, faulty, web, con, topic>>

EngagementMoves ==
    /\ report.status = "none"
    /\ open' = ~open
    /\ UNCHANGED <<active, report, history, faulty, web, con, topic>>

---------------------------------------------------------------------------
\* What a worker does next in a request that it has begun.
GoOn(w) ==
    \/ CreateSave(w) \/ EditSave(w) \/ MoveSave(w) \/ DistributeSave(w)
    \/ LookUp(w)
    \/ \E f \in Finding : Announce(w, f)

Take(w) ==
    \/ CreateRead(w) \/ EditRead(w) \/ DistributeRead(w)
    \/ \E t \in Status : MoveRead(w, t)

ConsumerStep ==
    \/ Consume \/ ConsumerLookUp
    \/ \E f \in Finding : ConsumerAnnounce(f)
    \/ \E answered \in BOOLEAN : ConsumerStamp(answered)

Next ==
    \/ \E w \in Worker : Take(w) \/ GoOn(w) \/ Abandon(w)
    \/ \E d \in Ending : WODecide(d)
    \/ ConsumerStep \/ CommitOffset \/ ConsumerRestart \/ EventLost
    \/ FindingsChange \/ EngagementMoves

Spec == Init /\ [][Next]_vars

\* Requests end and the consumer loop goes on.
FairSpec ==
    /\ Spec
    /\ \A w \in Worker : WF_vars(GoOn(w))
    /\ WF_vars(ConsumerStep)
---------------------------------------------------------------------------
(* Properties.                                                             *)

WOApproved == \E k \in 1..Len(log) : log[k] = "approved"

\* Draft, approved, distributed: no request, redelivered decision or late
\* save makes a report distributed that never was approved.
Publication == INSTANCE LifecycleContract WITH
    Item  <- {"report"},
    Chain <- <<"draft", "approved", "distributed">>,
    been  <- [i \in {"report"} |-> was \intersect {"draft", "approved", "distributed"}]
ImplementsContract == Publication!Spec

\* An approved report was under review in GRC, or WO approved it: no race
\* of edits and moves skips both (VALID_REPORT_TRANSITIONS).
ApprovedIsReviewed ==
    "approved" \in was => "under_review" \in was \/ WOApproved

\* A finding is announced for an approval that is in the row, and for each
\* approval once: nothing before the first one is saved, nothing again
\* before a second is - by another request that read the report under
\* review, or by the consumer, which applies a redelivered decision as a new
\* approval.  No request and no restart repeats a part of a loop
\* (AuditReportStatusUpdateView, _handle_audit_report_completion).
AnnouncedOncePerApproval ==
    /\ sent # {} => approvals > 0
    /\ twice # {} => approvals > 1

\* A report that was approved or distributed goes back only by a request
\* that read the row before the approval, or by a decision of WO: the
\* handlers that find it approved do not reopen it (LOCKED_STATUSES).
Rank(s) == CASE s = "distributed" -> 2 [] s = "approved" -> 1 [] OTHER -> 0

OnlyStaleRequestsUndo ==
    [][Rank(report'.status) < Rank(report.status) =>
       \/ pos' = pos + 1
       \/ \E w \in Worker : /\ web'[w] # web[w]
                            /\ Rank(web[w].copy.status) = 0]_vars

\* At every moment a finding that an approval found active has been
\* announced, or somebody has it still to announce: the lookup after the
\* approval misses none, the loop over the findings drops none, whatever
\* two requests and the consumer do to the row meanwhile - unless something
\* failed (AuditReportStatusUpdateView, _handle_audit_report_completion).
ToAnnounce(q, f) == q.op = "approved" \/ (q.op = "announcing" /\ f \in q.todo)

NoFindingForgotten ==
    \A f \in due : \/ f \in sent \/ faulty
                  \/ ToAnnounce(con, f) \/ \E w \in Worker : ToAnnounce(web[w], f)

\* Every finding active at the approval is announced to Risk Management,
\* whoever approved, if nothing fails meanwhile and it is not deleted (GAP
\* 12: publish_finding_finalized_event).
FindingsAnnounced ==
    \A f \in Finding : f \in due ~> (f \in sent \/ f \notin due \/ faulty)
=============================================================================
