--------------------------- MODULE InternalReview ---------------------------
(***************************************************************************)
(* The records that are reviewed in GRC itself, without a workflow plan:   *)
(* quarterly reports, risk assessments, risk control matrices, surveys and *)
(* meetings.  Each has a status table, is editable up to some status, and  *)
(* has items that the table or the reviewers ask for: linked audit         *)
(* reports, evidence, entries, minutes.                                    *)
(*                                                                         *)
(* Requests of the web workers overlap.  Each reads the row, checks it and *)
(* writes later: the columns it changes (update_fields), the whole row as  *)
(* it was read (PUT, PATCH), or rows of another table (links, entries).    *)
(* One record is modelled, of a kind that Init picks.                      *)
(***************************************************************************)
EXTENDS Naturals, Sequences

CONSTANTS
    Item,            \* what may be linked, attached, entered or minuted
    Worker,          \* the web workers
    ClientStatuses,  \* statuses that bodies of POST, PUT and PATCH carry
    None

Kind == {"quarterly_report", "risk_assessment", "control_matrix", "survey",
         "meeting"}

\* One record per kind of record:
\*   chain  the statuses that come one after the other
\*   side   the other statuses: before the chain, beside it
\*   moves  the pairs that the status table, or submit and review, allow
\*   edit   the statuses in which PUT and PATCH save the whole row
\*   drop   the statuses in which DELETE deactivates the row
\*   items  the statuses in which items are added and removed one by one
\*   gate   the statuses that are refused to a record without items
\*   inRow  the items are in the row itself, not in another table
QuarterlyReport ==
    LET unlocked == {"draft", "cia_review", "management_review",
                     "committee_review", "improvement_required", "approved"} IN
    [chain |-> <<"cia_review", "management_review", "committee_review",
                 "approved", "submitted_to_commission">>,
     side  |-> {"draft", "improvement_required"},
     moves |-> {<<"draft", "cia_review">>,
                <<"cia_review", "management_review">>, <<"cia_review", "draft">>,
                <<"management_review", "committee_review">>,
                <<"management_review", "improvement_required">>,
                <<"committee_review", "approved">>,
                <<"committee_review", "improvement_required">>,
                <<"improvement_required", "cia_review">>,
                <<"approved", "submitted_to_commission">>},
     edit  |-> unlocked,
     drop  |-> {"draft"},
     items |-> unlocked,
     gate  |-> {"management_review"},
     inRow |-> FALSE]

\* submit takes a draft to review and a reviewed assessment to approved;
\* review passes it or sends it back.
RiskAssessment ==
    LET unapproved == {"draft", "submitted", "reviewed"} IN
    [chain |-> <<"submitted", "reviewed", "approved">>,
     side  |-> {"draft"},
     moves |-> {<<"draft", "submitted">>, <<"reviewed", "approved">>,
                <<"submitted", "reviewed">>, <<"submitted", "draft">>},
     edit  |-> unapproved,
     drop  |-> unapproved,
     items |-> unapproved,
     gate  |-> {},
     inRow |-> TRUE]

RiskControlMatrix ==
    [chain |-> <<"submitted", "approved">>,
     side  |-> {"draft"},
     moves |-> {<<"draft", "submitted">>, <<"submitted", "approved">>,
                <<"submitted", "draft">>},
     edit  |-> {"draft"},
     drop  |-> {"draft"},
     items |-> {"draft"},
     gate  |-> {"submitted"},
     inRow |-> FALSE]

AuditSurvey ==
    [chain |-> <<"completed">>,
     side  |-> {"draft"},
     moves |-> {<<"draft", "completed">>},
     edit  |-> {"draft"},
     drop  |-> {"draft"},
     items |-> {},
     gate  |-> {},
     inRow |-> FALSE]

\* The minutes are written by PUT and PATCH.
AuditMeeting ==
    [chain |-> <<"in_progress", "completed">>,
     side  |-> {"scheduled", "cancelled"},
     moves |-> {<<"scheduled", "in_progress">>, <<"scheduled", "cancelled">>,
                <<"in_progress", "completed">>, <<"in_progress", "cancelled">>},
     edit  |-> {"scheduled", "in_progress"},
     drop  |-> {"scheduled", "in_progress", "cancelled"},
     items |-> {},
     gate  |-> {"completed"},
     inRow |-> TRUE]

Rules == [quarterly_report |-> QuarterlyReport, risk_assessment |-> RiskAssessment,
          control_matrix |-> RiskControlMatrix, survey |-> AuditSurvey,
          meeting |-> AuditMeeting]

Elements(chain) == {chain[n] : n \in 1..Len(chain)}
StatusesOf(k) == Elements(Rules[k].chain) \union Rules[k].side
Status == UNION {StatusesOf(k) : k \in Kind}
First(k) == IF k = "meeting" THEN "scheduled" ELSE "draft"

ASSUME ConstantsAssumption ==
    /\ ClientStatuses \subseteq Status
    /\ None \notin Status \union Item

VARIABLES
    kind,      \* the kind of the record: the same for ever
    status,    \* the row: status,
    active,    \*          is_active,
    items,     \* and its items, in the row or in a table of their own
    was,       \* history: the statuses the record has had
    web        \* the request each worker is serving

record == <<status, active, items, was>>
vars == <<kind, record, web>>

\* What a request knows of the record: what it read.
View == [status : Status, active : BOOLEAN, items : SUBSET Item]
Now == [status |-> status, active |-> active, items |-> items]

Op == {"idle", "edit", "drop", "move", "attach", "detach", "consolidate"}
Request == [op : Op, copy : View, to : Status \union {None},
            item : Item \union {None}]
Idle == [op   |-> "idle", to |-> None, item |-> None,
         copy |-> [status |-> "draft", active |-> TRUE, items |-> {}]]

TypeOK ==
    /\ kind \in Kind
    /\ status \in Status
    /\ active \in BOOLEAN
    /\ items \subseteq Item
    /\ was \subseteq Status
    /\ web \in [Worker -> Request]

Rule == Rules[kind]

\* POST creates the row.  Minutes may come with it; evidence, links and
\* entries come later.
Init ==
    /\ kind \in Kind
    /\ status \in {First(kind)} \union (ClientStatuses \intersect StatusesOf(kind))
    /\ active = TRUE
    /\ items \in IF kind = "meeting" THEN SUBSET Item ELSE {{}}
    /\ was = {status}
    /\ web = [w \in Worker |-> Idle]

SetStatus(s) == status' = s /\ was' = was \union {s}

\* Worker w takes a request and passes its checks on what it reads now.
Begin(w, op, to, item) ==
    /\ web[w].op = "idle"
    /\ web' = [web EXCEPT ![w] = [op |-> op, to |-> to, item |-> item, copy |-> Now]]
    /\ UNCHANGED <<kind, record>>

\* Worker w answers the request op it began.
End(w, op) ==
    /\ web[w].op = op
    /\ web' = [web EXCEPT ![w] = Idle]
    /\ UNCHANGED kind

---------------------------------------------------------------------------
(* PUT, PATCH, DELETE.                                                     *)

\* Mutant of EditRead: locked records are edited too.
EditReadLocked(w) == Begin(w, "edit", None, None)

EditRead(w) ==
    /\ status \in Rule.edit
    /\ Begin(w, "edit", None, None)

\* The items an edit leaves in a row that was read with the items i.  A PUT
\* of an assessment without evidence_attachments saves the default, an empty
\* list; a list in the body is refused.  Minutes are a column like others.
WrittenItems(i) ==
    CASE kind = "risk_assessment" -> {i, {}}
      [] kind = "meeting"         -> SUBSET Item
      [] OTHER                    -> {i}

\* The statuses it leaves: a body has no say in a meeting in progress.
WrittenStatuses(s) ==
    IF kind = "meeting" /\ s = "in_progress" THEN {s}
    ELSE {s} \union (ClientStatuses \intersect StatusesOf(kind))

\* Every column is saved as it was read, but for what the body says.
EditSave(w) ==
    LET c == web[w].copy IN
    /\ End(w, "edit")
    /\ \E s \in WrittenStatuses(c.status) : SetStatus(s)
    /\ active' = c.active
    /\ IF Rule.inRow THEN items' \in WrittenItems(c.items) ELSE UNCHANGED items

DropRead(w) ==
    /\ status \in Rule.drop
    /\ Begin(w, "drop", None, None)

DropSave(w) ==
    /\ End(w, "drop")
    /\ active' = FALSE
    /\ UNCHANGED <<status, items, was>>

---------------------------------------------------------------------------
(* update-status; submit, review, approve, complete.                       *)

\* Mutants of MoveRead: the items are not asked for; a record already in
\* review is approved although it is not its turn.
MoveReadUngated(w, to) ==
    /\ <<status, to>> \in Rule.moves
    /\ Begin(w, "move", to, None)
MoveReadSkipping(w, to) ==
    /\ to \in Rule.gate => items # {}
    /\ \E s \in StatusesOf(kind) :
           <<status, s>> \in Rule.moves /\ (s = to \/ <<s, to>> \in Rule.moves)
    /\ Begin(w, "move", to, None)

MoveRead(w, to) ==
    /\ <<status, to>> \in Rule.moves
    /\ to \in Rule.gate => items # {}
    /\ Begin(w, "move", to, None)

MoveSave(w) ==
    /\ End(w, "move")
    /\ SetStatus(web[w].to)
    /\ UNCHANGED <<active, items>>

---------------------------------------------------------------------------
(* Evidence, entries, linked reports.                                      *)

\* Adding an item, or - an entry of a matrix, a link - writing one again.
\* Evidence is uploaded to the document service between the two steps.
AttachRead(w, i) ==
    /\ status \in Rule.items
    /\ Begin(w, "attach", None, i)

\* Mutant of AttachSave: evidence is added to the list read before the
\* upload.
AttachSaveStale(w) ==
    /\ End(w, "attach")
    /\ items' = web[w].copy.items \union {web[w].item}
    /\ UNCHANGED <<status, active, was>>

\* The evidence list is read again, FOR UPDATE; links and entries are rows
\* of their own.  An entry deleted meanwhile is inserted again.  Nobody looks
\* at the status again.
AttachSave(w) ==
    /\ End(w, "attach")
    /\ items' = items \union {web[w].item}
    /\ UNCHANGED <<status, active, was>>

\* Evidence is looked for in the list when it is saved, a link is removed
\* if it is there; an entry must be there.
DetachRead(w, i) ==
    /\ status \in Rule.items
    /\ kind = "control_matrix" => i \in items
    /\ Begin(w, "detach", None, i)

DetachSave(w) ==
    /\ End(w, "detach")
    /\ items' = items \ {web[w].item}
    /\ UNCHANGED <<status, active, was>>

\* A quarterly report gathers the approved audit reports of its quarter.
ConsolidateRead(w) ==
    /\ kind = "quarterly_report"
    /\ status \in Rule.items
    /\ Begin(w, "consolidate", None, None)

\* The query for them is made again when the links are set: whatever it
\* finds then replaces them, in one transaction with the figures.
ConsolidateSave(w) ==
    /\ End(w, "consolidate")
    /\ items' \in SUBSET Item
    /\ UNCHANGED <<status, active, was>>

\* The request dies, or its write fails.
Abandon(w) ==
    /\ web[w].op # "idle"
    /\ web' = [web EXCEPT ![w] = Idle]
    /\ UNCHANGED <<kind, record>>

Write(w) ==
    \/ EditSave(w) \/ DropSave(w) \/ MoveSave(w)
    \/ AttachSave(w) \/ DetachSave(w) \/ ConsolidateSave(w)

Step(w) ==
    \/ EditRead(w) \/ DropRead(w) \/ ConsolidateRead(w)
    \/ \E s \in StatusesOf(kind) : MoveRead(w, s)
    \/ \E i \in Item : AttachRead(w, i) \/ DetachRead(w, i)
    \/ Write(w)
    \/ Abandon(w)

Next == \E w \in Worker : Step(w)

Spec == Init /\ [][Next]_vars

---------------------------------------------------------------------------
(* Properties.                                                             *)

\* The statuses come one after the other, whatever overlaps: no quarterly
\* report is approved that no committee reviewed, no assessment that was not
\* reviewed, no meeting completed that never began (the status tables of the
\* four views, under saves that bring back old statuses).
PhasesOf(k) ==
    [r \in {k} |-> IF kind = k THEN was \intersect Elements(Rules[k].chain) ELSE {}]
Quarterly == INSTANCE LifecycleContract WITH
    Item  <- {"quarterly_report"}, Chain <- QuarterlyReport.chain,
    been  <- PhasesOf("quarterly_report")
Assessment == INSTANCE LifecycleContract WITH
    Item  <- {"risk_assessment"}, Chain <- RiskAssessment.chain,
    been  <- PhasesOf("risk_assessment")
Matrix == INSTANCE LifecycleContract WITH
    Item  <- {"control_matrix"}, Chain <- RiskControlMatrix.chain,
    been  <- PhasesOf("control_matrix")
Meeting == INSTANCE LifecycleContract WITH
    Item  <- {"meeting"}, Chain <- AuditMeeting.chain,
    been  <- PhasesOf("meeting")
ImplementsContract ==
    Quarterly!Spec /\ Assessment!Spec /\ Matrix!Spec /\ Meeting!Spec

\* A record is closed at the end of its chain, and a matrix while it is with
\* the reviewers: no handler finds it as it must be to change it.
Closed(s) == s \notin Rule.edit \union Rule.drop \union Rule.items

\* Nothing changes in a closed record - no row that is saved, no item that
\* is added or removed - but by a request that read it before it was closed,
\* or by the review itself ("Cannot add evidence to an approved assessment",
\* "Report ... is locked", "Entries can only be edited in draft RCMs").
ClosedChangesAreStale ==
    [][Closed(status) /\ UNCHANGED kind /\ Now' # Now =>
          \E w \in Worker :
             /\ web[w].op # "idle" /\ web'[w].op = "idle"
             /\ \/ ~Closed(web[w].copy.status)
                \/ web[w].op = "move"]_vars

\* No item is lost to somebody else's request: it goes when it is detached
\* itself, when a consolidation finds other reports, or when a whole row is
\* saved; two uploads at a time both stay ("Re-read to avoid lost updates").
ItemsKept ==
    [][\A i \in items \ items' :
          \E w \in Worker :
             /\ web'[w].op = "idle"
             /\ \/ web[w].op = "detach" /\ web[w].item = i
                \/ web[w].op \in {"edit", "consolidate"}]_items

\* A record that came past its gate has something to show: a submitted
\* matrix its entries, a completed meeting its minutes.  One that has nothing
\* came to it by a request whose reading was out of date.  (The links of a
\* quarterly report may be taken away until it is submitted.)
Hollow ==
    /\ items = {}
    /\ kind \in {"control_matrix", "meeting"}
    /\ status \notin Rule.edit \union {"cancelled"}
OnlyStaleRequestsHollow ==
    [][Hollow' /\ ~Hollow =>
          \E w \in Worker :
             web[w].op # "idle" /\ web'[w].op = "idle" /\ web[w].copy # Now]_vars
=============================================================================
