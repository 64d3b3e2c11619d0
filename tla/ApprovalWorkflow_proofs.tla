---------------------- MODULE ApprovalWorkflow_proofs ----------------------
(***************************************************************************)
(* Theorems about ApprovalWorkflow, for every set of records, workers and  *)
(* plans.                                                                  *)
(***************************************************************************)
EXTENDS ApprovalWorkflow, TLAPS

---------------------------------------------------------------------------
(* The kinds' rules.                                                       *)

\* Every kind starts review in a status of its own choices that is neither
\* the final one nor a draft.
LEMMA RuleFacts ==
    ASSUME NEW e \in Entity
    PROVE  /\ Rule(e).start \in Status \ {"approved", "deleted", "draft", "reviewed"}
           /\ Rule(e).statuses \subseteq Status
  <1>1. KindOf[e] \in Kind
    BY ConstantsAssumption
  <1>2. ASSUME NEW k \in Kind
        PROVE  /\ Rules[k].start \in Rules[k].statuses \ {"approved", "deleted", "draft", "reviewed"}
               /\ "draft" \in Rules[k].statuses /\ "approved" \in Rules[k].statuses
    BY DEF Kind, Rules, WorkingPaper, AuditUniverse, AuditPlan, AuditMemo, AuditProgram
  <1>3. \A k \in Kind : Rules[k].statuses \subseteq Status
    BY DEF Status
  <1> QED
    BY <1>1, <1>2, <1>3 DEF Rule

\* The statuses the actions write.
LEMMA StatusFacts ==
    {"draft", "approved", "reviewed", "deleted"} \subseteq Status
  <1>1. "working_paper" \in Kind
    BY DEF Kind
  <1>2. {"draft", "approved", "reviewed"} \subseteq Rules["working_paper"].statuses
    BY DEF Rules, WorkingPaper
  <1> QED
    BY <1>1, <1>2 DEF Status

\* A decision turns a row into a row; only an approval makes it approved,
\* and no decision touches the reviewer.
LEMMA DecisionFacts ==
    ASSUME NEW e \in Entity, NEW r \in Row, NEW d \in Decision
    PROVE  LET s == OnDecision(KindOf[e], r, d) IN
           /\ s \in Row
           /\ s.reviewed = r.reviewed
           /\ (s.status = "approved") <=> (d = "approved")
           /\ s.status \in {"approved", "draft", "reviewed"}
           /\ s.plan \in {r.plan, None}
           /\ d = "approved" => s.plan = r.plan
  <1>1. KindOf[e] \in Kind
    BY ConstantsAssumption
  <1>2. /\ "draft" \in Status /\ "approved" \in Status /\ "reviewed" \in Status
    BY StatusFacts
  <1>3. d \in {"approved", "rejected", "cancelled"}
    BY DEF Decision
  <1>4. /\ r.status \in Status /\ r.plan \in Plan \union {None} /\ r.reviewed \in BOOLEAN
        /\ r = [status |-> r.status, plan |-> r.plan, reviewed |-> r.reviewed]
    BY DEF Row
  <1>5. CASE KindOf[e] = "working_paper"
    BY <1>2, <1>3, <1>4, <1>5 DEF OnDecision, OnWorkingPaper, Row
  <1>6. CASE KindOf[e] # "working_paper"
    <2>1. OnDecision(KindOf[e], r, d) = OnAuditUniverse(r, d)
      BY <1>1, <1>6 DEF OnDecision, OnAuditPlan, OnAuditMemo, OnAuditProgram, Kind
    <2> QED
      BY <1>2, <1>3, <1>4, <2>1 DEF OnAuditUniverse, Row
  <1> QED
    BY <1>5, <1>6

---------------------------------------------------------------------------
(* Type correctness.                                                       *)

\* Ending a request leaves well-typed workers and locks.
LEMMA FinishType ==
    ASSUME TypeOK, NEW w \in Worker, Finish(w)
    PROVE  /\ web' \in [Worker -> Request]
           /\ lock' \in [Entity -> Worker \union {None}]
  <1>1. NewRow \in Row
    BY StatusFacts DEF NewRow, Row
  <1>2. Idle \in Request
    BY <1>1 DEF Idle, Request
  <1> QED
    BY <1>2 DEF Finish, TypeOK

\* Every step of the specification keeps every variable well typed.
LEMMA TypeStep == TypeOK /\ [Next]_vars => TypeOK'
  <1> SUFFICES ASSUME TypeOK, [Next]_vars
               PROVE  TypeOK'
    OBVIOUS
  <1>r. NewRow \in Row /\ Idle \in Request
    BY StatusFacts DEF NewRow, Row, Idle, Request
  <1>1. ASSUME NEW w \in Worker, NEW e \in Entity,
               SubmitRead(w, e) \/ SubmitUnlocked(w, e)
        PROVE  TypeOK'
    <2>0. ASSUME NEW c \in {"waiting", "calling"}
          PROVE  [Idle EXCEPT !.pc = c, !.entity = e] \in Request
      BY <1>r DEF Idle, Request
    <2>1. web' \in [Worker -> Request]
      BY <1>1, <2>0 DEF SubmitRead, SubmitUnlocked, TypeOK
    <2> QED
      BY <1>1, <2>1 DEF SubmitRead, SubmitUnlocked, TypeOK
  <1>2. ASSUME NEW w \in Worker, SubmitLock(w)
        PROVE  TypeOK'
    <2>1. CASE Finish(w)
      BY <1>2, <2>1, FinishType DEF SubmitLock, TypeOK
    <2>2. CASE ~Finish(w)
      <3>0. [web[w] EXCEPT !.pc = "calling"] \in Request
        BY DEF TypeOK, Request
      <3>1. web' \in [Worker -> Request]
        BY <1>2, <2>2, <3>0 DEF SubmitLock, TypeOK
      <3>2. lock' \in [Entity -> Worker \union {None}]
        BY <1>2, <2>2 DEF SubmitLock, TypeOK
      <3> QED
        BY <1>2, <3>1, <3>2 DEF SubmitLock, TypeOK
    <2> QED
      BY <2>1, <2>2
  <1>3. ASSUME NEW w \in Worker, NEW p \in Plan, CreatePlan(w, p)
        PROVE  TypeOK'
    <2>1. web[w].entity \in Entity \union {None}
      BY DEF TypeOK, Request
    <2>2. wo' \in [Plan -> WOPlan]
      BY <1>3, <2>1 DEF CreatePlan, TypeOK, WOPlan
    <2>3. web' \in [Worker -> Request]
      <3>1. [web[w] EXCEPT !.pc = "created", !.plan = p] \in Request
        BY DEF TypeOK, Request
      <3>2. web' = [web EXCEPT ![w] = [web[w] EXCEPT !.pc = "created", !.plan = p]]
        BY <1>3 DEF CreatePlan, TypeOK
      <3> QED
        BY <3>1, <3>2 DEF TypeOK
    <2> QED
      BY <1>3, <2>2, <2>3 DEF CreatePlan, TypeOK
  <1>4. ASSUME NEW w \in Worker, CallFails(w) \/ Abandon(w)
        PROVE  TypeOK'
    BY <1>4, FinishType DEF CallFails, Abandon, TypeOK
  <1>5. ASSUME NEW w \in Worker, SubmitSave(w)
        PROVE  TypeOK'
    <2>1. web[w].plan \in Plan \union {None}
      BY DEF TypeOK, Request
    <2>2. row' \in [Entity -> Row]
      <3>1. ASSUME NEW e \in Entity
            PROVE  row'[e] \in Row
        BY <1>5, <2>1, RuleFacts DEF SubmitSave, TypeOK, Row
      <3> QED
        BY <1>5, <3>1 DEF SubmitSave, TypeOK
    <2> QED
      BY <1>5, <2>2, FinishType DEF SubmitSave, TypeOK
  <1>6. ASSUME NEW p \in Plan, NEW d \in Decision, WODecide(p, d)
        PROVE  TypeOK'
    <2>1. wo' \in [Plan -> WOPlan]
      BY <1>6 DEF WODecide, TypeOK, WOPlan
    <2>2. log' \in Seq(Event) /\ Len(log') = Len(log) + 1
      BY <1>6 DEF WODecide, TypeOK, Event
    <2> QED
      BY <1>6, <2>1, <2>2 DEF WODecide, TypeOK
  <1>7. CASE Consume
    <2> DEFINE ev == log[pos + 1]
               e  == wo[ev.plan].subject
    <2>0. /\ pos' \in 0..Len(log') /\ committed' \in 0..pos'
          /\ log' \in Seq(Event) /\ wo' = wo /\ web' = web /\ lock' = lock
      BY <1>7 DEF Consume, TypeOK
    <2>1. ev \in Event
      BY <1>7 DEF Consume, TypeOK
    <2>2. CASE row' = row
      BY <2>0, <2>2 DEF TypeOK
    <2>3. CASE row' = [row EXCEPT ![e] = OnDecision(KindOf[e], @, ev.decision)]
      <3>1. row' \in [Entity -> Row]
        <4>1. ASSUME NEW f \in Entity
              PROVE  row'[f] \in Row
          <5>1. row[f] \in Row /\ ev.decision \in Decision
            BY <2>1 DEF TypeOK, Event
          <5> QED
            BY <2>3, <5>1, DecisionFacts DEF TypeOK
        <4> QED
          BY <2>3, <4>1 DEF TypeOK
      <3> QED
        BY <2>0, <3>1 DEF TypeOK
    <2> QED
      BY <1>7, <2>2, <2>3 DEF Consume
  <1>8. CASE Restarts \/ ConsumeFails
    BY <1>8 DEF Restarts, CommitOffset, ConsumerRestart, ConsumeFails, TypeOK
  <1>9. ASSUME NEW w \in Worker, NEW e \in Entity, EditRead(w, e) \/ DeleteRead(w, e)
        PROVE  TypeOK'
    <2>1. row[e] \in Row
      BY DEF TypeOK
    <2>0. /\ [Idle EXCEPT !.pc = "editing", !.entity = e, !.copy = row[e]] \in Request
          /\ [Idle EXCEPT !.pc = "deleting", !.entity = e] \in Request
      BY <1>r, <2>1 DEF Idle, Request
    <2>2. web' \in [Worker -> Request]
      BY <1>9, <2>0 DEF EditRead, DeleteRead, TypeOK
    <2> QED
      BY <1>9, <2>2 DEF EditRead, DeleteRead, TypeOK
  <1>10. ASSUME NEW w \in Worker, EditSave(w)
         PROVE  TypeOK'
    <2>1. web[w].copy \in Row
      BY DEF TypeOK, Request
    <2>2. row' \in [Entity -> Row]
      <3>1. ASSUME NEW e \in Entity
            PROVE  row'[e] \in Row
        BY <1>10, <2>1, RuleFacts DEF EditSave, TypeOK, Row
      <3> QED
        BY <1>10, <3>1 DEF EditSave, TypeOK
    <2> QED
      BY <1>10, <2>2, FinishType DEF EditSave, TypeOK
  <1>11. ASSUME NEW w \in Worker, DeleteRow(w)
         PROVE  TypeOK'
    <2>1. [NewRow EXCEPT !.status = "deleted"] \in Row
      BY StatusFacts DEF NewRow, Row
    <2> QED
      BY <1>11, <2>1, FinishType DEF DeleteRow, TypeOK
  <1>12. ASSUME NEW e \in Entity, NEW s \in {"approved", "reviewed"}, RecordReview(e, s)
         PROVE  TypeOK'
    <2>1. row' \in [Entity -> Row]
      BY <1>12, StatusFacts DEF RecordReview, TypeOK, Row
    <2> QED
      BY <1>12, <2>1 DEF RecordReview, TypeOK
  <1>13. CASE UNCHANGED vars
    BY <1>13 DEF vars, TypeOK
  <1> QED
    BY <1>1, <1>2, <1>3, <1>4, <1>5, <1>6, <1>7, <1>8, <1>9, <1>10, <1>11, <1>12, <1>13
       DEF Next, Core, SubmitStep, Faults, Edits

LEMMA TypeCorrectInit == Init => TypeOK
  <1>1. NewRow \in Row /\ Idle \in Request
    BY StatusFacts DEF NewRow, Row, Idle, Request
  <1> QED
    BY <1>1 DEF Init, TypeOK, WOPlan

\* The rows, locks, requests, plans, topic and offsets keep their types in
\* every behaviour, faults and edits included.
THEOREM TypeCorrect == Spec => []TypeOK
  <1> QED
    BY TypeCorrectInit, TypeStep, PTL DEF Spec

---------------------------------------------------------------------------
(* Approvals can be attributed.                                            *)

Attributed(e, r) ==
    r.status = "approved" =>
        ApprovedByWO(e) \/ (KindOf[e] = "working_paper" /\ r.reviewed)

\* ApprovalAttributable is not inductive: an edit writes back the copy it
\* read, and the consumer trusts the topic.  So copies are attributed too,
\* and an event says what WO decided.
RowsAttributed == \A e \in Entity : Attributed(e, row[e])

CopiesAttributed ==
    \A w \in Worker : web[w].pc = "editing" => Attributed(web[w].entity, web[w].copy)

RequestsHaveRecord == \A w \in Worker : web[w].pc # "idle" => web[w].entity \in Entity

PlansHaveRecord == \A p \in Plan : wo[p].state # "unused" => wo[p].subject \in Entity

EventsTrue == \A i \in 1..Len(log) : log[i].decision = wo[log[i].plan].state

AttributionInv ==
    /\ TypeOK
    /\ RowsAttributed
    /\ CopiesAttributed
    /\ RequestsHaveRecord
    /\ PlansHaveRecord
    /\ EventsTrue

\* WO's plans only move forward: an approval stays an approval of the same
\* record.
LEMMA ApprovalsStay ==
    ASSUME TypeOK, [Next]_vars, NEW e \in Entity, ApprovedByWO(e)
    PROVE  ApprovedByWO(e)'
  <1>1. PICK p \in Plan : wo[p].subject = e /\ wo[p].state = "approved"
    BY DEF ApprovedByWO, PlansOf
  <1>2. CASE wo' = wo
    BY <1>1, <1>2 DEF ApprovedByWO, PlansOf
  <1>3. ASSUME NEW w \in Worker, NEW q \in Plan, CreatePlan(w, q)
        PROVE  wo'[p] = wo[p]
    BY <1>1, <1>3 DEF CreatePlan, TypeOK
  <1>4. ASSUME NEW q \in Plan, NEW d \in Decision, WODecide(q, d)
        PROVE  wo'[p] = wo[p]
    BY <1>1, <1>4 DEF WODecide, TypeOK
  <1>5. wo' = wo \/ wo'[p] = wo[p]
    BY <1>3, <1>4
       DEF Next, Core, SubmitStep, Faults, Restarts, Edits, SubmitRead, SubmitUnlocked,
           SubmitLock, CallFails, SubmitSave, Consume, Abandon, CommitOffset,
           ConsumerRestart, ConsumeFails, EditRead, DeleteRead, EditSave, DeleteRow,
           RecordReview, vars
  <1> QED
    BY <1>1, <1>2, <1>5 DEF ApprovedByWO, PlansOf

\* What one step does to one request: it ends, takes up a record, copies the
\* row of a record, or goes on with its record.
LEMMA RequestStep ==
    ASSUME TypeOK, [Next]_vars, NEW w \in Worker
    PROVE  \/ web'[w] = web[w]
           \/ web'[w].pc = "idle"
           \/ web'[w].entity \in Entity /\ web'[w].pc # "editing"
           \/ /\ web'[w].entity \in Entity /\ web'[w].pc = "editing"
              /\ web'[w].copy = row[web'[w].entity]
           \/ /\ web'[w].entity = web[w].entity /\ web[w].pc # "idle"
              /\ web'[w].pc # "editing"
  <1> DEFINE Goal == \/ web'[w] = web[w]
                     \/ web'[w].pc = "idle"
                     \/ web'[w].entity \in Entity /\ web'[w].pc # "editing"
                     \/ /\ web'[w].entity \in Entity /\ web'[w].pc = "editing"
                        /\ web'[w].copy = row[web'[w].entity]
                     \/ /\ web'[w].entity = web[w].entity /\ web[w].pc # "idle"
                        /\ web'[w].pc # "editing"
  <1> SUFFICES Goal
    OBVIOUS
  <1>1. ASSUME NEW v \in Worker, Finish(v)
        PROVE  Goal
    BY <1>1 DEF Finish, Idle, TypeOK
  <1>2. ASSUME NEW v \in Worker, NEW e \in Entity,
               SubmitRead(v, e) \/ SubmitUnlocked(v, e) \/ EditRead(v, e) \/ DeleteRead(v, e)
        PROVE  Goal
    <2>1. \E pc \in {"waiting", "calling", "deleting"} :
             web' = [web EXCEPT ![v] = [Idle EXCEPT !.pc = pc, !.entity = e]]
          \/ web' = [web EXCEPT ![v] = [Idle EXCEPT !.pc = "editing", !.entity = e,
                                                   !.copy = row[e]]]
      BY <1>2 DEF SubmitRead, SubmitUnlocked, EditRead, DeleteRead
    <2>2. CASE web' = [web EXCEPT ![v] = [Idle EXCEPT !.pc = "editing", !.entity = e,
                                                   !.copy = row[e]]]
      BY <2>2 DEF Idle, TypeOK
    <2>3. ASSUME NEW pc \in {"waiting", "calling", "deleting"},
                 web' = [web EXCEPT ![v] = [Idle EXCEPT !.pc = pc, !.entity = e]]
          PROVE  Goal
      BY <2>3 DEF Idle, TypeOK
    <2> QED
      BY <2>1, <2>2, <2>3
  <1>3. ASSUME NEW v \in Worker, SubmitLock(v)
        PROVE  Goal
    BY <1>1, <1>3 DEF SubmitLock, TypeOK, Request
  <1>4. ASSUME NEW v \in Worker, NEW p \in Plan, CreatePlan(v, p)
        PROVE  Goal
    BY <1>4 DEF CreatePlan, TypeOK, Request
  <1>5. ASSUME NEW v \in Worker,
               CallFails(v) \/ SubmitSave(v) \/ Abandon(v) \/ EditSave(v) \/ DeleteRow(v)
        PROVE  Goal
    BY <1>1, <1>5 DEF CallFails, SubmitSave, Abandon, EditSave, DeleteRow
  <1>6. ASSUME web' = web
        PROVE  Goal
    BY <1>6
  <1> QED
    BY <1>2, <1>3, <1>4, <1>5, <1>6
       DEF Next, Core, SubmitStep, Faults, Restarts, Edits, WODecide, Consume, CommitOffset,
           ConsumerRestart, ConsumeFails, RecordReview, vars

\* What one step does to one row, seen from the approvals: the row keeps
\* what it had, is not approved, is approved under a reviewer's name, on WO's
\* word, or as the copy that an edit read.
LEMMA RowStep ==
    ASSUME AttributionInv, [Next]_vars, NEW e \in Entity,
           "approved" \notin ClientStatuses
    PROVE  \/ row'[e] = row[e]
           \/ row'[e].status # "approved"
           \/ KindOf[e] = "working_paper" /\ row'[e].reviewed
           \/ ApprovedByWO(e)
           \/ \E w \in Worker : /\ web[w].pc = "editing" /\ web[w].entity = e
                                 /\ row'[e] = web[w].copy
  <1> DEFINE Goal == \/ row'[e] = row[e]
                     \/ row'[e].status # "approved"
                     \/ KindOf[e] = "working_paper" /\ row'[e].reviewed
                     \/ ApprovedByWO(e)
                     \/ \E w \in Worker : /\ web[w].pc = "editing" /\ web[w].entity = e
                                           /\ row'[e] = web[w].copy
  <1> SUFFICES Goal
    OBVIOUS
  <1>t. TypeOK
    BY DEF AttributionInv
  <1>1. ASSUME NEW w \in Worker, SubmitSave(w)
        PROVE  Goal
    BY <1>t, <1>1, RuleFacts DEF SubmitSave, TypeOK, Row
  <1>2. CASE Consume
    <2> DEFINE ev == log[pos + 1]
               f  == wo[ev.plan].subject
    <2>1. /\ pos + 1 \in 1..Len(log) /\ ev \in Event /\ row[e] \in Row
      BY <1>t, <1>2 DEF Consume, TypeOK
    <2>2. ev.plan \in Plan /\ ev.decision \in Decision /\ ev.decision = wo[ev.plan].state
      BY <2>1 DEF AttributionInv, EventsTrue, Event
    <2>3. \/ row'[e] = row[e]
          \/ e = f /\ row'[e] = OnDecision(KindOf[e], row[e], ev.decision)
      BY <1>t, <1>2 DEF Consume, TypeOK
    <2>4. CASE e = f /\ ev.decision = "approved"
      BY <2>2, <2>4 DEF ApprovedByWO, PlansOf
    <2>5. CASE e = f /\ ev.decision # "approved" /\ row'[e] = OnDecision(KindOf[e], row[e], ev.decision)
      <3>1. row'[e].status # "approved"
        BY <2>1, <2>2, <2>5, DecisionFacts
      <3> QED
        BY <3>1
    <2> QED
      BY <2>3, <2>4, <2>5
  <1>3. ASSUME NEW w \in Worker, EditSave(w)
        PROVE  Goal
    <2>1. web[w].copy \in Row
      BY <1>t DEF TypeOK, Request
    <2>2. PICK s \in {web[w].copy.status} \union (ClientStatuses \intersect Rule(web[w].entity).statuses) :
             row' = [row EXCEPT ![web[w].entity] = [web[w].copy EXCEPT !.status = s]]
      BY <1>3 DEF EditSave
    <2>3. CASE e # web[w].entity
      BY <1>t, <2>2, <2>3 DEF TypeOK
    <2>4. CASE e = web[w].entity /\ s = web[w].copy.status
      <3>1. row'[e] = [web[w].copy EXCEPT !.status = s]
        BY <1>t, <2>2, <2>4 DEF TypeOK
      <3>2. row'[e] = web[w].copy
        BY <2>1, <2>4, <3>1 DEF Row
      <3> QED
        BY <1>3, <2>4, <3>2 DEF EditSave
    <2>5. CASE e = web[w].entity /\ s \in ClientStatuses
      BY <1>t, <2>1, <2>2, <2>5 DEF TypeOK, Row
    <2> QED
      BY <2>3, <2>4, <2>5
  <1>4. ASSUME NEW w \in Worker, DeleteRow(w)
        PROVE  Goal
    BY <1>t, <1>4 DEF DeleteRow, NewRow, TypeOK
  <1>5. ASSUME NEW f \in Entity, NEW s \in {"approved", "reviewed"}, RecordReview(f, s)
        PROVE  Goal
    BY <1>t, <1>5 DEF RecordReview, TypeOK, Row
  <1>6. ASSUME row' = row
        PROVE  Goal
    BY <1>6
  <1> QED
    BY <1>1, <1>2, <1>3, <1>4, <1>5, <1>6
       DEF Next, Core, SubmitStep, Faults, Restarts, Edits, SubmitRead, SubmitUnlocked,
           SubmitLock, CreatePlan, CallFails, WODecide, Abandon, CommitOffset,
           ConsumerRestart, ConsumeFails, EditRead, DeleteRead, vars

\* WO publishes what it decided, and decides once.
LEMMA EventStep ==
    ASSUME TypeOK, RequestsHaveRecord, PlansHaveRecord, EventsTrue, [Next]_vars
    PROVE  PlansHaveRecord' /\ EventsTrue'
  <1>1. ASSUME NEW w \in Worker, NEW p \in Plan, CreatePlan(w, p)
        PROVE  PlansHaveRecord' /\ EventsTrue'
    <2>1. web[w].entity \in Entity
      BY <1>1 DEF CreatePlan, RequestsHaveRecord
    <2>2. PlansHaveRecord'
      BY <1>1, <2>1 DEF CreatePlan, PlansHaveRecord, TypeOK
    <2>3. ASSUME NEW i \in 1..Len(log')
          PROVE  log'[i].decision = wo'[log'[i].plan].state
      <3>1. log' = log /\ log[i] \in Event
        BY <1>1, <2>3 DEF CreatePlan, TypeOK
      <3>2. log[i].decision = wo[log[i].plan].state /\ log[i].plan \in Plan
            /\ log[i].decision \in Decision
        BY <2>3, <3>1 DEF EventsTrue, Event
      <3>3. log[i].plan # p
        BY <1>1, <3>2 DEF CreatePlan, Decision
      <3> QED
        BY <1>1, <3>1, <3>2, <3>3 DEF CreatePlan, TypeOK
    <2> QED
      BY <2>2, <2>3 DEF EventsTrue
  <1>2. ASSUME NEW p \in Plan, NEW d \in Decision, WODecide(p, d)
        PROVE  PlansHaveRecord' /\ EventsTrue'
    <2>1. PlansHaveRecord'
      BY <1>2 DEF WODecide, PlansHaveRecord, TypeOK, WOPlan
    <2>2. ASSUME NEW i \in 1..Len(log')
          PROVE  log'[i].decision = wo'[log'[i].plan].state
      <3> DEFINE ev == [plan |-> p, decision |-> d]
      <3>0. /\ log \in Seq(Event) /\ ev \in Event /\ log' = Append(log, ev)
            /\ wo'[p].state = d
        BY <1>2 DEF WODecide, TypeOK, Event, WOPlan
      <3>1. CASE i = Len(log) + 1
        BY <3>0, <3>1
      <3>2. CASE i \in 1..Len(log)
        <4>1. log'[i] = log[i] /\ log[i] \in Event
          BY <3>0, <3>2
        <4>2. log[i].decision = wo[log[i].plan].state /\ log[i].plan \in Plan
              /\ log[i].decision \in Decision
          BY <3>2, <4>1 DEF EventsTrue, Event
        <4>3. log[i].plan # p
          BY <1>2, <4>2 DEF WODecide, Decision
        <4> QED
          BY <1>2, <4>1, <4>2, <4>3 DEF WODecide, TypeOK
      <3> QED
        BY <2>2, <3>0, <3>1, <3>2
    <2> QED
      BY <2>1, <2>2 DEF EventsTrue
  <1>3. ASSUME wo' = wo, log' = log
        PROVE  PlansHaveRecord' /\ EventsTrue'
    BY <1>3 DEF PlansHaveRecord, EventsTrue
  <1> QED
    BY <1>1, <1>2, <1>3
       DEF Next, Core, SubmitStep, Faults, Restarts, Edits, SubmitRead, SubmitUnlocked,
           SubmitLock, CallFails, SubmitSave, Consume, Abandon, CommitOffset,
           ConsumerRestart, ConsumeFails, EditRead, DeleteRead, EditSave, DeleteRow,
           RecordReview, vars

LEMMA AttributionStep ==
    ASSUME AttributionInv, [Next]_vars, "approved" \notin ClientStatuses
    PROVE  AttributionInv'
  <1>t. TypeOK /\ TypeOK'
    BY TypeStep DEF AttributionInv
  <1>1. RowsAttributed'
    <2> SUFFICES ASSUME NEW e \in Entity, row'[e].status = "approved"
                 PROVE  ApprovedByWO(e)' \/ (KindOf[e] = "working_paper" /\ row'[e].reviewed)
      BY DEF RowsAttributed, Attributed
    <2>1. ApprovedByWO(e) => ApprovedByWO(e)'
      BY <1>t, ApprovalsStay
    <2>2. Attributed(e, row[e])
      BY DEF AttributionInv, RowsAttributed
    <2>3. \A w \in Worker : web[w].pc = "editing" /\ web[w].entity = e => Attributed(e, web[w].copy)
      BY DEF AttributionInv, CopiesAttributed
    <2> QED
      BY <2>1, <2>2, <2>3, RowStep DEF Attributed
  <1>2. CopiesAttributed'
    <2> SUFFICES ASSUME NEW w \in Worker, web'[w].pc = "editing",
                        NEW e, e = web'[w].entity
                 PROVE  web'[w].copy.status = "approved" =>
                            ApprovedByWO(e)' \/ (KindOf[e] = "working_paper" /\ web'[w].copy.reviewed)
      BY DEF CopiesAttributed, Attributed, ApprovedByWO, PlansOf
    <2>1. CASE web'[w] = web[w]
      <3>1. e \in Entity /\ Attributed(e, web[w].copy)
        BY <2>1 DEF AttributionInv, CopiesAttributed, RequestsHaveRecord
      <3>2. ApprovedByWO(e) => ApprovedByWO(e)'
        BY <1>t, <3>1, ApprovalsStay
      <3> QED
        BY <2>1, <3>1, <3>2 DEF Attributed
    <2>2. CASE e \in Entity /\ web'[w].copy = row[e]
      <3>1. Attributed(e, row[e])
        BY <2>2 DEF AttributionInv, RowsAttributed
      <3>2. ApprovedByWO(e) => ApprovedByWO(e)'
        BY <1>t, <2>2, ApprovalsStay
      <3> QED
        BY <2>2, <3>1, <3>2 DEF Attributed
    <2> QED
      BY <1>t, <2>1, <2>2, RequestStep
  <1>3. RequestsHaveRecord'
    BY <1>t, RequestStep DEF AttributionInv, RequestsHaveRecord
  <1> QED
    BY <1>t, <1>1, <1>2, <1>3, EventStep DEF AttributionInv

\* When the bodies of PUT and PATCH never carry "approved", an approved row
\* was approved by WO for that record or, a working paper, by a reviewer on
\* record - through stale saves, lost answers, replays and restarts.
THEOREM ApprovalsAttributable ==
    ASSUME "approved" \notin ClientStatuses
    PROVE  Spec => []ApprovalAttributable
  <1>1. Init => AttributionInv
    <2> QED
      BY TypeCorrectInit DEF Init, AttributionInv, RowsAttributed, Attributed, CopiesAttributed,
                  RequestsHaveRecord, PlansHaveRecord, EventsTrue, NewRow, Idle
  <1>2. AttributionInv /\ [Next]_vars => AttributionInv'
    BY AttributionStep
  <1>3. AttributionInv => ApprovalAttributable
    BY DEF AttributionInv, RowsAttributed, Attributed, ApprovalAttributable
  <1> QED
    BY <1>1, <1>2, <1>3, PTL DEF Spec

---------------------------------------------------------------------------
(* A submission never goes over a plan on record.                          *)

\* Between the lock and the save of a submission the row is the worker's,
\* and has no plan.
LockHeld ==
    \A w \in Worker :
        web[w].pc \in {"calling", "created"} /\ Locks(web[w].entity)
        => lock[web[w].entity] = w /\ row[web[w].entity].plan = None

LockInv == TypeOK /\ RequestsHaveRecord /\ LockHeld

\* While a worker holds the lock of a row, nobody else writes the row or
\* takes the lock.
LEMMA OthersKeepOut ==
    ASSUME LockInv, [Next]_vars, NEW w \in Worker, NEW e \in Entity, lock[e] = w,
           web'[w] = web[w], web[w].pc \in {"calling", "created"}, Locks(e),
           web[w].entity = e
    PROVE  lock'[e] = w /\ row'[e] = row[e]
  <1>t. TypeOK /\ w # None
    BY ConstantsAssumption DEF LockInv
  <1>1. ASSUME NEW v \in Worker, Finish(v)
        PROVE  lock'[e] = w
    <2>1. v # w
      BY <1>t, <1>1 DEF Finish, Idle, TypeOK
    <2> QED
      BY <1>1, <2>1 DEF Finish
  <1>2. ASSUME NEW v \in Worker, SubmitSave(v)
        PROVE  lock'[e] = w /\ row'[e] = row[e]
    <2>1. v # w
      BY <1>t, <1>2 DEF SubmitSave, Finish, Idle, TypeOK
    <2>2. web[v].entity # e
      BY <1>2, <2>1 DEF SubmitSave, LockInv, LockHeld
    <2> QED
      BY <1>t, <1>1, <1>2, <2>2 DEF SubmitSave, TypeOK
  <1>3. ASSUME NEW v \in Worker, SubmitLock(v)
        PROVE  lock'[e] = w /\ row'[e] = row[e]
    <2>1. lock[web[v].entity] = None /\ row' = row
      BY <1>3 DEF SubmitLock
    <2>2. CASE Finish(v)
      BY <1>1, <2>1, <2>2
    <2>3. CASE lock' = [lock EXCEPT ![web[v].entity] = v]
      BY <1>t, <2>1, <2>3 DEF TypeOK
    <2> QED
      BY <1>3, <2>2, <2>3 DEF SubmitLock
  <1>4. ASSUME NEW v \in Worker, EditSave(v) \/ DeleteRow(v)
        PROVE  lock'[e] = w /\ row'[e] = row[e]
    <2>1. Finish(v) /\ lock[web[v].entity] = None
      BY <1>4 DEF EditSave, DeleteRow
    <2>2. web[v].entity # e
      BY <1>t, <2>1
    <2>3. CASE EditSave(v)
      BY <1>t, <1>1, <2>1, <2>2, <2>3 DEF EditSave, TypeOK
    <2>4. CASE DeleteRow(v)
      BY <1>t, <1>1, <2>1, <2>2, <2>4 DEF DeleteRow, TypeOK
    <2> QED
      BY <1>4, <2>3, <2>4
  <1>5. ASSUME NEW f \in Entity, NEW s \in {"approved", "reviewed"}, RecordReview(f, s)
        PROVE  lock'[e] = w /\ row'[e] = row[e]
    BY <1>t, <1>5 DEF RecordReview, TypeOK
  <1>6. CASE Consume
    BY <1>t, <1>6 DEF Consume, TypeOK
  <1>7. ASSUME NEW v \in Worker, CallFails(v) \/ Abandon(v)
        PROVE  lock'[e] = w /\ row'[e] = row[e]
    BY <1>1, <1>7 DEF CallFails, Abandon
  <1>8. CASE UNCHANGED <<row, lock>>
    BY <1>8
  <1> QED
    BY <1>2, <1>3, <1>4, <1>5, <1>6, <1>7, <1>8
       DEF Next, Core, SubmitStep, Faults, Restarts, Edits, SubmitRead, SubmitUnlocked,
           CreatePlan, WODecide, CommitOffset, ConsumerRestart, ConsumeFails, EditRead,
           DeleteRead, vars

\* A worker comes to hold a lock by finding no plan on the row, and keeps it
\* through the call.
LEMMA CallerStep ==
    ASSUME LockInv, [Next]_vars, NEW w \in Worker,
           web'[w].pc \in {"calling", "created"}, Locks(web'[w].entity)
    PROVE  \/ web'[w] = web[w]
           \/ /\ web'[w].entity = web[w].entity /\ SubmitLock(w)
              /\ lock'[web[w].entity] = w /\ row[web[w].entity].plan = None /\ row' = row
           \/ /\ web'[w].entity = web[w].entity /\ web[w].pc = "calling"
              /\ UNCHANGED <<lock, row>>
  <1> DEFINE Goal ==
           \/ web'[w] = web[w]
           \/ /\ web'[w].entity = web[w].entity /\ SubmitLock(w)
              /\ lock'[web[w].entity] = w /\ row[web[w].entity].plan = None /\ row' = row
           \/ /\ web'[w].entity = web[w].entity /\ web[w].pc = "calling"
              /\ UNCHANGED <<lock, row>>
  <1> SUFFICES Goal
    OBVIOUS
  <1>t. TypeOK
    BY DEF LockInv
  <1>1. ASSUME NEW v \in Worker, Finish(v)
        PROVE  Goal
    BY <1>t, <1>1 DEF Finish, Idle, TypeOK
  <1>2. ASSUME NEW v \in Worker, NEW e \in Entity,
               SubmitRead(v, e) \/ EditRead(v, e) \/ DeleteRead(v, e)
        PROVE  Goal
    BY <1>t, <1>2 DEF SubmitRead, EditRead, DeleteRead, Idle, TypeOK
  <1>3. ASSUME NEW v \in Worker, NEW e \in Entity, SubmitUnlocked(v, e)
        PROVE  Goal
    BY <1>t, <1>3 DEF SubmitUnlocked, Idle, TypeOK
  <1>4. ASSUME NEW v \in Worker, SubmitLock(v)
        PROVE  Goal
    <2>1. CASE ~Finish(v)
      <3>1. /\ web' = [web EXCEPT ![v].pc = "calling"]
            /\ lock' = [lock EXCEPT ![web[v].entity] = v]
            /\ row[web[v].entity].plan = None /\ row' = row
        BY <1>4, <2>1 DEF SubmitLock
      <3>2. CASE v = w
        <4>1. web[w].entity \in Entity
          BY <1>4, <3>2 DEF SubmitLock, LockInv, RequestsHaveRecord
        <4>2. web'[w].entity = web[w].entity
          BY <1>t, <3>1, <3>2 DEF TypeOK, Request
        <4>3. lock'[web[w].entity] = w
          BY <1>t, <3>1, <3>2, <4>1 DEF TypeOK
        <4> QED
          BY <1>4, <3>1, <3>2, <4>2, <4>3
      <3>3. CASE v # w
        BY <1>t, <3>1, <3>3 DEF TypeOK
      <3> QED
        BY <3>2, <3>3
    <2> QED
      BY <1>1, <2>1
  <1>5. ASSUME NEW v \in Worker, NEW p \in Plan, CreatePlan(v, p)
        PROVE  Goal
    BY <1>t, <1>5 DEF CreatePlan, TypeOK, Request
  <1>6. ASSUME NEW v \in Worker,
               CallFails(v) \/ SubmitSave(v) \/ Abandon(v) \/ EditSave(v) \/ DeleteRow(v)
        PROVE  Goal
    BY <1>1, <1>6 DEF CallFails, SubmitSave, Abandon, EditSave, DeleteRow
  <1>7. ASSUME web' = web
        PROVE  Goal
    BY <1>7
  <1> QED
    BY <1>2, <1>3, <1>4, <1>5, <1>6, <1>7
       DEF Next, Core, SubmitStep, Faults, Restarts, Edits, WODecide, Consume, CommitOffset,
           ConsumerRestart, ConsumeFails, RecordReview, vars

LEMMA LockStep ==
    ASSUME LockInv, [Next]_vars
    PROVE  LockInv'
  <1>t. TypeOK /\ TypeOK'
    BY TypeStep DEF LockInv
  <1>1. RequestsHaveRecord'
    BY <1>t, RequestStep DEF LockInv, RequestsHaveRecord
  <1>2. ASSUME NEW w \in Worker, web'[w].pc \in {"calling", "created"}, Locks(web'[w].entity)
        PROVE  lock'[web'[w].entity] = w /\ row'[web'[w].entity].plan = None
    <2>1. CASE web'[w] = web[w]
      <3>1. web[w].entity \in Entity
        BY <1>2, <2>1 DEF LockInv, RequestsHaveRecord
      <3>2. lock[web[w].entity] = w /\ row[web[w].entity].plan = None
        BY <1>2, <2>1 DEF LockInv, LockHeld
      <3> QED
        BY <1>2, <2>1, <3>1, <3>2, OthersKeepOut
    <2>2. CASE web'[w] # web[w]
      BY <1>2, <2>2, CallerStep DEF LockInv, LockHeld
    <2> QED
      BY <2>1, <2>2
  <1> QED
    BY <1>t, <1>1, <1>2 DEF LockInv, LockHeld, Locks

\* A row's plan is set by the save of a submission, which holds the row, and
\* by the save of an edit; no other step puts one plan in another's place.
LEMMA PlanStep ==
    ASSUME LockInv, [Next]_vars, NEW e \in Entity,
           Locks(e), row[e].plan # None, row'[e].plan # None
    PROVE  row'[e].plan = row[e].plan \/ \E w \in Worker : EditSave(w)
  <1>t. TypeOK
    BY DEF LockInv
  <1>1. ASSUME NEW w \in Worker, SubmitSave(w)
        PROVE  row'[e] = row[e]
    <2>1. web[w].entity # e
      BY <1>1 DEF SubmitSave, LockInv, LockHeld
    <2> QED
      BY <1>t, <1>1, <2>1 DEF SubmitSave, TypeOK
  <1>2. CASE Consume
    <2> DEFINE ev == log[pos + 1]
    <2>1. row[e] \in Row /\ ev \in Event
      BY <1>t, <1>2 DEF Consume, TypeOK
    <2>2. ev.decision \in Decision
      BY <2>1 DEF Event
    <2>3. \/ row'[e] = row[e]
          \/ row'[e] = OnDecision(KindOf[e], row[e], ev.decision)
      BY <1>t, <1>2 DEF Consume, TypeOK
    <2>4. OnDecision(KindOf[e], row[e], ev.decision).plan \in {row[e].plan, None}
      BY <2>1, <2>2, DecisionFacts
    <2> QED
      BY <2>3, <2>4
  <1>3. ASSUME NEW w \in Worker, DeleteRow(w)
        PROVE  row'[e] = row[e]
    BY <1>t, <1>3 DEF DeleteRow, NewRow, TypeOK
  <1>4. ASSUME NEW f \in Entity, NEW s \in {"approved", "reviewed"}, RecordReview(f, s)
        PROVE  row'[e].plan = row[e].plan
    BY <1>t, <1>4 DEF RecordReview, TypeOK, Row
  <1>5. CASE row' = row
    BY <1>5
  <1> QED
    BY <1>1, <1>2, <1>3, <1>4, <1>5
       DEF Next, Core, SubmitStep, Faults, Restarts, Edits, SubmitRead, SubmitUnlocked,
           SubmitLock, CreatePlan, CallFails, WODecide, Abandon, CommitOffset,
           ConsumerRestart, ConsumeFails, EditRead, DeleteRead, vars

\* For the kinds whose service locks the row, only a stale edit puts one
\* plan in another's place: select_for_update() and the look at
\* workflow_plan_id under it keep every submission off a plan on record.
THEOREM PlansNotReplaced == Spec => NoPlanReplaced
  <1>1. Init => LockInv
    BY TypeCorrectInit DEF Init, LockInv, RequestsHaveRecord, LockHeld, Idle
  <1>2. LockInv /\ [Next]_vars => LockInv'
    BY LockStep
  <1> DEFINE Kept ==
        \A e \in Entity :
            Locks(e) /\ row[e].plan # None /\ row'[e].plan # None
            => row'[e].plan = row[e].plan \/ \E w \in Worker : EditSave(w)
  <1>3. LockInv /\ [Next]_vars => [Kept]_vars
    BY PlanStep
  <1> QED
    BY <1>1, <1>2, <1>3, PTL DEF Spec, NoPlanReplaced

---------------------------------------------------------------------------
(* One approval at a time.                                                 *)

\* A plan is open until the consumer has taken WO's decision on it.
Open(p) ==
    \/ wo[p].state = "live"
    \/ \E i \in (pos + 1)..Len(log) : log[i].plan = p

\* A worker holds the answer of WO with the plan p.
Holding(w, p) == web[w].pc = "created" /\ web[w].plan = p

OnRecord(p) == row[wo[p].subject].plan = p \/ \E w \in Worker : Holding(w, p)

\* Where nothing fails, an open plan is on its record or about to be ...
OpenIsOnRecord == \A p \in Plan : Open(p) => OnRecord(p)

\* ... the answer that a worker holds is of an open plan for its record ...
HeldIsOpen ==
    \A w \in Worker : web[w].pc = "created" =>
        /\ web[w].plan \in Plan /\ Open(web[w].plan)
        /\ wo[web[w].plan].subject = web[w].entity

\* ... a plan is decided once ...
DecidedOnce ==
    /\ \A i \in 1..Len(log) : wo[log[i].plan].state \in Decision
    /\ \A i, j \in 1..Len(log) : log[i].plan = log[j].plan => i = j

\* ... and a record gives up its plan with the decision, unless approved.
RecordedIsOpen ==
    \A e \in Entity :
        /\ row[e].status # "deleted"
        /\ \A p \in Plan :
              KindOf[e] # "working_paper" /\ row[e].plan = p /\ row[e].status # "approved"
              => Open(p) /\ wo[p].subject = e

PlanInv == OpenIsOnRecord /\ HeldIsOpen /\ DecidedOnce /\ RecordedIsOpen

SerialInv == LockInv /\ PlansHaveRecord /\ PlanInv

\* A step that leaves plans, events and answers of WO alone.
LEMMA PlansKept ==
    ASSUME SerialInv, UNCHANGED <<row, wo, log, pos>>,
           \A w \in Worker : \/ web'[w] = web[w]
                             \/ web[w].pc # "created" /\ web'[w].pc # "created"
    PROVE  PlanInv'
  <1>1. \A p \in Plan : Open(p)' <=> Open(p)
    BY DEF Open
  <1>2. \A w \in Worker, p \in Plan : Holding(w, p)' <=> Holding(w, p)
    BY DEF Holding
  <1>3. OpenIsOnRecord'
    BY <1>1, <1>2 DEF SerialInv, PlanInv, OpenIsOnRecord, OnRecord
  <1>4. HeldIsOpen'
    BY <1>1 DEF SerialInv, PlanInv, HeldIsOpen
  <1>5. DecidedOnce'
    BY DEF SerialInv, PlanInv, DecidedOnce
  <1>6. RecordedIsOpen'
    BY <1>1 DEF SerialInv, PlanInv, RecordedIsOpen
  <1> QED
    BY <1>3, <1>4, <1>5, <1>6 DEF PlanInv

LEMMA CreateKeepsPlans ==
    ASSUME SerialInv, NEW w \in Worker, NEW p \in Plan, CreatePlan(w, p)
    PROVE  PlanInv'
  <1>t. /\ TypeOK /\ wo \in [Plan -> WOPlan] /\ web \in [Worker -> Request]
        /\ log \in Seq(Event) /\ pos \in Nat /\ Len(log) \in Nat
    BY DEF SerialInv, LockInv, TypeOK
  <1>1. /\ wo[p].state = "unused" /\ wo'[p].state = "live" /\ wo'[p].subject = web[w].entity
        /\ \A q \in Plan \ {p} : wo'[q] = wo[q]
        /\ web[w].pc = "calling" /\ web'[w].pc = "created" /\ web'[w].plan = p
        /\ web'[w].entity = web[w].entity
        /\ \A v \in Worker \ {w} : web'[v] = web[v]
        /\ UNCHANGED <<row, lock, log, pos>>
    BY <1>t DEF CreatePlan, Request
  <1>2. \A i \in 1..Len(log) : log[i].plan # p /\ log[i].plan \in Plan
    <2> SUFFICES ASSUME NEW i \in 1..Len(log)
                 PROVE  log[i].plan # p /\ log[i].plan \in Plan
      OBVIOUS
    <2>1. log[i] \in Event
      BY <1>t
    <2>2. wo[log[i].plan].state \in Decision
      BY DEF SerialInv, PlanInv, DecidedOnce
    <2> QED
      BY <1>1, <2>1, <2>2 DEF Event, Decision
  <1>3. ~Open(p) /\ Open(p)'
    BY <1>t, <1>1, <1>2 DEF Open
  <1>4. \A q \in Plan \ {p} : Open(q)' <=> Open(q)
    BY <1>1 DEF Open
  <1>5. OpenIsOnRecord'
    BY <1>1, <1>4 DEF SerialInv, PlanInv, OpenIsOnRecord, OnRecord, Holding
  <1>6. HeldIsOpen'
    BY <1>1, <1>3, <1>4 DEF SerialInv, PlanInv, HeldIsOpen
  <1>7. DecidedOnce'
    BY <1>1, <1>2 DEF SerialInv, PlanInv, DecidedOnce
  <1>8. RecordedIsOpen'
    BY <1>1, <1>3, <1>4 DEF SerialInv, PlanInv, RecordedIsOpen
  <1> QED
    BY <1>5, <1>6, <1>7, <1>8 DEF PlanInv

LEMMA SaveKeepsPlans ==
    ASSUME \A e \in Entity : Locks(e), SerialInv, NEW w \in Worker, SubmitSave(w)
    PROVE  PlanInv'
  <1> DEFINE e == web[w].entity
             p == web[w].plan
  <1>t. /\ row \in [Entity -> Row] /\ web \in [Worker -> Request] /\ None \notin Plan
    BY ConstantsAssumption DEF SerialInv, LockInv, TypeOK, Row
  <1>1. web[w].pc = "created" /\ e \in Entity /\ row[e].plan = None
    BY DEF SubmitSave, SerialInv, LockInv, RequestsHaveRecord, LockHeld
  <1>2. p \in Plan /\ Open(p) /\ wo[p].subject = e
    BY <1>1 DEF SerialInv, PlanInv, HeldIsOpen
  <1>3. /\ row'[e].plan = p /\ row'[e].status = Rule(e).start
        /\ \A f \in Entity \ {e} : row'[f] = row[f]
    BY <1>t, <1>1 DEF SubmitSave, Row
  <1>4. /\ web'[w].pc = "idle" /\ \A v \in Worker \ {w} : web'[v] = web[v]
        /\ UNCHANGED <<wo, log, pos>>
    BY <1>t DEF SubmitSave, Finish, Idle
  <1> HIDE DEF e, p
  <1>5. \A q \in Plan : Open(q)' <=> Open(q)
    BY <1>4 DEF Open
  <1>6. OpenIsOnRecord'
    <2> SUFFICES ASSUME NEW q \in Plan, OnRecord(q), Open(q), wo[q].subject \in Entity
                 PROVE  OnRecord(q)'
      <3>1. \A q \in Plan : Open(q) => wo[q].state # "unused"
        <4>1. log \in Seq(Event) /\ pos \in Nat /\ Len(log) \in Nat
          BY DEF SerialInv, LockInv, TypeOK
        <4> QED
          BY <4>1 DEF Open, SerialInv, PlanInv, DecidedOnce, Decision
      <3> QED
        BY <1>5, <3>1 DEF SerialInv, PlanInv, OpenIsOnRecord, PlansHaveRecord
    <2>1. CASE row[wo[q].subject].plan = q
      BY <1>t, <1>1, <1>3, <1>4, <2>1 DEF OnRecord
    <2>2. ASSUME NEW v \in Worker, Holding(v, q) PROVE OnRecord(q)'
      <3>1. CASE v = w
        <4>1. q = p
          BY <2>2, <3>1 DEF Holding, p
        <4> QED
          BY <1>2, <1>3, <1>4, <4>1 DEF OnRecord
      <3>2. CASE v # w
        BY <1>4, <2>2, <3>2 DEF OnRecord, Holding
      <3> QED
        BY <3>1, <3>2
    <2> QED
      BY <2>1, <2>2 DEF OnRecord
  <1>7. HeldIsOpen'
    BY <1>4, <1>5 DEF SerialInv, PlanInv, HeldIsOpen
  <1>8. DecidedOnce'
    BY <1>4 DEF SerialInv, PlanInv, DecidedOnce
  <1>9. RecordedIsOpen'
    <2>1. Rule(e).start # "deleted"
      BY <1>1, RuleFacts
    <2> QED
      BY <1>t, <1>2, <1>3, <1>4, <1>5, <2>1 DEF SerialInv, PlanInv, RecordedIsOpen
  <1> QED
    BY <1>6, <1>7, <1>8, <1>9 DEF PlanInv

LEMMA DecideKeepsPlans ==
    ASSUME SerialInv, NEW p \in Plan, NEW d \in Decision, WODecide(p, d)
    PROVE  PlanInv'
  <1>t. /\ wo \in [Plan -> WOPlan] /\ log \in Seq(Event) /\ pos \in 0..Len(log)
        /\ Len(log) \in Nat /\ [plan |-> p, decision |-> d] \in Event
    BY DEF SerialInv, LockInv, TypeOK, Event, Row
  <1>1. /\ wo[p].state = "live" /\ wo'[p].state = d /\ wo'[p].subject = wo[p].subject
        /\ \A q \in Plan \ {p} : wo'[q] = wo[q]
        /\ UNCHANGED <<row, lock, web, pos>>
    BY <1>t DEF WODecide, WOPlan
  <1>2. /\ Len(log') = Len(log) + 1 /\ log'[Len(log) + 1].plan = p
        /\ \A i \in 1..Len(log) : log'[i] = log[i]
    BY <1>t DEF WODecide
  <1>3. \A i \in 1..Len(log) : log[i].plan # p /\ log[i].plan \in Plan
    <2> SUFFICES ASSUME NEW i \in 1..Len(log)
                 PROVE  log[i].plan # p /\ log[i].plan \in Plan
      OBVIOUS
    <2>1. log[i] \in Event
      BY <1>t
    <2>2. wo[log[i].plan].state \in Decision
      BY DEF SerialInv, PlanInv, DecidedOnce
    <2> QED
      BY <1>1, <2>1, <2>2 DEF Event, Decision
  <1>4. \A q \in Plan : Open(q)' <=> Open(q)
    <2>1. Open(p) /\ Open(p)'
      BY <1>t, <1>1, <1>2 DEF Open
    <2>2. ASSUME NEW q \in Plan, q # p PROVE Open(q)' <=> Open(q)
      BY <1>t, <1>1, <1>2, <2>2 DEF Open
    <2> QED
      BY <2>1, <2>2
  <1>5. OpenIsOnRecord'
    BY <1>1, <1>4 DEF SerialInv, PlanInv, OpenIsOnRecord, OnRecord, Holding
  <1>6. HeldIsOpen'
    BY <1>1, <1>4 DEF SerialInv, PlanInv, HeldIsOpen
  <1>7. DecidedOnce'
    <2>1. ASSUME NEW i \in 1..Len(log') PROVE wo'[log'[i].plan].state \in Decision
      <3>1. CASE i = Len(log) + 1
        BY <1>1, <1>2, <3>1
      <3>2. CASE i \in 1..Len(log)
        BY <1>1, <1>2, <1>3, <3>2 DEF SerialInv, PlanInv, DecidedOnce
      <3> QED
        BY <1>t, <1>2, <3>1, <3>2
    <2>2. ASSUME NEW i \in 1..Len(log'), NEW j \in 1..Len(log'), log'[i].plan = log'[j].plan
          PROVE  i = j
      <3>1. CASE i \in 1..Len(log) /\ j \in 1..Len(log)
        BY <1>2, <2>2, <3>1 DEF SerialInv, PlanInv, DecidedOnce
      <3>2. CASE i = Len(log) + 1 \/ j = Len(log) + 1
        BY <1>t, <1>2, <1>3, <2>2, <3>2
      <3> QED
        BY <1>t, <1>2, <3>1, <3>2
    <2> QED
      BY <2>1, <2>2 DEF DecidedOnce
  <1>8. RecordedIsOpen'
    BY <1>t, <1>1, <1>4 DEF SerialInv, PlanInv, RecordedIsOpen
  <1> QED
    BY <1>5, <1>6, <1>7, <1>8 DEF PlanInv

\* The consumer takes the decision of the plan on record: its lock keeps it
\* off a record whose submission is not saved yet.
LEMMA ConsumeTakes ==
    ASSUME \A e \in Entity : Locks(e), SerialInv, Consume
    PROVE  \E p \in Plan, d \in Decision, e \in Entity :
              /\ wo[p].subject = e /\ wo[p].state \in Decision /\ Open(p)
              /\ row[e].plan = p /\ lock[e] = None
              /\ log[pos + 1].plan = p /\ log[pos + 1].decision = d
              /\ row' = [row EXCEPT ![e] = OnDecision(KindOf[e], row[e], d)]
              /\ pos' = pos + 1 /\ UNCHANGED <<lock, web, wo, log>>
              /\ \A w \in Worker : ~(web[w].pc = "created" /\ web[w].entity = e)
              /\ \A q \in Plan : Open(q)' <=> Open(q) /\ q # p
  <1>0. /\ row \in [Entity -> Row] /\ log \in Seq(Event) /\ pos \in Nat /\ Len(log) \in Nat
        /\ pos < Len(log) /\ None \notin Plan \union Worker
    <2>1. TypeOK
      BY DEF SerialInv, LockInv
    <2> QED
      BY <2>1, ConstantsAssumption DEF Consume, TypeOK, Row
  <1>1. log[pos + 1] \in Event /\ wo[log[pos + 1].plan].state \in Decision
    BY <1>0 DEF SerialInv, PlanInv, DecidedOnce
  <1>2. wo[log[pos + 1].plan].subject \in Entity
    BY <1>1 DEF SerialInv, PlansHaveRecord, Event, Decision
  <1> PICK p \in Plan, d \in Decision, e \in Entity :
        log[pos + 1].plan = p /\ log[pos + 1].decision = d /\ wo[p].subject = e
    BY <1>1, <1>2 DEF Event
  <1>3. /\ wo[p].state \in Decision /\ Open(p)
        /\ lock[e] = None /\ pos' = pos + 1 /\ UNCHANGED <<lock, web, wo, log>>
    BY <1>0, <1>1 DEF Open, Consume
  <1>4. row' = [row EXCEPT ![e] = OnDecision(KindOf[e], row[e], d)]
    <2>1. row[e].status # "deleted"
      BY DEF SerialInv, PlanInv, RecordedIsOpen
    <2> QED
      BY <2>1 DEF Consume
  <1>5. /\ \A w \in Worker : ~(web[w].pc = "created" /\ web[w].entity = e)
        /\ row[e].plan = p
    <2>1. \A w \in Worker : ~(web[w].pc = "created" /\ web[w].entity = e)
      BY <1>0, <1>3 DEF SerialInv, LockInv, LockHeld
    <2>2. OnRecord(p)
      BY <1>3 DEF SerialInv, PlanInv, OpenIsOnRecord
    <2> QED
      BY <2>1, <2>2 DEF SerialInv, PlanInv, HeldIsOpen, OnRecord, Holding
  <1>6. \A i \in 1..Len(log) : log[i].plan = p => i = pos + 1
    BY <1>0 DEF SerialInv, PlanInv, DecidedOnce
  <1>7. \A q \in Plan : Open(q)' <=> Open(q) /\ q # p
    <2>1. ~Open(p)'
      BY <1>0, <1>3, <1>6 DEF Open, Decision
    <2>2. ASSUME NEW q \in Plan, q # p PROVE Open(q)' <=> Open(q)
      <3>1. ASSUME NEW i \in (pos + 1)..Len(log), log[i].plan = q PROVE i \in (pos' + 1)..Len(log)
        BY <1>0, <1>3, <2>2, <3>1
      <3>2. (pos' + 1)..Len(log) \subseteq (pos + 1)..Len(log)
        BY <1>0, <1>3
      <3> QED
        BY <1>3, <3>1, <3>2 DEF Open
    <2> QED
      BY <2>1, <2>2
  <1> QED
    BY <1>3, <1>4, <1>5, <1>7

LEMMA ConsumeKeepsPlans ==
    ASSUME \A e \in Entity : Locks(e), SerialInv, Consume
    PROVE  PlanInv'
  <1>0. /\ row \in [Entity -> Row] /\ log \in Seq(Event) /\ pos \in Nat /\ Len(log) \in Nat
        /\ pos < Len(log) /\ None \notin Plan \union Worker
    <2>1. TypeOK
      BY DEF SerialInv, LockInv
    <2> QED
      BY <2>1, ConstantsAssumption DEF Consume, TypeOK, Row
  <1> PICK p \in Plan, d \in Decision, e \in Entity :
        /\ wo[p].subject = e /\ wo[p].state \in Decision /\ Open(p)
        /\ row[e].plan = p /\ lock[e] = None
        /\ row' = [row EXCEPT ![e] = OnDecision(KindOf[e], row[e], d)]
        /\ pos' = pos + 1 /\ UNCHANGED <<lock, web, wo, log>>
        /\ \A w \in Worker : ~(web[w].pc = "created" /\ web[w].entity = e)
        /\ \A q \in Plan : Open(q)' <=> Open(q) /\ q # p
    BY ConsumeTakes
  <1> DEFINE s == OnDecision(KindOf[e], row[e], d)
  <1>1. row'[e] = s /\ \A f \in Entity \ {e} : row'[f] = row[f]
    BY <1>0
  <1>2. s.status # "deleted"
    <2>1. row[e] \in Row
      BY <1>0
    <2>2. s.status \in {"approved", "draft", "reviewed"}
      BY <2>1, DecisionFacts
    <2> QED
      BY <2>2
  <1>3. KindOf[e] # "working_paper" /\ s.status # "approved" => s.plan = None
    <2>1. KindOf[e] \in Kind
      BY ConstantsAssumption
    <2>2. KindOf[e] # "working_paper" => s = OnAuditUniverse(row[e], d)
      BY <2>1 DEF OnDecision, OnAuditPlan, OnAuditMemo, OnAuditProgram, Kind
    <2>3. row[e] \in Row
      BY <1>0
    <2> QED
      BY <2>2, <2>3 DEF OnAuditUniverse, Row
  <1> HIDE DEF s
  <1>4. OpenIsOnRecord'
    <2> SUFFICES ASSUME NEW q \in Plan, q # p, Open(q), OnRecord(q), wo[q].subject \in Entity
                 PROVE  OnRecord(q)'
      <3>1. \A q \in Plan : Open(q) => wo[q].state # "unused"
        BY <1>0 DEF Open, SerialInv, PlanInv, DecidedOnce, Decision
      <3> QED
        BY <3>1 DEF SerialInv, PlanInv, OpenIsOnRecord, PlansHaveRecord
    <2> QED
      BY <1>1 DEF OnRecord, Holding
  <1>5. HeldIsOpen'
    <2>1. \A w \in Worker : web[w].pc = "created" => web[w].plan # p
      BY DEF SerialInv, PlanInv, HeldIsOpen
    <2> QED
      BY <2>1 DEF SerialInv, PlanInv, HeldIsOpen
  <1>6. DecidedOnce'
    BY DEF SerialInv, PlanInv, DecidedOnce
  <1>7. RecordedIsOpen'
    <2>1. \A q \in Plan : wo[q].subject # e /\ Open(q) => Open(q)'
      OBVIOUS
    <2> QED
      BY <1>0, <1>1, <1>2, <1>3, <2>1 DEF SerialInv, PlanInv, RecordedIsOpen
  <1> QED
    BY <1>4, <1>5, <1>6, <1>7 DEF PlanInv

LEMMA SerialStep ==
    ASSUME \A e \in Entity : Locks(e)
    PROVE  SerialInv /\ [Core]_vars => SerialInv'
  <1> SUFFICES ASSUME SerialInv, [Core]_vars PROVE SerialInv'
    OBVIOUS
  <1>1. LockInv' /\ TypeOK /\ TypeOK'
    <2>1. [Next]_vars
      BY DEF Next
    <2> QED
      BY <2>1, LockStep DEF SerialInv, LockInv
  <1>2. PlansHaveRecord'
    <2>1. ASSUME NEW w \in Worker, NEW p \in Plan, CreatePlan(w, p) PROVE PlansHaveRecord'
      <3>1. web[w].entity \in Entity
        BY <2>1 DEF CreatePlan, SerialInv, LockInv, RequestsHaveRecord
      <3> QED
        BY <1>1, <2>1, <3>1 DEF CreatePlan, TypeOK, SerialInv, PlansHaveRecord
    <2>2. ASSUME NEW p \in Plan, NEW d \in Decision, WODecide(p, d) PROVE PlansHaveRecord'
      BY <1>1, <2>2 DEF WODecide, TypeOK, WOPlan, SerialInv, PlansHaveRecord
    <2>3. CASE wo' = wo
      BY <2>3 DEF SerialInv, PlansHaveRecord
    <2> QED
      BY <2>1, <2>2, <2>3
         DEF Core, SubmitStep, SubmitRead, SubmitUnlocked, SubmitLock, CallFails, SubmitSave,
             Consume, vars
  <1>3. ASSUME NEW w \in Worker, SubmitLock(w) \/ CallFails(w)
        PROVE  PlanInv'
    <2>1. \A v \in Worker : \/ web'[v] = web[v]
                            \/ web[v].pc # "created" /\ web'[v].pc # "created"
      BY <1>1, <1>3 DEF SubmitLock, CallFails, Finish, Idle, TypeOK, Request
    <2>2. UNCHANGED <<row, wo, log, pos>>
      BY <1>3 DEF SubmitLock, CallFails
    <2> QED
      BY <2>1, <2>2, PlansKept
  <1>4. ASSUME NEW w \in Worker, NEW e \in Entity, SubmitRead(w, e) \/ SubmitUnlocked(w, e)
        PROVE  PlanInv'
    <2>1. \A v \in Worker : \/ web'[v] = web[v]
                            \/ web[v].pc # "created" /\ web'[v].pc # "created"
      BY <1>1, <1>4 DEF SubmitRead, SubmitUnlocked, Idle, TypeOK
    <2>2. UNCHANGED <<row, wo, log, pos>>
      BY <1>4 DEF SubmitRead, SubmitUnlocked
    <2> QED
      BY <2>1, <2>2, PlansKept
  <1>5. ASSUME UNCHANGED vars PROVE PlanInv'
    <2>1. UNCHANGED <<row, wo, log, pos>>
      BY <1>5 DEF vars
    <2>2. \A w \in Worker : \/ web'[w] = web[w]
                            \/ web[w].pc # "created" /\ web'[w].pc # "created"
      BY <1>5 DEF vars
    <2> QED
      BY <2>1, <2>2, PlansKept
  <1>6. PlanInv'
    <2>1. ASSUME NEW w \in Worker, NEW p \in Plan, CreatePlan(w, p) PROVE PlanInv'
      BY <2>1, CreateKeepsPlans
    <2>2. ASSUME NEW w \in Worker, SubmitSave(w) PROVE PlanInv'
      BY <2>2, SaveKeepsPlans
    <2>3. ASSUME NEW p \in Plan, NEW d \in Decision, WODecide(p, d) PROVE PlanInv'
      BY <2>3, DecideKeepsPlans
    <2>4. CASE Consume
      BY <2>4, ConsumeKeepsPlans
    <2> QED
      <3>1. ASSUME NEW w \in Worker, SubmitStep(w) PROVE PlanInv'
        BY <1>3, <1>4, <2>1, <2>2, <3>1 DEF SubmitStep
      <3> QED
        BY <1>5, <2>3, <2>4, <3>1 DEF Core
  <1> QED
    BY <1>1, <1>2, <1>6 DEF SerialInv

LEMMA SerialInit == Init => SerialInv
  <1> SUFFICES ASSUME Init PROVE SerialInv
    OBVIOUS
  <1>1. /\ \A w \in Worker : web[w].pc = "idle"
        /\ \A e \in Entity : row[e].status = "draft" /\ row[e].plan = None
        /\ \A p \in Plan : wo[p].state = "unused"
        /\ log = <<>> /\ Len(log) = 0 /\ pos = 0 /\ None \notin Plan
    BY ConstantsAssumption DEF Init, Idle, NewRow
  <1>2. \A p \in Plan : ~Open(p)
    BY <1>1 DEF Open
  <1>3. LockInv /\ PlansHaveRecord
    BY <1>1, TypeCorrectInit DEF LockInv, RequestsHaveRecord, LockHeld, PlansHaveRecord
  <1>4. PlanInv
    BY <1>1, <1>2 DEF PlanInv, OpenIsOnRecord, HeldIsOpen, DecidedOnce, RecordedIsOpen
  <1> QED
    BY <1>3, <1>4 DEF SerialInv

\* Where the service locks the row, two submissions never start two plans
\* for one record: the plan that runs is on the row, or with the worker that
\* holds the row's lock, and the service looks for it under that lock
\* (submit_for_review, submit_for_management_review; the kinds whose views
\* do not lock are outside the assumption).
THEOREM OneOpenPlan ==
    ASSUME \A e \in Entity : Locks(e)
    PROVE  ReliableSpec => []AtMostOneOpenPlan
  <1>1. SerialInv => AtMostOneOpenPlan
    <2> SUFFICES ASSUME SerialInv, NEW p \in Plan, NEW q \in Plan,
                        wo[p].state = "live", wo[q].state = "live",
                        wo[p].subject = wo[q].subject
                 PROVE  p = q
      BY DEF AtMostOneOpenPlan
    <2>1. OnRecord(p) /\ OnRecord(q) /\ wo[p].subject \in Entity /\ None \notin Plan \union Worker
      BY ConstantsAssumption DEF Open, SerialInv, PlanInv, OpenIsOnRecord, PlansHaveRecord
    <2>2. \A w \in Worker, r \in Plan : Holding(w, r) =>
             /\ lock[wo[r].subject] = w
             /\ row[wo[r].subject].plan = None
      BY DEF Holding, SerialInv, LockInv, RequestsHaveRecord, LockHeld, PlanInv, HeldIsOpen
    <2>3. CASE row[wo[p].subject].plan = p
      BY <2>1, <2>2, <2>3 DEF OnRecord
    <2>4. ASSUME NEW w \in Worker, Holding(w, p) PROVE p = q
      BY <2>1, <2>2, <2>4 DEF OnRecord, Holding
    <2> QED
      BY <2>1, <2>3, <2>4 DEF OnRecord
  <1> QED
    BY <1>1, SerialInit, SerialStep, PTL DEF ReliableSpec

\* The kinds of the reliable runs.
TwoKinds == \A e \in Entity : KindOf[e] \in {"audit_universe", "rbiap"}

LEMMA TwoKindsLock ==
    ASSUME TwoKinds
    PROVE  \A e \in Entity : Locks(e) /\ KindOf[e] # "working_paper"
  BY DEF TwoKinds, Locks, LockingKinds

\* A universe or plan that came back as a draft is not stuck: no decided
\* plan stays on it to make the service skip the next submission
\* (_handle_audit_universe_workflow, _handle_audit_plan_workflow).
THEOREM DraftsCanBeSubmitted ==
    ASSUME TwoKinds
    PROVE  ReliableSpec => []DraftIsSubmittable
  <1>1. \A e \in Entity : Locks(e) /\ KindOf[e] # "working_paper"
    BY TwoKindsLock
  <1>2. SerialInv => DraftIsSubmittable
    <2> SUFFICES ASSUME SerialInv, NEW e \in Entity, row[e].status = "draft", Quiet(e),
                        row[e].plan # None
                 PROVE  FALSE
      BY DEF DraftIsSubmittable
    <2>1. PICK p \in Plan : row[e].plan = p
      BY DEF SerialInv, LockInv, TypeOK, Row
    <2>2. Open(p) /\ wo[p].subject = e
      BY <1>1, <2>1 DEF SerialInv, PlanInv, RecordedIsOpen
    <2>3. wo[p].state # "live"
      BY <2>2 DEF Quiet, PlansOf
    <2> QED
      BY <2>2, <2>3 DEF Open, Quiet, Undelivered
  <1>3. SerialInv /\ [Core]_vars => SerialInv'
    BY <1>1, SerialStep
  <1> QED
    BY <1>2, <1>3, SerialInit, PTL DEF ReliableSpec

---------------------------------------------------------------------------
(* No decision is lost.                                                    *)

\* What the consumer has taken shows: an approval with the plan it was made
\* in, so that no submission goes over it.
Shows(p, e) ==
    IF wo[p].state = "approved"
    THEN row[e].plan = p /\ row[e].status = "approved"
    ELSE row[e].plan # p \/ row[e].status \in {"draft", "reviewed"}

DecisionsShow ==
    \A p \in Plan, e \in Entity : Decided(p, e) /\ ~OnItsWay(p) => Shows(p, e)

DecisionInv == SerialInv /\ EventsTrue /\ DecisionsShow

\* A submission that is saved finds no approval and brings an open plan.
LEMMA SaveShows ==
    ASSUME \A e \in Entity : Locks(e), DecisionInv, NEW w \in Worker, SubmitSave(w)
    PROVE  DecisionsShow'
  <1> DEFINE f == web[w].entity
             q == web[w].plan
  <1>t. row \in [Entity -> Row] /\ None \notin Plan
    BY ConstantsAssumption DEF DecisionInv, SerialInv, LockInv, TypeOK
  <1>1. f \in Entity /\ row[f].plan = None
    BY DEF SubmitSave, DecisionInv, SerialInv, LockInv, RequestsHaveRecord, LockHeld
  <1>2. q \in Plan /\ Open(q)
    BY DEF SubmitSave, DecisionInv, SerialInv, PlanInv, HeldIsOpen
  <1>3. /\ row'[f].plan = q /\ \A g \in Entity \ {f} : row'[g] = row[g]
        /\ UNCHANGED <<wo, log, pos>>
    BY <1>t, <1>1 DEF SubmitSave, Row
  <1> HIDE DEF f, q
  <1> SUFFICES ASSUME NEW p \in Plan, NEW e \in Entity, Decided(p, e)', ~OnItsWay(p)'
               PROVE  Shows(p, e)'
    BY DEF DecisionsShow
  <1>4. Decided(p, e) /\ ~OnItsWay(p)
    BY <1>3 DEF Decided, OnItsWay
  <1>5. Shows(p, e) /\ p # q
    BY <1>2, <1>4 DEF DecisionInv, DecisionsShow, Open, OnItsWay, Decided, Decision
  <1> QED
    BY <1>t, <1>1, <1>3, <1>5 DEF Shows

\* The consumer writes the decision on the row whose plan it was made in.
LEMMA ConsumeShows ==
    ASSUME \A e \in Entity : Locks(e), DecisionInv, Consume
    PROVE  DecisionsShow'
  <1>t. row \in [Entity -> Row] /\ log \in Seq(Event) /\ pos \in Nat /\ None \notin Plan
    BY ConstantsAssumption DEF DecisionInv, SerialInv, LockInv, TypeOK
  <1>1. PICK q \in Plan, d \in Decision, f \in Entity :
           /\ wo[q].subject = f /\ wo[q].state \in Decision /\ row[f].plan = q
           /\ log[pos + 1].plan = q /\ log[pos + 1].decision = d
           /\ row' = [row EXCEPT ![f] = OnDecision(KindOf[f], row[f], d)]
           /\ wo' = wo /\ \A p \in Plan : Open(p)' <=> Open(p) /\ p # q
    BY ConsumeTakes DEF DecisionInv
  <1>2. d = wo[q].state
    <2>1. pos + 1 \in 1..Len(log)
      BY <1>t DEF Consume
    <2> QED
      BY <1>1, <2>1 DEF DecisionInv, EventsTrue
  <1> DEFINE r == OnDecision(KindOf[f], row[f], d)
  <1>3. /\ row'[f] = r /\ \A g \in Entity \ {f} : row'[g] = row[g]
        /\ r.plan \in {q, None} /\ r.status \in {"approved", "draft", "reviewed"}
        /\ (r.status = "approved") <=> (d = "approved")
        /\ d = "approved" => r.plan = q
    <2>1. row[f] \in Row
      BY <1>t
    <2> QED
      BY <1>t, <1>1, <2>1, DecisionFacts
  <1> HIDE DEF r
  <1> SUFFICES ASSUME NEW p \in Plan, NEW e \in Entity, Decided(p, e)', ~OnItsWay(p)'
               PROVE  Shows(p, e)'
    BY DEF DecisionsShow
  <1>4. Decided(p, e) /\ ~Open(p)'
    BY <1>1 DEF Decided, Open, OnItsWay, Decision
  <1>5. CASE p = q
    BY <1>1, <1>2, <1>3, <1>4, <1>5 DEF Shows, Decided
  <1>6. CASE p # q
    <2>1. ~OnItsWay(p)
      BY <1>1, <1>4, <1>6 DEF Open, OnItsWay
    <2>2. Shows(p, e)
      BY <1>4, <2>1 DEF DecisionInv, DecisionsShow
    <2> QED
      BY <1>t, <1>1, <1>3, <1>6, <2>2 DEF Shows
  <1> QED
    BY <1>5, <1>6

LEMMA DecisionStep ==
    ASSUME \A e \in Entity : Locks(e), DecisionInv, [Core]_vars
    PROVE  DecisionsShow'
  <1>t. /\ wo \in [Plan -> WOPlan] /\ log \in Seq(Event) /\ pos \in Nat /\ Len(log) \in Nat
        /\ pos <= Len(log)
    BY DEF DecisionInv, SerialInv, LockInv, TypeOK
  <1>1. ASSUME row' = row,
               \A p \in Plan : wo'[p].state \in Decision /\ ~OnItsWay(p)' =>
                                  wo'[p] = wo[p] /\ ~OnItsWay(p)
        PROVE  DecisionsShow'
    BY <1>1 DEF DecisionInv, DecisionsShow, Decided, Shows
  <1>2. ASSUME NEW q \in Plan, NEW d \in Decision, WODecide(q, d) PROVE DecisionsShow'
    <2>1. /\ wo' = [wo EXCEPT ![q].state = d] /\ pos' = pos /\ row' = row
          /\ Len(log') = Len(log) + 1 /\ log'[Len(log) + 1].plan = q
          /\ \A i \in 1..Len(log) : log'[i] = log[i]
      BY <1>t, <1>2 DEF WODecide
    <2>2. OnItsWay(q)'
      BY <1>t, <2>1 DEF OnItsWay
    <2>3. \A p \in Plan : OnItsWay(p) => OnItsWay(p)'
      BY <1>t, <2>1 DEF OnItsWay
    <2> QED
      BY <1>t, <1>1, <2>1, <2>2, <2>3
  <1>3. ASSUME NEW w \in Worker, NEW q \in Plan, CreatePlan(w, q) PROVE DecisionsShow'
    <2>1. /\ wo'[q].state = "live" /\ \A p \in Plan \ {q} : wo'[p] = wo[p]
          /\ UNCHANGED <<row, log, pos>>
      BY <1>t, <1>3 DEF CreatePlan
    <2> QED
      BY <1>1, <2>1 DEF OnItsWay, Decision
  <1>4. ASSUME UNCHANGED <<row, wo, log, pos>> PROVE DecisionsShow'
    BY <1>1, <1>4 DEF OnItsWay
  <1> QED
    BY <1>2, <1>3, <1>4, SaveShows, ConsumeShows
       DEF Core, SubmitStep, SubmitRead, SubmitUnlocked, SubmitLock, CallFails, vars

\* While nothing fails, every decision of WO is on its way or shows on its
\* record, for the kinds whose service locks the row: the consumer waits for
\* a submission that is not saved, and no submission goes over an approval
\* (submit_for_review, submit_for_approval, _handle_workflow_event).
THEOREM DecisionsReachTheirRecord ==
    ASSUME \A e \in Entity : Locks(e)
    PROVE  ReliableSpec => []NoDecisionLost
  <1>1. Init => DecisionInv
    <2>1. Init => EventsTrue /\ DecisionsShow
      BY DEF Init, EventsTrue, DecisionsShow, Decided, Decision
    <2> QED
      BY <2>1, SerialInit DEF DecisionInv
  <1>2. DecisionInv /\ [Core]_vars => DecisionInv'
    <2> SUFFICES ASSUME DecisionInv, [Core]_vars PROVE DecisionInv'
      OBVIOUS
    <2>1. EventsTrue'
      BY EventStep DEF Next, DecisionInv, SerialInv, LockInv
    <2> QED
      BY <2>1, DecisionStep, SerialStep DEF DecisionInv
  <1>3. DecisionInv => NoDecisionLost
    BY DEF DecisionInv, DecisionsShow, Shows, Settled, NoDecisionLost
  <1> QED
    BY <1>1, <1>2, <1>3, PTL DEF ReliableSpec

---------------------------------------------------------------------------
(* A paper's decision stands.                                              *)

Paper(e) == KindOf[e] = "working_paper"

\* Every plan of a paper stays known: on the row, or in the hands of the
\* worker that is about to save it.
PaperPlansOnRecord ==
    \A p \in Plan : wo[p].state # "unused" /\ Paper(wo[p].subject) => OnRecord(p)

HeldIsUsed ==
    \A w \in Worker : web[w].pc = "created" =>
        /\ web[w].plan \in Plan
        /\ wo[web[w].plan].subject = web[w].entity /\ wo[web[w].plan].state # "unused"

\* A paper out of review is as the decision in its plan left it.
PapersAsDecided ==
    \A e \in Entity : Paper(e) =>
        /\ row[e].status # "deleted"
        /\ \A p \in Plan : row[e].plan = p /\ row[e].status # WorkingPaper.start =>
              wo[p].state \in Decision /\ row[e] = OnWorkingPaper(row[e], wo[p].state)

PaperInv ==
    LockInv /\ PlansHaveRecord /\ EventsTrue /\ PaperPlansOnRecord /\ HeldIsUsed /\ PapersAsDecided

LEMMA PaperFacts ==
    ASSUME NEW r \in Row, NEW d \in Decision
    PROVE  LET s == OnWorkingPaper(r, d) IN
           /\ s \in Row /\ s.plan = r.plan /\ s.status \in {"approved", "reviewed", "draft"}
           /\ OnWorkingPaper(s, d) = s
  <1>1. /\ r.status \in Status /\ r.plan \in Plan \union {None} /\ r.reviewed \in BOOLEAN
        /\ r = [status |-> r.status, plan |-> r.plan, reviewed |-> r.reviewed]
    BY DEF Row
  <1>2. d \in {"approved", "rejected", "cancelled"}
    BY DEF Decision
  <1> QED
    BY <1>1, <1>2, StatusFacts DEF OnWorkingPaper, Row

\* The consumer finds a paper with the plan of the event, whichever event
\* it is at after a restart, and writes the decision made in it.
LEMMA PaperConsumed ==
    ASSUME PaperInv, Consume, Paper(wo[log[pos + 1].plan].subject)
    PROVE  LET p == log[pos + 1].plan
               e == wo[p].subject
           IN  /\ p \in Plan /\ e \in Entity /\ wo[p].state \in Decision
               /\ row[e].plan = p
               /\ row' = [row EXCEPT ![e] = OnWorkingPaper(row[e], wo[p].state)]
  <1> DEFINE ev == log[pos + 1]
             p  == ev.plan
             e  == wo[p].subject
  <1>t. /\ row \in [Entity -> Row] /\ pos + 1 \in 1..Len(log) /\ ev \in Event
        /\ None \notin Plan \union Worker
    <2>1. TypeOK
      BY DEF PaperInv, LockInv
    <2> QED
      BY <2>1, ConstantsAssumption DEF Consume, TypeOK
  <1>1. p \in Plan /\ ev.decision \in Decision /\ ev.decision = wo[p].state
    BY <1>t DEF PaperInv, EventsTrue, Event
  <1>2. OnRecord(p) /\ e \in Entity
    BY <1>1 DEF PaperInv, PaperPlansOnRecord, PlansHaveRecord, Decision
  <1>3. lock[e] = None /\ row' = [row EXCEPT ![e] = OnWorkingPaper(row[e], ev.decision)]
    <2>1. row[e].status # "deleted"
      BY <1>2 DEF PaperInv, PapersAsDecided
    <2> QED
      BY <2>1 DEF Consume, OnDecision, Paper
  <1>4. \A w \in Worker : ~Holding(w, p)
    <2>1. Locks(e)
      BY DEF Paper, Locks, LockingKinds
    <2> QED
      BY <1>t, <1>3, <2>1 DEF Holding, PaperInv, HeldIsUsed, LockInv, LockHeld
  <1>5. row[e].plan = p
    BY <1>2, <1>4 DEF OnRecord
  <1> QED
    BY <1>1, <1>2, <1>3, <1>5

LEMMA PaperConsume ==
    ASSUME PaperInv, Consume, NEW e \in Entity, Paper(e)
    PROVE  \/ row'[e] = row[e]
           \/ /\ row[e].plan \in Plan /\ wo[row[e].plan].state \in Decision
              /\ row'[e] = OnWorkingPaper(row[e], wo[row[e].plan].state)
  <1>1. row \in [Entity -> Row]
    BY DEF PaperInv, LockInv, TypeOK
  <1>2. CASE wo[log[pos + 1].plan].subject = e
    BY <1>1, <1>2, PaperConsumed
  <1>3. CASE wo[log[pos + 1].plan].subject # e
    BY <1>1, <1>3 DEF Consume
  <1> QED
    BY <1>2, <1>3

\* What a step does to a paper: a submission that is saved finds no plan on
\* it and puts it into review, the consumer writes the decision in its plan.
LEMMA PaperRowStep ==
    ASSUME PaperInv, [Core \/ Restarts]_vars, NEW e \in Entity, Paper(e)
    PROVE  \/ row'[e] = row[e]
           \/ /\ row[e].plan = None /\ row'[e].status = WorkingPaper.start
              /\ \E w \in Worker : /\ SubmitSave(w) /\ web[w].entity = e
                                   /\ row'[e].plan = web[w].plan
           \/ /\ row[e].plan \in Plan /\ wo[row[e].plan].state \in Decision
              /\ row'[e] = OnWorkingPaper(row[e], wo[row[e].plan].state)
              /\ wo' = wo
  <1>t. row \in [Entity -> Row]
    BY DEF PaperInv, LockInv, TypeOK
  <1>1. ASSUME NEW w \in Worker, SubmitSave(w), web[w].entity = e
        PROVE  /\ row[e].plan = None /\ row'[e].status = WorkingPaper.start
               /\ row'[e].plan = web[w].plan
    <2>1. Locks(e) /\ Rule(e) = WorkingPaper
      BY DEF Paper, Locks, LockingKinds, Rule, Rules
    <2>2. row[e].plan = None
      BY <1>1, <2>1 DEF SubmitSave, PaperInv, LockInv, LockHeld
    <2>3. row'[e].plan = web[w].plan /\ row'[e].status = Rule(e).start
      BY <1>t, <1>1 DEF SubmitSave, Row
    <2> QED
      BY <2>1, <2>2, <2>3
  <1>2. ASSUME NEW w \in Worker, SubmitSave(w), web[w].entity # e
        PROVE  row'[e] = row[e]
    BY <1>t, <1>2 DEF SubmitSave
  <1>3. Consume => wo' = wo
    BY DEF Consume
  <1> QED
    BY <1>1, <1>2, <1>3, PaperConsume
       DEF Core, SubmitStep, SubmitRead, SubmitUnlocked, SubmitLock, CreatePlan, CallFails,
           WODecide, Restarts, CommitOffset, ConsumerRestart, vars

\* No step loses a plan: a worker gives it up by saving it.
LEMMA PaperPlansStep ==
    ASSUME PaperInv, [Core \/ Restarts]_vars
    PROVE  PaperPlansOnRecord' /\ HeldIsUsed'
  <1>t. /\ row \in [Entity -> Row] /\ web \in [Worker -> Request] /\ wo \in [Plan -> WOPlan]
        /\ None \notin Plan
    BY ConstantsAssumption DEF PaperInv, LockInv, TypeOK
  <1>r. \A e \in Entity : Paper(e) /\ row[e].plan # None => row'[e].plan = row[e].plan
    BY <1>t, PaperRowStep, PaperFacts
  <1>p. ASSUME NEW p \in Plan, wo[p].state # "unused", Paper(wo[p].subject),
               \A w \in Worker : Holding(w, p) => Holding(w, p)' \/ row'[wo[p].subject].plan = p
        PROVE  row'[wo[p].subject].plan = p \/ \E w \in Worker : Holding(w, p)'
    <2>1. OnRecord(p) /\ wo[p].subject \in Entity
      BY <1>p DEF PaperInv, PaperPlansOnRecord, PlansHaveRecord
    <2> QED
      BY <1>t, <1>r, <1>p, <2>1 DEF OnRecord
  <1>1. ASSUME \A p \in Plan : /\ wo'[p].subject = wo[p].subject
                               /\ wo'[p].state = "unused" <=> wo[p].state = "unused",
               \A w \in Worker : web'[w].pc = "created" <=> web[w].pc = "created",
               \A w \in Worker : web[w].pc = "created" => web'[w] = web[w]
        PROVE  PaperPlansOnRecord' /\ HeldIsUsed'
    <2>1. PaperPlansOnRecord'
      BY <1>p, <1>1 DEF PaperPlansOnRecord, OnRecord, Holding
    <2>2. HeldIsUsed'
      BY <1>1 DEF HeldIsUsed, PaperInv
    <2> QED
      BY <2>1, <2>2
  <1>2. ASSUME NEW w \in Worker, NEW e \in Entity, SubmitRead(w, e) \/ SubmitUnlocked(w, e)
        PROVE  PaperPlansOnRecord' /\ HeldIsUsed'
    BY <1>t, <1>1, <1>2 DEF SubmitRead, SubmitUnlocked, Idle
  <1>3. ASSUME NEW w \in Worker, SubmitLock(w) \/ CallFails(w)
        PROVE  PaperPlansOnRecord' /\ HeldIsUsed'
    BY <1>t, <1>1, <1>3 DEF SubmitLock, CallFails, Finish, Idle, Request
  <1>4. ASSUME NEW w \in Worker, NEW q \in Plan, CreatePlan(w, q)
        PROVE  PaperPlansOnRecord' /\ HeldIsUsed'
    <2>1. /\ wo'[q].subject = web[w].entity /\ wo'[q].state = "live"
          /\ \A p \in Plan \ {q} : wo'[p] = wo[p]
          /\ web'[w].pc = "created" /\ web'[w].plan = q /\ web'[w].entity = web[w].entity
          /\ \A v \in Worker \ {w} : web'[v] = web[v]
          /\ web[w].pc = "calling" /\ wo[q].state = "unused" /\ row' = row
      BY <1>t, <1>4 DEF CreatePlan, WOPlan, Request
    <2>2. HeldIsUsed'
      BY <2>1 DEF PaperInv, HeldIsUsed
    <2>3. ASSUME NEW p \in Plan, wo'[p].state # "unused", Paper(wo'[p].subject)
          PROVE  OnRecord(p)'
      <3>1. CASE p = q
        BY <2>1, <3>1 DEF OnRecord, Holding
      <3>2. CASE p # q
        BY <1>p, <2>1, <2>3, <3>2 DEF OnRecord, Holding
      <3> QED
        BY <3>1, <3>2
    <2> QED
      BY <2>2, <2>3 DEF PaperPlansOnRecord
  <1>5. ASSUME NEW w \in Worker, SubmitSave(w)
        PROVE  PaperPlansOnRecord' /\ HeldIsUsed'
    <2>1. /\ wo' = wo /\ web'[w].pc = "idle" /\ \A v \in Worker \ {w} : web'[v] = web[v]
      BY <1>t, <1>5 DEF SubmitSave, Finish, Idle
    <2>2. HeldIsUsed'
      BY <2>1 DEF PaperInv, HeldIsUsed
    <2>3. ASSUME NEW p \in Plan, wo[p].state # "unused", Paper(wo[p].subject)
          PROVE  OnRecord(p)'
      <3>1. Holding(w, p) => row'[wo[p].subject].plan = p
        <4>1. Holding(w, p) => web[w].entity = wo[p].subject /\ web[w].entity \in Entity
          BY DEF Holding, PaperInv, HeldIsUsed, LockInv, RequestsHaveRecord
        <4> QED
          BY <1>t, <1>5, <4>1 DEF SubmitSave, Holding, Row
      <3> QED
        BY <1>p, <2>1, <2>3, <3>1 DEF OnRecord, Holding
    <2> QED
      BY <2>1, <2>2, <2>3 DEF PaperPlansOnRecord
  <1>6. ASSUME NEW p \in Plan, NEW d \in Decision, WODecide(p, d)
        PROVE  PaperPlansOnRecord' /\ HeldIsUsed'
    BY <1>t, <1>1, <1>6 DEF WODecide, WOPlan, Decision
  <1>7. ASSUME UNCHANGED <<wo, web>> PROVE PaperPlansOnRecord' /\ HeldIsUsed'
    BY <1>1, <1>7
  <1> QED
    BY <1>2, <1>3, <1>4, <1>5, <1>6, <1>7
       DEF Core, SubmitStep, Consume, Restarts, CommitOffset, ConsumerRestart, vars

LEMMA PapersAsDecidedStep ==
    ASSUME PaperInv, [Core \/ Restarts]_vars
    PROVE  PapersAsDecided'
  <1>t. /\ row \in [Entity -> Row] /\ wo \in [Plan -> WOPlan] /\ None \notin Plan
    BY ConstantsAssumption DEF PaperInv, LockInv, TypeOK
  <1>w. \A p \in Plan : wo[p].state \in Decision => wo'[p] = wo[p]
    BY <1>t DEF Core, SubmitStep, SubmitRead, SubmitUnlocked, SubmitLock, CallFails, SubmitSave,
           Consume, CreatePlan, WODecide, Restarts, CommitOffset, ConsumerRestart, vars, Decision
  <1> SUFFICES ASSUME NEW e \in Entity, Paper(e)
               PROVE  /\ row'[e].status # "deleted"
                      /\ \A p \in Plan : row'[e].plan = p /\ row'[e].status # WorkingPaper.start =>
                            wo'[p].state \in Decision /\ row'[e] = OnWorkingPaper(row'[e], wo'[p].state)
    BY DEF PapersAsDecided, Paper
  <1>1. CASE row'[e] = row[e]
    BY <1>w, <1>1 DEF PaperInv, PapersAsDecided
  <1>2. CASE row'[e].status = WorkingPaper.start
    BY <1>2 DEF WorkingPaper
  <1>3. CASE /\ row[e].plan \in Plan /\ wo[row[e].plan].state \in Decision
             /\ row'[e] = OnWorkingPaper(row[e], wo[row[e].plan].state)
             /\ wo' = wo
    BY <1>t, <1>3, PaperFacts
  <1> QED
    BY <1>1, <1>2, <1>3, PaperRowStep

LEMMA PaperInit == Init => PaperInv
  <1>1. Init => /\ RequestsHaveRecord /\ LockHeld /\ PlansHaveRecord /\ EventsTrue
                /\ PaperPlansOnRecord /\ HeldIsUsed
    BY DEF Init, RequestsHaveRecord, LockHeld, PlansHaveRecord, EventsTrue, Idle,
           PaperPlansOnRecord, HeldIsUsed
  <1>2. Init => PapersAsDecided
    BY ConstantsAssumption DEF Init, PapersAsDecided, NewRow
  <1> QED
    BY <1>1, <1>2, TypeCorrectInit DEF PaperInv, LockInv

LEMMA PaperStep ==
    ASSUME PaperInv, [Core \/ Restarts]_vars
    PROVE  PaperInv'
  <1>1. [Next]_vars
    BY DEF Next, Faults
  <1>2. LockInv' /\ PlansHaveRecord' /\ EventsTrue'
    BY <1>1, LockStep, EventStep DEF PaperInv, LockInv
  <1> QED
    BY <1>2, PaperPlansStep, PapersAsDecidedStep DEF PaperInv

\* However often the consumer restarts, and whatever it takes again from its
\* committed offset, a paper out of review keeps what WO decided: the plan
\* stays on the row, the service starts no other, and every event of the
\* paper tells the same decision (_handle_working_paper_completion,
\* submit_for_review).
THEOREM PapersOutliveReplay == RestartSpec => PaperDecisionStands
  <1>1. Init => PaperInv
    BY PaperInit
  <1>2. PaperInv /\ [Core \/ Restarts]_vars => PaperInv'
    BY PaperStep
  <1>3. PaperInv /\ [Core \/ Restarts]_vars =>
           [\A e \in Entity :
                /\ KindOf[e] = "working_paper"
                /\ row[e].plan # None /\ row[e].status # WorkingPaper.start
                => row'[e] = row[e]]_row
    <2> SUFFICES ASSUME PaperInv, [Core \/ Restarts]_vars, NEW e \in Entity, Paper(e),
                        row[e].plan # None, row[e].status # WorkingPaper.start
                 PROVE  row'[e] = row[e]
      BY DEF Paper
    <2>1. row[e].plan \in Plan
      BY DEF PaperInv, LockInv, TypeOK, Row
    <2>2. row[e] = OnWorkingPaper(row[e], wo[row[e].plan].state)
      BY <2>1 DEF PaperInv, PapersAsDecided
    <2> QED
      BY <2>2, PaperRowStep
  <1> QED
    BY <1>1, <1>2, <1>3, PTL DEF RestartSpec, PaperDecisionStands

\* What the consumer has taken of a paper shows on it ...
TakenShows ==
    \A i \in 1..pos : Paper(wo[log[i].plan].subject) =>
        /\ row[wo[log[i].plan].subject].plan = log[i].plan
        /\ row[wo[log[i].plan].subject].status # WorkingPaper.start

\* ... and WO publishes each decision.
DecisionsPublished ==
    \A p \in Plan : wo[p].state \in Decision => \E i \in 1..Len(log) : log[i].plan = p

HearingInv == PaperInv /\ TakenShows /\ DecisionsPublished

\* Decided plans, and the events of them, stay as they are.
LEMMA TopicGrows ==
    ASSUME TypeOK, EventsTrue, [Core \/ Restarts]_vars
    PROVE  /\ Len(log) <= Len(log')
           /\ \A i \in 1..Len(log) : log'[i] = log[i] /\ log[i].plan \in Plan
                                     /\ wo[log[i].plan].state \in Decision
           /\ \A p \in Plan : wo[p].state \in Decision => wo'[p] = wo[p]
  <1>t. wo \in [Plan -> WOPlan] /\ log \in Seq(Event) /\ Len(log) \in Nat
    BY DEF TypeOK
  <1>1. \A i \in 1..Len(log) : log[i].plan \in Plan /\ wo[log[i].plan].state \in Decision
    <2>1. \A i \in 1..Len(log) : log[i] \in Event
      BY <1>t
    <2> QED
      BY <2>1 DEF EventsTrue, Event
  <1>2. ASSUME NEW p \in Plan, NEW d \in Decision, WODecide(p, d)
        PROVE  /\ Len(log) <= Len(log') /\ \A i \in 1..Len(log) : log'[i] = log[i]
               /\ \A q \in Plan : wo[q].state \in Decision => wo'[q] = wo[q]
    <2>1. [plan |-> p, decision |-> d] \in Event
      BY DEF Event
    <2> QED
      BY <1>t, <1>2, <2>1 DEF WODecide, Decision
  <1>3. ASSUME NEW w \in Worker, NEW p \in Plan, CreatePlan(w, p)
        PROVE  log' = log /\ \A q \in Plan : wo[q].state \in Decision => wo'[q] = wo[q]
    BY <1>t, <1>3 DEF CreatePlan, Decision
  <1>4. /\ Len(log) <= Len(log') /\ \A i \in 1..Len(log) : log'[i] = log[i]
        /\ \A p \in Plan : wo[p].state \in Decision => wo'[p] = wo[p]
    <2>1. CASE \E p \in Plan, d \in Decision : WODecide(p, d)
      BY <1>2, <2>1
    <2>2. CASE log' = log /\ \A p \in Plan : wo[p].state \in Decision => wo'[p] = wo[p]
      BY <1>t, <2>2
    <2> QED
      BY <1>3, <2>1, <2>2
         DEF Core, SubmitStep, SubmitRead, SubmitUnlocked, SubmitLock, CallFails, SubmitSave,
             Consume, Restarts, CommitOffset, ConsumerRestart, vars
  <1> QED
    BY <1>1, <1>4

\* Every decision stays published.
LEMMA PublishedStep ==
    ASSUME TypeOK, EventsTrue, DecisionsPublished, [Core \/ Restarts]_vars
    PROVE  DecisionsPublished'
  <1>t. wo \in [Plan -> WOPlan] /\ log \in Seq(Event) /\ Len(log) \in Nat
    BY DEF TypeOK
  <1>1. ASSUME NEW p \in Plan, NEW d \in Decision, WODecide(p, d)
        PROVE  DecisionsPublished'
    <2>1. [plan |-> p, decision |-> d] \in Event
      BY DEF Event
    <2>2. /\ Len(log') = Len(log) + 1 /\ log'[Len(log) + 1].plan = p
          /\ \A i \in 1..Len(log) : log'[i] = log[i]
          /\ \A q \in Plan \ {p} : wo'[q] = wo[q]
      BY <1>t, <1>1, <2>1 DEF WODecide
    <2>3. \A q \in Plan \ {p} : wo'[q].state \in Decision => \E i \in 1..Len(log') : log'[i].plan = q
      BY <1>t, <2>2 DEF DecisionsPublished
    <2>4. Len(log) + 1 \in 1..Len(log')
      BY <1>t, <2>2
    <2> QED
      BY <2>2, <2>3, <2>4 DEF DecisionsPublished
  <1>2. ASSUME NEW w \in Worker, NEW p \in Plan, CreatePlan(w, p)
        PROVE  DecisionsPublished'
    BY <1>t, <1>2 DEF CreatePlan, DecisionsPublished, Decision
  <1>3. CASE UNCHANGED <<wo, log>>
    BY <1>3 DEF DecisionsPublished
  <1> QED
    BY <1>1, <1>2, <1>3
       DEF Core, SubmitStep, SubmitRead, SubmitUnlocked, SubmitLock, CallFails, SubmitSave,
           Consume, Restarts, CommitOffset, ConsumerRestart, vars

\* An event just taken shows by PaperConsumed; one taken before has put its
\* plan on the row, so that no submission is saved over it; a restart only
\* takes the position back.
LEMMA TakenStep ==
    ASSUME HearingInv, [Core \/ Restarts]_vars
    PROVE  TakenShows'
  <1>t. /\ row \in [Entity -> Row] /\ None \notin Plan
        /\ pos \in Nat /\ committed \in Nat /\ Len(log) \in Nat
        /\ pos <= Len(log) /\ committed <= pos /\ TypeOK
    BY ConstantsAssumption DEF HearingInv, PaperInv, LockInv, TypeOK
  <1>g. /\ Len(log) <= Len(log')
        /\ \A i \in 1..Len(log) : log'[i] = log[i] /\ log[i].plan \in Plan
                                  /\ wo[log[i].plan].state \in Decision
        /\ \A p \in Plan : wo[p].state \in Decision => wo'[p] = wo[p]
    BY <1>t, TopicGrows DEF HearingInv, PaperInv
  <1>1. ASSUME NEW i \in 1..Len(log), Paper(wo[log[i].plan].subject)
        PROVE  /\ wo'[log'[i].plan].subject = wo[log[i].plan].subject
               /\ log'[i].plan = log[i].plan
               /\ wo[log[i].plan].subject \in Entity
    BY <1>g DEF HearingInv, PaperInv, PlansHaveRecord, Decision
  <1>2. ASSUME NEW i \in 1..pos, Paper(wo[log[i].plan].subject)
        PROVE  /\ row'[wo[log[i].plan].subject].plan = log[i].plan
               /\ row'[wo[log[i].plan].subject].status # WorkingPaper.start
    <2> DEFINE e == wo[log[i].plan].subject
    <2>1. /\ e \in Entity /\ log[i].plan \in Plan
          /\ row[e].plan = log[i].plan /\ row[e].status # WorkingPaper.start
      BY <1>t, <1>g, <1>1, <1>2 DEF HearingInv, TakenShows
    <2>2. CASE row'[e] = row[e]
      BY <2>1, <2>2
    <2>3. CASE /\ row[e].plan \in Plan /\ wo[row[e].plan].state \in Decision
               /\ row'[e] = OnWorkingPaper(row[e], wo[row[e].plan].state)
      <3>1. row[e] \in Row
        BY <1>t, <2>1
      <3> QED
        BY <2>1, <2>3, <3>1, PaperFacts DEF WorkingPaper
    <2> QED
      BY <1>t, <1>2, <2>1, <2>2, <2>3, PaperRowStep DEF HearingInv
  <1>3. ASSUME Consume, Paper(wo[log[pos + 1].plan].subject)
        PROVE  /\ row'[wo[log[pos + 1].plan].subject].plan = log[pos + 1].plan
               /\ row'[wo[log[pos + 1].plan].subject].status # WorkingPaper.start
    <2> DEFINE p == log[pos + 1].plan
               e == wo[p].subject
    <2>1. /\ e \in Entity /\ p \in Plan /\ wo[p].state \in Decision /\ row[e].plan = p
          /\ row' = [row EXCEPT ![e] = OnWorkingPaper(row[e], wo[p].state)]
      BY <1>3, PaperConsumed DEF HearingInv
    <2>2. row'[e] = OnWorkingPaper(row[e], wo[p].state) /\ row[e] \in Row
      BY <1>t, <2>1
    <2> QED
      BY <2>1, <2>2, PaperFacts DEF WorkingPaper
  <1>4. ASSUME NEW i \in 1..pos', i \notin 1..pos
        PROVE  Consume /\ i = pos + 1 /\ i \in 1..Len(log)
    <2>1. pos' = pos \/ pos' = committed \/ Consume
      BY DEF Core, SubmitStep, SubmitRead, SubmitUnlocked, SubmitLock, CreatePlan, CallFails,
             SubmitSave, WODecide, Restarts, CommitOffset, ConsumerRestart, vars
    <2>2. Consume => pos' = pos + 1 /\ pos < Len(log)
      BY DEF Consume
    <2> QED
      BY <1>t, <1>4, <2>1, <2>2
  <1>5. ASSUME NEW i \in 1..pos', Paper(wo'[log'[i].plan].subject)
        PROVE  /\ row'[wo'[log'[i].plan].subject].plan = log'[i].plan
               /\ row'[wo'[log'[i].plan].subject].status # WorkingPaper.start
    <2>1. i \in 1..Len(log)
      BY <1>t, <1>4
    <2>2. Paper(wo[log[i].plan].subject) /\ wo'[log'[i].plan].subject = wo[log[i].plan].subject
          /\ log'[i].plan = log[i].plan
      BY <1>5, <1>g, <2>1
    <2>3. CASE i \in 1..pos
      BY <1>2, <2>2, <2>3
    <2>4. CASE i \notin 1..pos
      BY <1>3, <1>4, <2>2, <2>4
    <2> QED
      BY <2>3, <2>4
  <1> QED
    BY <1>5 DEF TakenShows, Paper

\* A paper hears every decision made about it, with any number of restarts
\* of the consumer: the event is ahead of the consumer, or the paper is as
\* decided.  What fairness adds to this is that the consumer gets there
\* (_handle_working_paper_completion, consume_messages).
THEOREM PapersHearDecisions ==
    ASSUME \A e \in Entity : KindOf[e] = "working_paper"
    PROVE  RestartSpec => []NoDecisionLost
  <1>1. Init => HearingInv
    <2>1. Init => TakenShows /\ DecisionsPublished
      BY DEF Init, TakenShows, DecisionsPublished, Decision
    <2> QED
      BY <2>1, PaperInit DEF HearingInv
  <1>2. HearingInv /\ [Core \/ Restarts]_vars => HearingInv'
    BY PaperStep, TakenStep, PublishedStep DEF HearingInv, PaperInv, LockInv
  <1>3. HearingInv => NoDecisionLost
    <2> SUFFICES ASSUME HearingInv, NEW p \in Plan, NEW e \in Entity, Decided(p, e), ~OnItsWay(p)
                 PROVE  Settled(p, e)
      BY DEF NoDecisionLost
    <2>1. PICK i \in 1..Len(log) : log[i].plan = p
      BY DEF HearingInv, DecisionsPublished, Decided
    <2>2. i \in 1..pos
      BY <2>1 DEF OnItsWay, HearingInv, PaperInv, LockInv, TypeOK
    <2>3. row[e].plan = p /\ row[e].status # WorkingPaper.start
      BY <2>1, <2>2 DEF HearingInv, TakenShows, Decided, Paper
    <2>4. row[e] = OnWorkingPaper(row[e], wo[p].state) /\ row[e] \in Row
      BY <2>3 DEF HearingInv, PaperInv, PapersAsDecided, Paper, LockInv, TypeOK
    <2>5. row[e].status = CASE wo[p].state = "approved"  -> "approved"
                            [] wo[p].state = "rejected"  -> "reviewed"
                            [] wo[p].state = "cancelled" -> "draft"
      BY <2>4 DEF OnWorkingPaper, Row
    <2> QED
      BY <2>5 DEF Settled, Decided, Decision
  <1> QED
    BY <1>1, <1>2, <1>3, PTL DEF RestartSpec

---------------------------------------------------------------------------
(* The contract.                                                           *)

\* The status says where the plan on record is: none for a draft, decided
\* for an approved record, open in the review.
StatusFollowsPlan ==
    \A e \in Entity :
        /\ row[e].status \in {"draft", "approved", Rule(e).start}
        /\ row[e].status = "draft" <=> row[e].plan = None
        /\ \A p \in Plan : row[e].plan = p =>
              wo[p].state # "unused" /\ (row[e].status = "approved" => ~Open(p))

StatusInv == SerialInv /\ StatusFollowsPlan

\* A submission that is saved finds a draft ...
LEMMA SaveStarts ==
    ASSUME TwoKinds, StatusInv, NEW w \in Worker, SubmitSave(w)
    PROVE  /\ StatusFollowsPlan'
           /\ \E e \in Entity : \E r \in Row :
                 /\ row' = [row EXCEPT ![e] = r]
                 /\ row[e].status = "draft" /\ r.status = Rule(e).start
  <1> DEFINE e == web[w].entity
             p == web[w].plan
             r == [row[e] EXCEPT !.plan = p, !.status = Rule(e).start]
  <1>t. row \in [Entity -> Row] /\ None \notin Plan
    BY ConstantsAssumption DEF StatusInv, SerialInv, LockInv, TypeOK
  <1>1. e \in Entity /\ row[e].plan = None
    BY TwoKindsLock DEF SubmitSave, StatusInv, SerialInv, LockInv, RequestsHaveRecord, LockHeld
  <1>2. p \in Plan /\ wo[p].state # "unused"
    <2>1. p \in Plan /\ Open(p)
      BY DEF SubmitSave, StatusInv, SerialInv, PlanInv, HeldIsOpen
    <2>2. log \in Seq(Event) /\ pos \in Nat /\ Len(log) \in Nat
      BY DEF StatusInv, SerialInv, LockInv, TypeOK
    <2> QED
      BY <2>1, <2>2 DEF Open, StatusInv, SerialInv, PlanInv, DecidedOnce, Decision
  <1>3. row[e].status = "draft"
    BY <1>1 DEF StatusInv, StatusFollowsPlan
  <1>4. Rule(e).start \in Status \ {"approved", "deleted", "draft", "reviewed"}
    BY <1>1, RuleFacts
  <1>5. r \in Row /\ r.status = Rule(e).start /\ r.plan = p
    BY <1>t, <1>1, <1>2, <1>4 DEF Row
  <1>6. row' = [row EXCEPT ![e] = r]
    <2>1. row' = [row EXCEPT ![e].plan = p, ![e].status = Rule(e).start]
      BY DEF SubmitSave
    <2> QED
      BY <1>t, <1>1, <2>1
  <1> HIDE DEF e, p, r
  <1>7. row'[e] = r /\ \A f \in Entity \ {e} : row'[f] = row[f]
    BY <1>t, <1>1, <1>6
  <1>8. wo' = wo /\ \A q \in Plan : Open(q)' <=> Open(q)
    BY DEF SubmitSave, Open
  <1>9. StatusFollowsPlan'
    BY <1>t, <1>2, <1>4, <1>5, <1>7, <1>8 DEF StatusInv, StatusFollowsPlan
  <1> QED
    BY <1>1, <1>3, <1>5, <1>6, <1>9

\* ... and a decision finds its record in the review.
LEMMA ConsumeDecides ==
    ASSUME TwoKinds, StatusInv, Consume
    PROVE  /\ StatusFollowsPlan'
           /\ \E e \in Entity : \E r \in Row :
                 /\ row' = [row EXCEPT ![e] = r]
                 /\ row[e].status = Rule(e).start /\ r.status \in {"approved", "draft"}
  <1>t. row \in [Entity -> Row] /\ None \notin Plan
    BY ConstantsAssumption DEF StatusInv, SerialInv, LockInv, TypeOK
  <1>1. PICK p \in Plan, d \in Decision, e \in Entity :
           /\ wo[p].subject = e /\ Open(p) /\ row[e].plan = p
           /\ row' = [row EXCEPT ![e] = OnDecision(KindOf[e], row[e], d)]
           /\ wo' = wo /\ \A q \in Plan : Open(q)' <=> Open(q) /\ q # p
    BY TwoKindsLock, ConsumeTakes DEF StatusInv
  <1>2. row[e].status = Rule(e).start
    BY <1>t, <1>1 DEF StatusInv, StatusFollowsPlan
  <1> DEFINE r == OnDecision(KindOf[e], row[e], d)
  <1>3. r = OnAuditUniverse(row[e], d)
    BY <1>1 DEF TwoKinds, OnDecision, OnAuditPlan
  <1>4. row[e] \in Row
    BY <1>t
  <1>5. r \in Row
    BY <1>4, DecisionFacts
  <1>6. \/ r.status = "approved" /\ r.plan = p
        \/ r.status = "draft" /\ r.plan = None
    BY <1>1, <1>3, <1>4 DEF OnAuditUniverse, Row
  <1> HIDE DEF r
  <1>7. row' = [row EXCEPT ![e] = r]
    BY <1>1 DEF r
  <1>8. row'[e] = r /\ \A f \in Entity \ {e} : row'[f] = row[f]
    BY <1>t, <1>7
  <1>9. StatusFollowsPlan'
    BY <1>t, <1>1, <1>6, <1>8 DEF StatusInv, StatusFollowsPlan
  <1> QED
    BY <1>2, <1>5, <1>6, <1>7, <1>9

\* The other steps leave the rows as they are; a plan is created that is on
\* none of them.
LEMMA OthersLeaveRows ==
    ASSUME StatusInv, [Core]_vars, ~Consume, \A w \in Worker : ~SubmitSave(w)
    PROVE  row' = row /\ StatusFollowsPlan'
  <1>t. /\ wo \in [Plan -> WOPlan] /\ log \in Seq(Event) /\ pos \in Nat /\ Len(log) \in Nat
    BY DEF StatusInv, SerialInv, LockInv, TypeOK
  <1>1. row' = row
    BY DEF Core, SubmitStep, SubmitRead, SubmitUnlocked, SubmitLock, CreatePlan, CallFails,
           WODecide, vars
  <1>2. ASSUME UNCHANGED <<wo, log, pos>> PROVE StatusFollowsPlan'
    <2>1. \A p \in Plan : Open(p)' <=> Open(p)
      BY <1>2 DEF Open
    <2> QED
      BY <1>1, <1>2, <2>1 DEF StatusInv, StatusFollowsPlan
  <1>3. ASSUME NEW q \in Plan, NEW d \in Decision, WODecide(q, d) PROVE StatusFollowsPlan'
    <2>1. /\ wo[q].state = "live" /\ log' = Append(log, [plan |-> q, decision |-> d])
          /\ wo' = [wo EXCEPT ![q].state = d] /\ pos' = pos
      BY <1>3 DEF WODecide
    <2>2. /\ Len(log') = Len(log) + 1 /\ log'[Len(log) + 1].plan = q
          /\ \A i \in 1..Len(log) : log'[i] = log[i]
      BY <1>t, <2>1
    <2>3. wo'[q].state = d /\ \A p \in Plan \ {q} : wo'[p] = wo[p]
      BY <1>t, <2>1 DEF WOPlan
    <2>4. \A p \in Plan : Open(p)' => Open(p)
      BY <1>t, <2>1, <2>2, <2>3 DEF Open, Decision
    <2>5. \A p \in Plan : wo[p].state # "unused" => wo'[p].state # "unused"
      BY <2>3 DEF Decision
    <2> QED
      BY <1>1, <2>4, <2>5 DEF StatusInv, StatusFollowsPlan
  <1>4. ASSUME NEW w \in Worker, NEW q \in Plan, CreatePlan(w, q) PROVE StatusFollowsPlan'
    <2>1. /\ wo[q].state = "unused" /\ wo'[q].state = "live"
          /\ (\A p \in Plan \ {q} : wo'[p] = wo[p]) /\ UNCHANGED <<log, pos>>
      BY <1>t, <1>4 DEF CreatePlan
    <2>2. \A p \in Plan \ {q} : Open(p)' <=> Open(p)
      BY <2>1 DEF Open
    <2> QED
      BY <1>1, <2>1, <2>2 DEF StatusInv, StatusFollowsPlan
  <1>5. \/ UNCHANGED <<wo, log, pos>>
        \/ \E q \in Plan, d \in Decision : WODecide(q, d)
        \/ \E w \in Worker, q \in Plan : CreatePlan(w, q)
    BY DEF Core, SubmitStep, SubmitRead, SubmitUnlocked, SubmitLock, CallFails, vars
  <1> QED
    BY <1>1, <1>2, <1>3, <1>4, <1>5

LEMMA StatusStep ==
    ASSUME TwoKinds
    PROVE  StatusInv /\ [Core]_vars => StatusInv'
  <1> SUFFICES ASSUME StatusInv, [Core]_vars PROVE StatusFollowsPlan'
    BY TwoKindsLock, SerialStep DEF StatusInv
  <1> QED
    BY SaveStarts, ConsumeDecides, OthersLeaveRows

LEMMA StatusInit == Init => StatusInv
  <1> SUFFICES ASSUME Init PROVE StatusFollowsPlan
    BY SerialInit DEF StatusInv
  <1> QED
    BY ConstantsAssumption DEF Init, NewRow, StatusFollowsPlan

\* What a change of one row is in the contract.
LEMMA PhaseOfChange ==
    ASSUME TypeOK, NEW e \in Entity, NEW r, row' = [row EXCEPT ![e] = r]
    PROVE  [f \in Entity |-> PhaseOf(row[f])]' =
              [[f \in Entity |-> PhaseOf(row[f])] EXCEPT ![e] = PhaseOf(r)]
  BY DEF TypeOK

LEMMA ContractStep ==
    ASSUME TwoKinds, StatusInv, [Core]_vars
    PROVE  [Contract!Next]_([e \in Entity |-> PhaseOf(row[e])])
  <1> DEFINE phase == [e \in Entity |-> PhaseOf(row[e])]
  <1>t. TypeOK
    BY DEF StatusInv, SerialInv, LockInv
  <1>1. \A e \in Entity, r \in Row : r.status = Rule(e).start => PhaseOf(r) = "inReview"
    BY RuleFacts DEF PhaseOf
  <1>2. \A r \in Row : /\ r.status = "draft" => PhaseOf(r) = "open"
                       /\ r.status = "approved" => PhaseOf(r) = "approved"
    BY DEF PhaseOf
  <1>3. \A e \in Entity : row[e] \in Row /\ phase[e] = PhaseOf(row[e])
    BY <1>t DEF TypeOK
  <1>4. ASSUME NEW w \in Worker, SubmitSave(w) PROVE Contract!Next
    <2>1. PICK e \in Entity, r \in Row :
             /\ row' = [row EXCEPT ![e] = r]
             /\ row[e].status = "draft" /\ r.status = Rule(e).start
      BY <1>4, SaveStarts
    <2>2. phase' = [phase EXCEPT ![e] = PhaseOf(r)]
      BY <1>t, <2>1, PhaseOfChange
    <2>3. phase[e] = "open" /\ PhaseOf(r) = "inReview"
      BY <1>1, <1>2, <1>3, <2>1
    <2>4. Contract!Start(e)
      BY <2>2, <2>3 DEF Contract!Start
    <2> QED
      BY <2>4 DEF Contract!Next
  <1>5. ASSUME Consume PROVE Contract!Next
    <2>1. PICK e \in Entity, r \in Row :
             /\ row' = [row EXCEPT ![e] = r]
             /\ row[e].status = Rule(e).start /\ r.status \in {"approved", "draft"}
      BY <1>5, ConsumeDecides
    <2>2. phase' = [phase EXCEPT ![e] = PhaseOf(r)]
      BY <1>t, <2>1, PhaseOfChange
    <2>3. phase[e] = "inReview"
      BY <1>1, <1>3, <2>1
    <2>4. CASE r.status = "approved"
      <3>1. Contract!Approve(e)
        BY <1>2, <2>2, <2>3, <2>4 DEF Contract!Approve
      <3> QED
        BY <3>1 DEF Contract!Next
    <2>5. CASE r.status = "draft"
      <3>1. Contract!SendBack(e)
        BY <1>2, <2>2, <2>3, <2>5 DEF Contract!SendBack
      <3> QED
        BY <3>1 DEF Contract!Next
    <2> QED
      BY <2>1, <2>4, <2>5
  <1>6. ASSUME row' = row PROVE phase' = phase
    BY <1>6
  <1> QED
    BY <1>4, <1>5, <1>6, OthersLeaveRows

\* The life of a universe or a plan is the contract's, while nothing fails:
\* into review, and out of it approved for good or as a draft again.
THEOREM ApprovalsKeepTheContract ==
    ASSUME TwoKinds
    PROVE  ReliableSpec => ImplementsContract
  <1>1. Init => Contract!Init
    BY DEF Init, Contract!Init, PhaseOf, NewRow
  <1>2. StatusInv /\ [Core]_vars => [Contract!Next]_([e \in Entity |-> PhaseOf(row[e])])
    BY ContractStep
  <1>3. StatusInv /\ [Core]_vars => StatusInv'
    BY StatusStep
  <1> QED
    BY <1>1, <1>2, <1>3, StatusInit, PTL DEF ReliableSpec, ImplementsContract, Contract!Spec
============================================================================
