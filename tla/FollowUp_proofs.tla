-------------------------- MODULE FollowUp_proofs --------------------------
(***************************************************************************)
(* Theorems about FollowUp, for every set of findings, recommendations and *)
(* workers.                                                                *)
(***************************************************************************)
EXTENDS FollowUp, TLAPS

\* A request that is waiting to write is about a row that exists, and its
\* copies and targets have the statuses of such a row.
Pending(q) ==
    /\ q.op \in {"edit finding", "move finding", "answer", "delete finding",
                 "drop finding", "add recommendation"} => q.f \in Finding
    /\ q.op = "move finding" => q.to \in FindingPhase
    /\ q.op \in {"edit recommendation", "move recommendation",
                 "delete recommendation", "drop recommendation"} =>
          q.r \in Recommendation /\ rec[q.r].status # "none"
    /\ q.op = "edit recommendation" => q.rec.status \in Phase
    /\ q.op = "move recommendation" => q.to \in Phase

TypeInv == TypeOK /\ \A w \in Worker : Pending(web[w])

LEMMA IdleType == Idle \in Request /\ Idle.op = "idle"
  BY DEF Idle, Request, Op, NoFinding, NoRec, FindingRow, RecRow

\* Rows that are only looked at keep their status alone.
LEMMA SeenType ==
    ASSUME TypeOK
    PROVE  /\ \A f \in Finding : SeenFinding(f) \in FindingRow
           /\ \A r \in Recommendation : SeenRec(r) \in RecRow
  BY DEF TypeOK, SeenFinding, SeenRec, NoFinding, NoRec, FindingRow, RecRow

LEMMA BeginType ==
    ASSUME TypeInv, NEW w \in Worker, NEW q \in Request, Begin(w, q), Pending(q)
    PROVE  TypeInv'
  <1>1. web' \in [Worker -> Request] /\ UNCHANGED <<open, finding, finalised, rec, was, mon>>
    BY DEF TypeInv, TypeOK, Begin, rows
  <1>2. ASSUME NEW v \in Worker PROVE Pending(web[v])'
    <2>1. web'[v] = q \/ web'[v] = web[v]
      BY DEF TypeInv, TypeOK, Begin
    <2>2. Pending(web[v])
      BY DEF TypeInv
    <2> QED
      BY <1>1, <2>1, <2>2 DEF Pending
  <1> QED
    BY <1>1, <1>2 DEF TypeInv, TypeOK

\* The other requests still fit when w ends with a write that removes no
\* recommendation.
LEMMA EndType ==
    ASSUME TypeInv, NEW w \in Worker, NEW op, End(w, op),
           \A r \in Recommendation : rec[r].status # "none" => rec'[r].status # "none"
    PROVE  /\ web' \in [Worker -> Request]
           /\ \A v \in Worker : Pending(web[v])'
           /\ open' \in BOOLEAN
  <1>1. web' \in [Worker -> Request]
    BY IdleType DEF TypeInv, TypeOK, End
  <1>2. ASSUME NEW v \in Worker PROVE Pending(web[v])'
    <2>1. web'[v] = Idle \/ web'[v] = web[v]
      BY DEF TypeInv, TypeOK, End
    <2>2. Pending(web[v])
      BY DEF TypeInv
    <2>3. CASE web'[v] = Idle
      BY <2>3, IdleType DEF Pending
    <2>4. CASE web'[v] = web[v]
      BY <2>4, <2>2 DEF Pending
    <2> QED
      BY <2>1, <2>3, <2>4
  <1>3. open' \in BOOLEAN
    BY DEF End, TypeInv, TypeOK
  <1> QED
    BY <1>1, <1>2, <1>3

LEMMA SaveFindingType ==
    ASSUME TypeInv, NEW w \in Worker, NEW op, End(w, op),
           NEW f \in Finding, NEW row \in FindingRow, SaveFinding(f, row)
    PROVE  TypeInv'
  <1>1. UNCHANGED <<rec, was, mon>> /\ finding' \in [Finding -> FindingRow]
        /\ finalised' \subseteq Finding
    BY DEF SaveFinding, TypeInv, TypeOK
  <1>2. \A r \in Recommendation : rec[r].status # "none" => rec'[r].status # "none"
    BY <1>1
  <1> QED
    BY <1>1, <1>2, EndType DEF TypeInv, TypeOK

LEMMA SaveRecType ==
    ASSUME TypeInv, NEW w \in Worker, NEW op, End(w, op),
           NEW r \in Recommendation, NEW row \in RecRow, row.status \in Phase,
           SaveRec(r, row)
    PROVE  TypeInv'
  <1>1. /\ UNCHANGED <<finding, finalised, mon>>
        /\ rec' \in [Recommendation -> RecRow]
        /\ was' \in [Recommendation -> SUBSET Phase]
    BY DEF SaveRec, TypeInv, TypeOK
  <1>2. \A x \in Recommendation : rec[x].status # "none" => rec'[x].status # "none"
    BY DEF SaveRec, TypeInv, TypeOK, Phase
  <1> QED
    BY <1>1, <1>2, EndType DEF TypeInv, TypeOK

LEMMA SaveMonitoringType ==
    ASSUME TypeInv, NEW w \in Worker, NEW op, End(w, op),
           mon' \in [Recommendation -> {"none", "active", "deleted"}],
           UNCHANGED <<finding, finalised, rec, was>>
    PROVE  TypeInv'
  BY EndType DEF TypeInv, TypeOK

LEMMA TypeInit == Init => TypeInv
  <1> SUFFICES ASSUME Init PROVE TypeInv
    OBVIOUS
  <1>1. NoFinding \in FindingRow /\ NoRec \in RecRow
    BY DEF NoFinding, NoRec, FindingRow, RecRow
  <1> QED
    BY <1>1, IdleType DEF Init, TypeInv, TypeOK, Pending

\* The steps of a request about a finding.
LEMMA FindingStepType ==
    ASSUME TypeInv, NEW w \in Worker, FindingStep(w)
    PROVE  TypeInv'
  <1>0. Pending(web[w]) /\ web[w] \in Request
    BY DEF TypeInv, TypeOK
  <1>1. CASE AddFindingRead(w)
    <2>1. [Idle EXCEPT !.op = "add finding"] \in Request
      BY IdleType DEF Request, Op
    <2>2. Pending([Idle EXCEPT !.op = "add finding"])
      BY IdleType DEF Pending, Request
    <2> QED
      BY <1>1, <2>1, <2>2, BeginType DEF AddFindingRead
  <1>2. CASE \E f \in Finding : AddFindingSave(w, f)
    <2>1. PICK f \in Finding, s \in {"draft"} \union FindingBodies,
               a \in SUBSET Party, v \in BOOLEAN :
              End(w, "add finding") /\
              SaveFinding(f, [status |-> s, answered |-> a, active |-> v])
      BY <1>2 DEF AddFindingSave
    <2>2. [status |-> s, answered |-> a, active |-> v] \in FindingRow
      BY ConstantsAssumption DEF FindingRow, FindingPhase
    <2> QED
      BY <2>1, <2>2, SaveFindingType
  <1>3. CASE \E f \in Finding : EditFindingRead(w, f)
    <2>1. PICK f \in Finding : EditFindingRead(w, f)
      BY <1>3
    <2>2. finding[f] \in FindingRow
      BY DEF TypeInv, TypeOK
    <2> DEFINE q == [Idle EXCEPT !.op = "edit finding", !.f = f, !.finding = finding[f]]
    <2>3. q \in Request /\ Pending(q)
      BY <2>2, IdleType DEF Request, Op, Pending
    <2> QED
      BY <2>1, <2>3, BeginType DEF EditFindingRead
  <1>4. CASE EditFindingSave(w)
    <2>1. PICK s \in {web[w].finding.status} \union FindingBodies,
               a \in SUBSET Party, v \in BOOLEAN :
              End(w, "edit finding") /\
              SaveFinding(web[w].f, [status |-> s, answered |-> a, active |-> v])
      BY <1>4 DEF EditFindingSave
    <2>2. web[w].f \in Finding
      BY <1>0, <2>1 DEF End, Pending
    <2>3. [status |-> s, answered |-> a, active |-> v] \in FindingRow
      BY <1>0, ConstantsAssumption DEF Request, FindingRow
    <2> QED
      BY <2>1, <2>2, <2>3, SaveFindingType
  <1>5. CASE \E f \in Finding, t \in FindingPhase :
                FinalizeRead(w, f, t) \/ UpdateFindingRead(w, f, t)
    <2>1. PICK f \in Finding, t \in FindingPhase :
                FinalizeRead(w, f, t) \/ UpdateFindingRead(w, f, t)
      BY <1>5
    <2> DEFINE q == [Idle EXCEPT !.op = "move finding", !.f = f,
                                 !.finding = SeenFinding(f), !.to = t]
    <2>2. SeenFinding(f) \in FindingRow
      BY SeenType DEF TypeInv
    <2>3. q \in Request /\ Pending(q)
      BY <2>2, IdleType DEF Request, Op, Pending
    <2> QED
      BY <2>1, <2>3, BeginType DEF FinalizeRead, UpdateFindingRead
  <1>6. CASE MoveFindingSave(w)
    <2>1. web[w].f \in Finding /\ web[w].to \in FindingPhase
      BY <1>0, <1>6 DEF MoveFindingSave, End, Pending
    <2>2. [finding[web[w].f] EXCEPT !.status = web[w].to] \in FindingRow
      BY <2>1 DEF TypeInv, TypeOK, FindingRow
    <2> QED
      BY <1>6, <2>1, <2>2, SaveFindingType DEF MoveFindingSave
  <1>7. CASE \E f \in Finding : AnswerRead(w, f)
    <2>1. PICK f \in Finding : AnswerRead(w, f)
      BY <1>7
    <2> DEFINE q == [Idle EXCEPT !.op = "answer", !.f = f,
                         !.finding = [finding[f] EXCEPT !.active = FALSE]]
    <2>2. [finding[f] EXCEPT !.active = FALSE] \in FindingRow
      BY DEF TypeInv, TypeOK, FindingRow
    <2>3. q \in Request /\ Pending(q)
      BY <2>2, IdleType DEF Request, Op, Pending
    <2> QED
      BY <2>1, <2>3, BeginType DEF AnswerRead
  <1>8. CASE AnswerSave(w)
    <2>1. PICK given \in SUBSET Party : \E filled \in SUBSET given :
              End(w, "answer") /\
              SaveFinding(web[w].f, [finding[web[w].f] EXCEPT
                  !.answered = (web[w].finding.answered \ given) \union filled])
      BY <1>8 DEF AnswerSave
    <2>2. PICK filled \in SUBSET given :
              End(w, "answer") /\
              SaveFinding(web[w].f, [finding[web[w].f] EXCEPT
                  !.answered = (web[w].finding.answered \ given) \union filled])
      BY <2>1
    <2>3. web[w].f \in Finding
      BY <1>0, <2>2 DEF End, Pending
    <2>4. (web[w].finding.answered \ given) \union filled \in SUBSET Party
      BY <1>0 DEF Request, FindingRow
    <2>5. [finding[web[w].f] EXCEPT
              !.answered = (web[w].finding.answered \ given) \union filled] \in FindingRow
      BY <2>3, <2>4 DEF TypeInv, TypeOK, FindingRow
    <2> QED
      BY <2>2, <2>3, <2>5, SaveFindingType
  <1>9. CASE \E f \in Finding : DeleteFindingRead(w, f)
    <2>1. PICK f \in Finding : DeleteFindingRead(w, f)
      BY <1>9
    <2> DEFINE q == [Idle EXCEPT !.op = "delete finding", !.f = f,
                                 !.finding = SeenFinding(f)]
    <2>2. SeenFinding(f) \in FindingRow
      BY SeenType DEF TypeInv
    <2>3. q \in Request /\ Pending(q)
      BY <2>2, IdleType DEF Request, Op, Pending
    <2> QED
      BY <2>1, <2>3, BeginType DEF DeleteFindingRead
  <1>10. CASE DeleteFindingCheck(w)
    <2> DEFINE q == [web[w] EXCEPT !.op = "drop finding"]
    <2>1. q \in Request /\ Pending(q)
      BY <1>0, <1>10 DEF DeleteFindingCheck, Request, Op, Pending
    <2>2. /\ web' \in [Worker -> Request]
          /\ \A v \in Worker : web'[v] \in {Idle, q, web[v]}
          /\ UNCHANGED <<open, finding, finalised, rec, was, mon>>
      BY <1>10, <2>1, IdleType DEF DeleteFindingCheck, TypeInv, TypeOK, rows
    <2>3. ASSUME NEW v \in Worker PROVE Pending(web[v])'
      <3>1. Pending(web[v])
        BY DEF TypeInv
      <3> QED
        BY <2>1, <2>2, <3>1, IdleType DEF Pending
    <2> QED
      BY <2>2, <2>3 DEF TypeInv, TypeOK
  <1>11. CASE DeleteFindingSave(w)
    <2>1. web[w].f \in Finding
      BY <1>0, <1>11 DEF DeleteFindingSave, End, Pending
    <2>2. [finding[web[w].f] EXCEPT !.active = FALSE] \in FindingRow
      BY <2>1 DEF TypeInv, TypeOK, FindingRow
    <2> QED
      BY <1>11, <2>1, <2>2, SaveFindingType DEF DeleteFindingSave
  <1> QED
    BY <1>1, <1>2, <1>3, <1>4, <1>5, <1>6, <1>7, <1>8, <1>9, <1>10, <1>11
       DEF FindingStep

\* The steps of a request about a recommendation.
LEMMA RecommendationStepType ==
    ASSUME TypeInv, NEW w \in Worker, RecommendationStep(w)
    PROVE  TypeInv'
  <1>0. Pending(web[w]) /\ web[w] \in Request
    BY DEF TypeInv, TypeOK
  <1>1. CASE \E f \in Finding : AddRecRead(w, f)
    <2>1. PICK f \in Finding : AddRecRead(w, f)
      BY <1>1
    <2> DEFINE q == [Idle EXCEPT !.op = "add recommendation", !.f = f]
    <2>2. q \in Request /\ Pending(q)
      BY IdleType DEF Request, Op, Pending
    <2> QED
      BY <2>1, <2>2, BeginType DEF AddRecRead
  <1>2. CASE \E r \in Recommendation : AddRecSave(w, r)
    <2>1. PICK r \in Recommendation, s \in {"open"} \union RecommendationBodies,
               v \in BOOLEAN :
              End(w, "add recommendation") /\
              SaveRec(r, [status |-> s, of |-> web[w].f, active |-> v])
      BY <1>2 DEF AddRecSave
    <2>2. web[w].f \in Finding
      BY <1>0, <2>1 DEF End, Pending
    <2>3. [status |-> s, of |-> web[w].f, active |-> v] \in RecRow /\ s \in Phase
      BY <2>2, ConstantsAssumption DEF RecRow, Phase
    <2> QED
      BY <2>1, <2>3, SaveRecType
  <1>3. CASE \E r \in Recommendation : EditRecRead(w, r)
    <2>1. PICK r \in Recommendation : EditRecRead(w, r)
      BY <1>3
    <2> DEFINE q == [Idle EXCEPT !.op = "edit recommendation", !.r = r, !.rec = rec[r]]
    <2>2. rec[r] \in RecRow
      BY DEF TypeInv, TypeOK
    <2>3. rec[r].status # "none" /\ rec[r].status \in Phase
      BY <2>1, <2>2 DEF EditRecRead, RecRow
    <2>4. q \in Request /\ Pending(q)
      BY <2>2, <2>3, IdleType DEF Request, Op, Pending
    <2> QED
      BY <2>1, <2>4, BeginType DEF EditRecRead
  <1>4. CASE EditRecSave(w)
    <2>1. PICK s \in {web[w].rec.status} \union RecommendationBodies,
               f \in {web[w].rec.of} \union Rehomes, v \in BOOLEAN :
              End(w, "edit recommendation") /\
              SaveRec(web[w].r, [status |-> s, of |-> f, active |-> v])
      BY <1>4 DEF EditRecSave
    <2>2. web[w].r \in Recommendation /\ web[w].rec.status \in Phase
      BY <1>0, <2>1 DEF End, Pending
    <2>3. /\ [status |-> s, of |-> f, active |-> v] \in RecRow
          /\ s \in Phase
      BY <1>0, <2>2, ConstantsAssumption DEF Request, RecRow
    <2> QED
      BY <2>1, <2>2, <2>3, SaveRecType
  <1>5. CASE \E r \in Recommendation, t \in Phase : MoveRecRead(w, r, t)
    <2>1. PICK r \in Recommendation, t \in Phase : MoveRecRead(w, r, t)
      BY <1>5
    <2> DEFINE q == [Idle EXCEPT !.op = "move recommendation", !.r = r,
                                 !.rec = SeenRec(r), !.to = t]
    <2>2. SeenRec(r) \in RecRow
      BY SeenType DEF TypeInv
    <2>3. rec[r].status # "none"
      BY <2>1 DEF MoveRecRead, RecommendationTo
    <2>4. q \in Request /\ Pending(q)
      BY <2>2, <2>3, IdleType DEF Request, Op, Pending
    <2> QED
      BY <2>1, <2>4, BeginType DEF MoveRecRead
  <1>6. CASE MoveRecSave(w)
    <2>1. web[w].r \in Recommendation /\ web[w].to \in Phase
      BY <1>0, <1>6 DEF MoveRecSave, End, Pending
    <2>2. /\ [rec[web[w].r] EXCEPT !.status = web[w].to] \in RecRow
          /\ [rec[web[w].r] EXCEPT !.status = web[w].to].status \in Phase
      BY <2>1 DEF TypeInv, TypeOK, RecRow
    <2> QED
      BY <1>6, <2>1, <2>2, SaveRecType DEF MoveRecSave
  <1>7. CASE \E r \in Recommendation : DeleteRecRead(w, r)
    <2>1. PICK r \in Recommendation : DeleteRecRead(w, r)
      BY <1>7
    <2> DEFINE q == [Idle EXCEPT !.op = "delete recommendation", !.r = r,
                                 !.rec = SeenRec(r)]
    <2>2. SeenRec(r) \in RecRow
      BY SeenType DEF TypeInv
    <2>3. q \in Request /\ Pending(q)
      BY <2>1, <2>2, IdleType DEF DeleteRecRead, Request, Op, Pending
    <2> QED
      BY <2>1, <2>3, BeginType DEF DeleteRecRead
  <1>8. CASE DeleteRecCheck(w)
    <2> DEFINE q == [web[w] EXCEPT !.op = "drop recommendation"]
    <2>1. q \in Request /\ Pending(q)
      BY <1>0, <1>8 DEF DeleteRecCheck, Request, Op, Pending
    <2>2. /\ web' \in [Worker -> Request]
          /\ \A v \in Worker : web'[v] \in {Idle, q, web[v]}
          /\ UNCHANGED <<open, finding, finalised, rec, was, mon>>
      BY <1>8, <2>1, IdleType DEF DeleteRecCheck, TypeInv, TypeOK, rows
    <2>3. ASSUME NEW v \in Worker PROVE Pending(web[v])'
      <3>1. Pending(web[v])
        BY DEF TypeInv
      <3> QED
        BY <2>1, <2>2, <3>1, IdleType DEF Pending
    <2> QED
      BY <2>2, <2>3 DEF TypeInv, TypeOK
  <1>9. CASE DeleteRecSave(w)
    <2>1. web[w].r \in Recommendation /\ rec[web[w].r].status # "none"
      BY <1>0, <1>9 DEF DeleteRecSave, End, Pending
    <2>2. /\ [rec[web[w].r] EXCEPT !.active = FALSE] \in RecRow
          /\ [rec[web[w].r] EXCEPT !.active = FALSE].status \in Phase
      BY <2>1 DEF TypeInv, TypeOK, RecRow
    <2> QED
      BY <1>9, <2>1, <2>2, SaveRecType DEF DeleteRecSave
  <1> QED
    BY <1>1, <1>2, <1>3, <1>4, <1>5, <1>6, <1>7, <1>8, <1>9 DEF RecommendationStep

LEMMA MonitoringStepType ==
    ASSUME TypeInv, NEW w \in Worker, MonitoringStep(w)
    PROVE  TypeInv'
  <1>1. CASE \E r \in Recommendation :
                AddMonitoringRead(w, r) \/ EditMonitoringRead(w, r) \/ DeleteMonitoringRead(w, r)
    <2>1. PICK r \in Recommendation,
               op \in {"add monitoring", "edit monitoring", "delete monitoring"} :
              Begin(w, [Idle EXCEPT !.op = op, !.r = r, !.rec = SeenRec(r)])
      BY <1>1 DEF AddMonitoringRead, EditMonitoringRead, DeleteMonitoringRead
    <2> DEFINE q == [Idle EXCEPT !.op = op, !.r = r, !.rec = SeenRec(r)]
    <2>2. SeenRec(r) \in RecRow
      BY SeenType DEF TypeInv
    <2>3. q \in Request /\ Pending(q)
      BY <2>2, IdleType DEF Request, Op, Pending
    <2> QED
      BY <2>1, <2>3, BeginType
  <1>2. CASE AddMonitoringSave(w) \/ EditMonitoringSave(w) \/ DeleteMonitoringSave(w)
    <2>1. mon' \in [Recommendation -> {"none", "active", "deleted"}]
      BY <1>2 DEF AddMonitoringSave, EditMonitoringSave, DeleteMonitoringSave, TypeInv, TypeOK
    <2> QED
      BY <1>2, <2>1, SaveMonitoringType
         DEF AddMonitoringSave, EditMonitoringSave, DeleteMonitoringSave
  <1> QED
    BY <1>1, <1>2 DEF MonitoringStep

LEMMA TypeStep == TypeInv /\ [Next]_vars => TypeInv'
  <1> SUFFICES ASSUME TypeInv, [Next]_vars PROVE TypeInv'
    OBVIOUS
  <1>1. ASSUME NEW w \in Worker, Abandon(w)
        PROVE  TypeInv'
    <2>1. End(w, web[w].op) /\ UNCHANGED <<finding, finalised, rec, was, mon>>
      BY <1>1 DEF Abandon, End, rows
    <2> QED
      BY <2>1, SaveMonitoringType DEF TypeInv, TypeOK
  <1>2. CASE EngagementMoves
    BY <1>2 DEF EngagementMoves, rows, TypeInv, TypeOK, Pending
  <1>3. CASE UNCHANGED vars
    BY <1>3 DEF vars, TypeInv, TypeOK, Pending
  <1> QED
    BY <1>1, <1>2, <1>3, FindingStepType, RecommendationStepType, MonitoringStepType
       DEF Next

LEMMA TypeInvariant == Spec => []TypeInv
  BY TypeInit, TypeStep, PTL DEF Spec

\* Every variable has its type, whatever the bodies carry.
THEOREM TypeCorrect == Spec => []TypeOK
  <1>1. TypeInv => TypeOK
    BY DEF TypeInv
  <1> QED
    BY <1>1, TypeInvariant, PTL

\* What a reading step begins: seen from the other invariants, only the
\* name of the request counts.
LEMMA FindingReads ==
    ASSUME NEW w \in Worker,
           \/ AddFindingRead(w)
           \/ \E f \in Finding :
                 \/ EditFindingRead(w, f) \/ AnswerRead(w, f) \/ DeleteFindingRead(w, f)
                 \/ \E t \in FindingPhase :
                       FinalizeRead(w, f, t) \/ UpdateFindingRead(w, f, t)
    PROVE  \E q : Begin(w, q) /\ q.op \in {"add finding", "edit finding", "move finding",
                                         "answer", "delete finding"}
  <1>1. CASE AddFindingRead(w)
    <2>1. [Idle EXCEPT !.op = "add finding"].op = "add finding"
      BY DEF Idle
    <2> QED
      BY <1>1, <2>1 DEF AddFindingRead
  <1>2. ASSUME NEW f \in Finding, EditFindingRead(w, f)
        PROVE  \E q : Begin(w, q) /\ q.op = "edit finding"
    <2>1. [Idle EXCEPT !.op = "edit finding", !.f = f, !.finding = finding[f]].op
              = "edit finding"
      BY DEF Idle
    <2> QED
      BY <1>2, <2>1 DEF EditFindingRead
  <1>3. ASSUME NEW f \in Finding, AnswerRead(w, f)
        PROVE  \E q : Begin(w, q) /\ q.op = "answer"
    <2>1. [Idle EXCEPT !.op = "answer", !.f = f,
               !.finding = [finding[f] EXCEPT !.active = FALSE]].op = "answer"
      BY DEF Idle
    <2> QED
      BY <1>3, <2>1 DEF AnswerRead
  <1>4. ASSUME NEW f \in Finding, DeleteFindingRead(w, f)
        PROVE  \E q : Begin(w, q) /\ q.op = "delete finding"
    <2>1. [Idle EXCEPT !.op = "delete finding", !.f = f,
                       !.finding = SeenFinding(f)].op = "delete finding"
      BY DEF Idle
    <2> QED
      BY <1>4, <2>1 DEF DeleteFindingRead
  <1>5. ASSUME NEW f \in Finding, NEW t \in FindingPhase,
               FinalizeRead(w, f, t) \/ UpdateFindingRead(w, f, t)
        PROVE  \E q : Begin(w, q) /\ q.op = "move finding"
    <2>1. [Idle EXCEPT !.op = "move finding", !.f = f,
                       !.finding = SeenFinding(f), !.to = t].op = "move finding"
      BY DEF Idle
    <2> QED
      BY <1>5, <2>1 DEF FinalizeRead, UpdateFindingRead
  <1> QED
    BY <1>1, <1>2, <1>3, <1>4, <1>5

LEMMA DeleteRecReads ==
    ASSUME NEW w \in Worker, NEW r \in Recommendation, DeleteRecRead(w, r)
    PROVE  \E q : Begin(w, q) /\ q.op = "delete recommendation" /\ q.r = r
  <1>1. /\ [Idle EXCEPT !.op = "delete recommendation", !.r = r, !.rec = SeenRec(r)].op
              = "delete recommendation"
        /\ [Idle EXCEPT !.op = "delete recommendation", !.r = r, !.rec = SeenRec(r)].r = r
    BY DEF Idle
  <1> QED
    BY <1>1 DEF DeleteRecRead

LEMMA MoveRecReads ==
    ASSUME NEW w \in Worker, NEW r \in Recommendation, NEW t \in Phase, MoveRecRead(w, r, t)
    PROVE  \E q : /\ Begin(w, q) /\ q.op = "move recommendation"
                  /\ q.r = r /\ q.rec.status = rec[r].status /\ q.to = t
  <1> DEFINE q == [Idle EXCEPT !.op = "move recommendation", !.r = r,
                               !.rec = SeenRec(r), !.to = t]
  <1>1. /\ q.op = "move recommendation" /\ q.r = r /\ q.to = t
        /\ q.rec.status = rec[r].status
    BY DEF Idle, SeenRec, NoRec
  <1> QED
    BY <1>1 DEF MoveRecRead

LEMMA MonitoringReads ==
    ASSUME NEW w \in Worker, NEW r \in Recommendation,
           AddMonitoringRead(w, r) \/ EditMonitoringRead(w, r) \/ DeleteMonitoringRead(w, r)
    PROVE  \E q : /\ Begin(w, q) /\ q.r = r
                  /\ q.op \in {"add monitoring", "edit monitoring", "delete monitoring"}
                  /\ rec[r].status \notin {"none", "open"} \/ mon[r] # "none"
  <1> DEFINE q(o) == [Idle EXCEPT !.op = o, !.r = r, !.rec = SeenRec(r)]
  <1>1. \A o : q(o).op = o /\ q(o).r = r
    BY DEF Idle
  <1>2. CASE AddMonitoringRead(w, r)
    BY <1>1, <1>2 DEF AddMonitoringRead
  <1>3. CASE EditMonitoringRead(w, r) \/ DeleteMonitoringRead(w, r)
    BY <1>1, <1>3 DEF EditMonitoringRead, DeleteMonitoringRead
  <1> QED
    BY <1>2, <1>3

---------------------------------------------------------------------------
(* Recommendations rest on final findings.                                 *)

\* Not inductive on the rows alone: a creation has only its finding in
\* hand, and an edit writes back the finding_id that it read.
RestInv ==
    /\ RestsOnFinal
    /\ \A f \in Finding : finding[f].status = "final" => f \in finalised
    /\ \A w \in Worker :
          /\ web[w].op = "add recommendation" => web[w].f \in finalised
          /\ web[w].op = "edit recommendation" => web[w].rec.of \in finalised

\* Nobody takes a finding out of the history, nor puts a request of these
\* two kinds there, without the check.
LEMMA RestKept ==
    ASSUME TypeInv, RestInv, finalised \subseteq finalised',
           \A r \in Recommendation :
               rec'[r].status # "none" => rec'[r].of \in finalised',
           \A f \in Finding : finding'[f].status = "final" => f \in finalised',
           \A w \in Worker :
               \/ web'[w] = web[w]
               \/ web'[w].op \notin {"add recommendation", "edit recommendation"}
    PROVE  RestInv'
  BY DEF RestInv, RestsOnFinal

LEMMA RestStep ==
    ASSUME Rehomes = {}
    PROVE  TypeInv /\ RestInv /\ [Next]_vars => RestInv'
  <1> SUFFICES ASSUME TypeInv, RestInv, [Next]_vars PROVE RestInv'
    OBVIOUS
  <1>0. /\ \A w \in Worker : Pending(web[w]) /\ web[w] \in Request
        /\ web \in [Worker -> Request]
        /\ finding \in [Finding -> FindingRow] /\ rec \in [Recommendation -> RecRow]
        /\ Idle.op = "idle"
    BY IdleType DEF TypeInv, TypeOK
  <1>1. ASSUME NEW w \in Worker, NEW q, Begin(w, q),
               q.op \notin {"add recommendation", "edit recommendation"}
        PROVE  RestInv'
    BY <1>0, <1>1, RestKept DEF Begin, rows, RestInv, RestsOnFinal
  <1>2. ASSUME NEW w \in Worker, NEW op, End(w, op),
               NEW f \in Finding, NEW row, SaveFinding(f, row)
        PROVE  RestInv'
    <2>1. /\ finalised \subseteq finalised'
          /\ \A g \in Finding : finding'[g].status = "final" => g \in finalised'
      BY <1>0, <1>2 DEF SaveFinding, RestInv
    <2>2. \A r \in Recommendation : rec'[r].status # "none" => rec'[r].of \in finalised'
      BY <1>2, <2>1 DEF SaveFinding, RestInv, RestsOnFinal
    <2>3. \A v \in Worker :
             web'[v] = web[v] \/ web'[v].op \notin {"add recommendation", "edit recommendation"}
      BY <1>0, <1>2 DEF End
    <2> QED
      BY <2>1, <2>2, <2>3, RestKept
  <1>3. ASSUME NEW w \in Worker, NEW op, End(w, op),
               NEW r \in Recommendation, NEW row, SaveRec(r, row), row.of \in finalised
        PROVE  RestInv'
    <2>1. /\ finalised' = finalised /\ finding' = finding
          /\ \A x \in Recommendation : rec'[x].status # "none" => rec'[x].of \in finalised'
      BY <1>0, <1>3 DEF SaveRec, RestInv, RestsOnFinal
    <2>2. \A v \in Worker :
             web'[v] = web[v] \/ web'[v].op \notin {"add recommendation", "edit recommendation"}
      BY <1>0, <1>3 DEF End
    <2> QED
      BY <2>1, <2>2, RestKept DEF RestInv
  <1>4. ASSUME NEW w \in Worker, NEW op, End(w, op),
               UNCHANGED <<finding, finalised, rec>>
        PROVE  RestInv'
    BY <1>0, <1>4, RestKept DEF End, RestInv, RestsOnFinal
  <1>5. ASSUME NEW w \in Worker, FindingStep(w)
        PROVE  RestInv'
    <2>1. CASE \E f \in Finding : AddFindingSave(w, f)
      BY <1>2, <2>1 DEF AddFindingSave
    <2>2. CASE EditFindingSave(w) \/ MoveFindingSave(w) \/ AnswerSave(w) \/ DeleteFindingSave(w)
      <3>1. web[w].f \in Finding
        BY <1>0, <2>2 DEF EditFindingSave, MoveFindingSave, AnswerSave, DeleteFindingSave,
                          End, Pending
      <3> QED
        BY <1>2, <2>2, <3>1
           DEF EditFindingSave, MoveFindingSave, AnswerSave, DeleteFindingSave
    <2>3. CASE DeleteFindingCheck(w)
      <3>1. \A v \in Worker :
               web'[v] = web[v] \/ web'[v].op \notin {"add recommendation", "edit recommendation"}
        BY <1>0, <2>3 DEF DeleteFindingCheck, Request
      <3> QED
        BY <2>3, <3>1, RestKept DEF DeleteFindingCheck, rows, RestInv, RestsOnFinal
    <2>4. CASE \/ AddFindingRead(w)
               \/ \E f \in Finding :
                     \/ EditFindingRead(w, f) \/ AnswerRead(w, f) \/ DeleteFindingRead(w, f)
                     \/ \E t \in FindingPhase :
                           FinalizeRead(w, f, t) \/ UpdateFindingRead(w, f, t)
      <3>1. PICK q : Begin(w, q) /\ q.op \in {"add finding", "edit finding", "move finding",
                                              "answer", "delete finding"}
        BY <2>4, FindingReads
      <3> QED
        BY <1>1, <3>1
    <2> QED
      BY <1>5, <2>1, <2>2, <2>3, <2>4 DEF FindingStep
  <1>6. ASSUME NEW w \in Worker, RecommendationStep(w)
        PROVE  RestInv'
    <2>1. CASE \E f \in Finding : AddRecRead(w, f)
      <3>1. PICK f \in Finding : AddRecRead(w, f)
        BY <2>1
      <3>2. f \in finalised
        BY <3>1 DEF AddRecRead, RestInv
      <3>3. \A v \in Worker : web'[v] = web[v] \/
               (web'[v].op = "add recommendation" /\ web'[v].f = f)
        BY <1>0, <3>1, IdleType DEF AddRecRead, Begin, Idle
      <3> QED
        <4>1. UNCHANGED <<finding, finalised, rec>>
          BY <3>1 DEF AddRecRead, Begin, rows
        <4> QED
          BY <3>2, <3>3, <4>1 DEF RestInv, RestsOnFinal
    <2>2. CASE \E r \in Recommendation : AddRecSave(w, r)
      <3>1. PICK r \in Recommendation, s \in {"open"} \union RecommendationBodies,
                 v \in BOOLEAN :
                End(w, "add recommendation") /\
                SaveRec(r, [status |-> s, of |-> web[w].f, active |-> v])
        BY <2>2 DEF AddRecSave
      <3>2. web[w].f \in finalised
        BY <3>1 DEF End, RestInv
      <3> QED
        BY <1>3, <3>1, <3>2
    <2>3. CASE \E r \in Recommendation : EditRecRead(w, r)
      <3>1. PICK r \in Recommendation : EditRecRead(w, r)
        BY <2>3
      <3>2. rec[r].of \in finalised
        BY <3>1 DEF EditRecRead, RestInv, RestsOnFinal
      <3>3. \A v \in Worker : web'[v] = web[v] \/
               (web'[v].op = "edit recommendation" /\ web'[v].rec = rec[r])
        BY <1>0, <3>1, IdleType DEF EditRecRead, Begin, Idle
      <3> QED
        <4>1. UNCHANGED <<finding, finalised, rec>>
          BY <3>1 DEF EditRecRead, Begin, rows
        <4> QED
          BY <3>2, <3>3, <4>1 DEF RestInv, RestsOnFinal
    <2>4. CASE EditRecSave(w)
      <3>1. PICK s \in {web[w].rec.status} \union RecommendationBodies, v \in BOOLEAN :
                End(w, "edit recommendation") /\
                SaveRec(web[w].r, [status |-> s, of |-> web[w].rec.of, active |-> v])
        BY <2>4 DEF EditRecSave
      <3>2. web[w].r \in Recommendation /\ web[w].rec.of \in finalised
        BY <1>0, <3>1 DEF End, Pending, RestInv
      <3> DEFINE row == [status |-> s, of |-> web[w].rec.of, active |-> v]
      <3>3. row.of \in finalised /\ SaveRec(web[w].r, row)
        BY <3>1, <3>2
      <3> HIDE DEF row
      <3> QED
        BY <1>3, <3>1, <3>2, <3>3
    <2>5. CASE MoveRecSave(w) \/ DeleteRecSave(w)
      <3>1. web[w].r \in Recommendation /\ rec[web[w].r].status # "none"
        BY <1>0, <2>5 DEF MoveRecSave, DeleteRecSave, End, Pending
      <3>2. rec[web[w].r].of \in finalised
        BY <3>1 DEF RestInv, RestsOnFinal
      <3>3. /\ [rec[web[w].r] EXCEPT !.status = web[w].to].of \in finalised
            /\ [rec[web[w].r] EXCEPT !.active = FALSE].of \in finalised
        BY <1>0, <3>1, <3>2 DEF RecRow
      <3> QED
        BY <1>3, <2>5, <3>1, <3>3 DEF MoveRecSave, DeleteRecSave
    <2>6. CASE DeleteRecCheck(w)
      <3>1. \A v \in Worker :
               web'[v] = web[v] \/ web'[v].op \notin {"add recommendation", "edit recommendation"}
        BY <1>0, <2>6 DEF DeleteRecCheck, Request
      <3> QED
        BY <2>6, <3>1, RestKept DEF DeleteRecCheck, rows, RestInv, RestsOnFinal
    <2>7. CASE \E r \in Recommendation : DeleteRecRead(w, r) \/
                                        \E t \in Phase : MoveRecRead(w, r, t)
      <3>1. PICK q : Begin(w, q) /\ q.op \in {"move recommendation", "delete recommendation"}
        <4>1. PICK r \in Recommendation :
                  DeleteRecRead(w, r) \/ \E t \in Phase : MoveRecRead(w, r, t)
          BY <2>7
        <4>2. CASE DeleteRecRead(w, r)
          BY <4>2, DeleteRecReads
        <4>3. CASE \E t \in Phase : MoveRecRead(w, r, t)
          <5>1. PICK t \in Phase : MoveRecRead(w, r, t)
            BY <4>3
          <5> DEFINE m == [Idle EXCEPT !.op = "move recommendation", !.r = r,
                                       !.rec = SeenRec(r), !.to = t]
          <5>2. Begin(w, m)
            BY <5>1 DEF MoveRecRead
          <5>3. m.op = "move recommendation"
            BY DEF Idle
          <5> HIDE DEF m
          <5> QED
            BY <5>2, <5>3
        <4> QED
          BY <4>1, <4>2, <4>3
      <3> QED
        BY <1>1, <3>1
    <2> QED
      BY <1>6, <2>1, <2>2, <2>3, <2>4, <2>5, <2>6, <2>7 DEF RecommendationStep
  <1>7. ASSUME NEW w \in Worker, MonitoringStep(w)
        PROVE  RestInv'
    <2>1. CASE \E r \in Recommendation :
                  AddMonitoringRead(w, r) \/ EditMonitoringRead(w, r) \/ DeleteMonitoringRead(w, r)
      <3>0. PICK r \in Recommendation : \/ AddMonitoringRead(w, r) \/ EditMonitoringRead(w, r)
                                        \/ DeleteMonitoringRead(w, r)
        BY <2>1
      <3>1. PICK q : /\ Begin(w, q)
                     /\ q.op \in {"add monitoring", "edit monitoring", "delete monitoring"}
        BY <3>0, MonitoringReads
      <3> QED
        BY <1>1, <3>1
    <2>2. CASE AddMonitoringSave(w) \/ EditMonitoringSave(w) \/ DeleteMonitoringSave(w)
      BY <1>4, <2>2 DEF AddMonitoringSave, EditMonitoringSave, DeleteMonitoringSave
    <2> QED
      BY <1>7, <2>1, <2>2 DEF MonitoringStep
  <1>8. ASSUME NEW w \in Worker, Abandon(w)
        PROVE  RestInv'
    <2>1. End(w, web[w].op) /\ UNCHANGED <<finding, finalised, rec>>
      BY <1>8 DEF Abandon, End, rows
    <2> QED
      BY <1>4, <2>1
  <1>9. CASE EngagementMoves
    BY <1>9 DEF EngagementMoves, rows, RestInv, RestsOnFinal
  <1>10. CASE UNCHANGED vars
    BY <1>10 DEF vars, RestInv, RestsOnFinal
  <1> QED
    BY <1>5, <1>6, <1>7, <1>8, <1>9, <1>10 DEF Next

\* While no body moves a recommendation to another finding, each rests on
\* a finding that has been final.
THEOREM RecommendationsRestOnFinal ==
    ASSUME Rehomes = {}
    PROVE  Spec => []RestsOnFinal
  <1>1. Init => RestInv
    <2> SUFFICES ASSUME Init PROVE RestInv
      OBVIOUS
    <2>1. /\ \A f \in Finding : finding[f].status = "none"
          /\ \A r \in Recommendation : rec[r].status = "none"
      BY DEF Init, NoFinding, NoRec
    <2>2. \A w \in Worker : web[w].op = "idle"
      BY DEF Init, Idle
    <2> QED
      BY <2>1, <2>2 DEF RestInv, RestsOnFinal
  <1>2. TypeInv /\ RestInv /\ [Next]_vars => RestInv'
    BY RestStep
  <1>3. RestInv => RestsOnFinal
    BY DEF RestInv
  <1> QED
    BY <1>1, <1>2, <1>3, TypeInvariant, PTL DEF Spec
---------------------------------------------------------------------------
(* The phases of a recommendation come in order.                           *)

\* Passed(n) of the contract, written out.
Prefix ==
    {{}, {"open"}, {"open", "in_progress"}, {"open", "in_progress", "implemented"},
     {"open", "in_progress", "implemented", "verified"},
     {"open", "in_progress", "implemented", "verified", "closed"}}

\* One phase is added to the history of r, or none.
Grows(r) ==
    /\ was'[r] \in Prefix
    /\ \/ was'[r] = was[r]
       \/ was[r] = {} /\ was'[r] = {"open"}
       \/ was[r] = {"open"} /\ was'[r] = {"open", "in_progress"}
       \/ /\ was[r] = {"open", "in_progress"}
          /\ was'[r] = {"open", "in_progress", "implemented"}
       \/ /\ was[r] = {"open", "in_progress", "implemented"}
          /\ was'[r] = {"open", "in_progress", "implemented", "verified"}
       \/ /\ was[r] = {"open", "in_progress", "implemented", "verified"}
          /\ was'[r] = {"open", "in_progress", "implemented", "verified", "closed"}

\* The history is a prefix of the chain and holds the status; so it does
\* for the copies of the requests in progress, and what they are about to
\* write is next to a phase that has been passed.
PhaseInv ==
    /\ \A r \in Recommendation :
          /\ was[r] \in Prefix
          /\ rec[r].status = "none" => was[r] = {}
          /\ rec[r].status # "none" => rec[r].status \in was[r]
          /\ mon[r] # "none" => "in_progress" \in was[r]
    /\ \A w \in Worker :
          /\ web[w].op = "edit recommendation" => web[w].rec.status \in was[web[w].r]
          /\ web[w].op = "move recommendation" =>
                /\ web[w].rec.status \in was[web[w].r]
                /\ web[w].to \in RecommendationTo(web[w].rec.status)
          /\ web[w].op \in {"add monitoring", "edit monitoring", "delete monitoring"} =>
                web[w].r \in Recommendation /\ "in_progress" \in was[web[w].r]

\* A status next to one that has been passed is passed or the next one.
LEMMA NextPhase ==
    ASSUME NEW P \in Prefix, NEW s \in P, NEW t \in RecommendationTo(s)
    PROVE  /\ P \union {t} \in Prefix
           /\ \/ P \union {t} = P
              \/ P = {"open"} /\ P \union {t} = {"open", "in_progress"}
              \/ /\ P = {"open", "in_progress"}
                 /\ P \union {t} = {"open", "in_progress", "implemented"}
              \/ /\ P = {"open", "in_progress", "implemented"}
                 /\ P \union {t} = {"open", "in_progress", "implemented", "verified"}
              \/ /\ P = {"open", "in_progress", "implemented", "verified"}
                 /\ P \union {t} = {"open", "in_progress", "implemented", "verified", "closed"}
  <1>1. CASE P = {}
    BY <1>1
  <1>2. CASE P = {"open"}
    BY <1>2 DEF RecommendationTo, Prefix
  <1>3. CASE P = {"open", "in_progress"}
    BY <1>3 DEF RecommendationTo, Prefix
  <1>4. CASE P = {"open", "in_progress", "implemented"}
    BY <1>4 DEF RecommendationTo, Prefix
  <1>5. CASE P = {"open", "in_progress", "implemented", "verified"}
    BY <1>5 DEF RecommendationTo, Prefix
  <1>6. CASE P = {"open", "in_progress", "implemented", "verified", "closed"}
    BY <1>6 DEF RecommendationTo, Prefix
  <1> QED
    BY <1>1, <1>2, <1>3, <1>4, <1>5, <1>6 DEF Prefix

\* Work taken up has been in progress: the prefixes with a phase after
\* "open" hold it.
LEMMA BegunPhase ==
    ASSUME NEW P \in Prefix, NEW s \in P, s # "open"
    PROVE  "in_progress" \in P
  BY DEF Prefix

\* What a step leaves to show when it touches no row of a recommendation.
LEMMA PhaseKept ==
    ASSUME TypeInv, PhaseInv, UNCHANGED <<rec, was, mon>>,
           \A w \in Worker :
               \/ web'[w] = web[w]
               \/ web'[w].op \notin {"edit recommendation", "move recommendation",
                                     "add monitoring", "edit monitoring", "delete monitoring"}
    PROVE  PhaseInv' /\ \A r \in Recommendation : Grows(r)
  BY DEF PhaseInv, Grows

LEMMA PhaseSaved ==
    ASSUME TypeInv, PhaseInv, NEW w \in Worker, NEW op, End(w, op),
           NEW r \in Recommendation, NEW row \in RecRow, SaveRec(r, row),
           row.status # "none",
           \/ row.status \in was[r]
           \/ was[r] = {} /\ row.status = "open"
           \/ \E s \in was[r] : row.status \in RecommendationTo(s)
    PROVE  PhaseInv' /\ \A x \in Recommendation : Grows(x)
  <1>0. /\ was \in [Recommendation -> SUBSET Phase] /\ rec \in [Recommendation -> RecRow]
        /\ web \in [Worker -> Request] /\ Idle.op = "idle"
    BY IdleType DEF TypeInv, TypeOK
  <1>1. /\ \A x \in Recommendation : was'[x] = IF x = r THEN was[r] \union {row.status}
                                                       ELSE was[x]
        /\ \A x \in Recommendation : rec'[x] = IF x = r THEN row ELSE rec[x]
        /\ mon' = mon
    BY <1>0 DEF SaveRec
  <1>2. Grows(r)
    <2>1. CASE row.status \in was[r]
      <3>1. was'[r] = was[r]
        BY <1>1, <2>1
      <3> QED
        BY <3>1 DEF Grows, PhaseInv
    <2>2. CASE was[r] = {} /\ row.status = "open"
      <3>1. was'[r] = {"open"}
        BY <1>1, <2>2
      <3> QED
        BY <2>2, <3>1 DEF Grows, Prefix
    <2>3. CASE \E s \in was[r] : row.status \in RecommendationTo(s)
      <3>1. PICK s \in was[r] : row.status \in RecommendationTo(s)
        BY <2>3
      <3>2. was[r] \in Prefix /\ was'[r] = was[r] \union {row.status}
        BY <1>1 DEF PhaseInv
      <3> QED
        BY <3>1, <3>2, NextPhase DEF Grows
    <2> QED
      BY <2>1, <2>2, <2>3
  <1>3. \A x \in Recommendation : Grows(x)
    BY <1>1, <1>2 DEF Grows, PhaseInv
  <1>4. \A x \in Recommendation : was[x] \subseteq was'[x]
    BY <1>1
  <1>5. \A v \in Worker : web'[v] = web[v] \/ web'[v].op = "idle"
    BY <1>0 DEF End
  <1>6. \A x \in Recommendation :
          /\ was'[x] \in Prefix
          /\ rec'[x].status = "none" => was'[x] = {}
          /\ rec'[x].status # "none" => rec'[x].status \in was'[x]
          /\ mon'[x] # "none" => "in_progress" \in was'[x]
    <2> TAKE x \in Recommendation
    <2>1. was'[x] \in Prefix
      BY <1>3 DEF Grows
    <2>2. mon'[x] # "none" => "in_progress" \in was'[x]
      BY <1>1, <1>4 DEF PhaseInv
    <2>3. CASE x = r
      BY <1>1, <2>1, <2>2, <2>3
    <2>4. CASE x # r
      BY <1>1, <2>1, <2>2, <2>4 DEF PhaseInv
    <2> QED
      BY <2>3, <2>4
  <1>7. \A v \in Worker :
          /\ web'[v].op = "edit recommendation" => web'[v].rec.status \in was'[web'[v].r]
          /\ web'[v].op = "move recommendation" =>
                /\ web'[v].rec.status \in was'[web'[v].r]
                /\ web'[v].to \in RecommendationTo(web'[v].rec.status)
          /\ web'[v].op \in {"add monitoring", "edit monitoring", "delete monitoring"} =>
                web'[v].r \in Recommendation /\ "in_progress" \in was'[web'[v].r]
    <2>1. \A v \in Worker : web[v].op \in {"edit recommendation", "move recommendation"} =>
                                web[v].r \in Recommendation
      BY DEF TypeInv, Pending
    <2> QED
      BY <1>4, <1>5, <2>1 DEF PhaseInv
  <1>8. PhaseInv'
    BY <1>6, <1>7 DEF PhaseInv
  <1> QED
    BY <1>3, <1>8

LEMMA PhaseStep ==
    ASSUME RecommendationBodies = {}
    PROVE  TypeInv /\ PhaseInv /\ [Next]_vars =>
               PhaseInv' /\ \A r \in Recommendation : Grows(r)
  <1> SUFFICES ASSUME TypeInv, PhaseInv, [Next]_vars
               PROVE  PhaseInv' /\ \A r \in Recommendation : Grows(r)
    OBVIOUS
  <1> DEFINE Goal == PhaseInv' /\ \A r \in Recommendation : Grows(r)
  <1>0. /\ \A w \in Worker : Pending(web[w]) /\ web[w] \in Request
        /\ web \in [Worker -> Request]
        /\ rec \in [Recommendation -> RecRow]
        /\ Idle.op = "idle"
    BY IdleType DEF TypeInv, TypeOK
  <1>1. ASSUME NEW w \in Worker, NEW q, Begin(w, q),
               q.op \notin {"edit recommendation", "move recommendation",
                            "add monitoring", "edit monitoring", "delete monitoring"}
        PROVE  Goal
    <2>1. \A v \in Worker :
             \/ web'[v] = web[v]
             \/ web'[v].op \notin {"edit recommendation", "move recommendation",
                                   "add monitoring", "edit monitoring", "delete monitoring"}
      BY <1>0, <1>1 DEF Begin
    <2> QED
      BY <1>1, <2>1, PhaseKept DEF Begin, rows
  <1>2. ASSUME NEW w \in Worker, NEW op, End(w, op), UNCHANGED <<rec, was, mon>>
        PROVE  Goal
    <2>1. \A v \in Worker : web'[v] = web[v] \/ web'[v].op = "idle"
      BY <1>0, <1>2 DEF End
    <2> QED
      BY <1>2, <2>1, PhaseKept
  <1>3. ASSUME NEW w \in Worker, FindingStep(w)
        PROVE  Goal
    <2>1. CASE \/ EditFindingSave(w) \/ MoveFindingSave(w) \/ AnswerSave(w)
               \/ DeleteFindingSave(w) \/ \E f \in Finding : AddFindingSave(w, f)
      BY <1>2, <2>1 DEF EditFindingSave, MoveFindingSave, AnswerSave, DeleteFindingSave,
                        AddFindingSave, SaveFinding
    <2>2. CASE DeleteFindingCheck(w)
      <3>1. \A v \in Worker : web'[v] = web[v] \/ web'[v].op \in {"idle", "drop finding"}
        BY <1>0, <2>2 DEF DeleteFindingCheck, Request
      <3> QED
        BY <2>2, <3>1, PhaseKept DEF DeleteFindingCheck, rows
    <2>3. CASE \/ AddFindingRead(w)
               \/ \E f \in Finding :
                     \/ EditFindingRead(w, f) \/ AnswerRead(w, f) \/ DeleteFindingRead(w, f)
                     \/ \E t \in FindingPhase :
                           FinalizeRead(w, f, t) \/ UpdateFindingRead(w, f, t)
      <3>1. PICK q : Begin(w, q) /\ q.op \in {"add finding", "edit finding", "move finding",
                                              "answer", "delete finding"}
        BY <2>3, FindingReads
      <3> QED
        BY <1>1, <3>1
    <2> QED
      BY <1>3, <2>1, <2>2, <2>3 DEF FindingStep
  <1>4. ASSUME NEW w \in Worker, RecommendationStep(w)
        PROVE  Goal
    <2>1. CASE \E f \in Finding : AddRecRead(w, f)
      <3>1. PICK f \in Finding : AddRecRead(w, f)
        BY <2>1
      <3> DEFINE q == [Idle EXCEPT !.op = "add recommendation", !.f = f]
      <3>2. Begin(w, q)
        BY <3>1 DEF AddRecRead
      <3>3. q.op = "add recommendation"
        BY DEF Idle
      <3> HIDE DEF q
      <3> QED
        BY <1>1, <3>2, <3>3
    <2>2. CASE \E r \in Recommendation : AddRecSave(w, r)
      <3>1. PICK r \in Recommendation, v \in BOOLEAN :
                /\ End(w, "add recommendation") /\ rec[r].status = "none"
                /\ SaveRec(r, [status |-> "open", of |-> web[w].f, active |-> v])
        BY <2>2 DEF AddRecSave
      <3> DEFINE row == [status |-> "open", of |-> web[w].f, active |-> v]
      <3>2. web[w].f \in Finding
        BY <1>0, <3>1 DEF End, Pending
      <3>3. row \in RecRow /\ row.status = "open"
        BY <3>2 DEF RecRow, Phase
      <3>4. was[r] = {} /\ SaveRec(r, row)
        BY <3>1 DEF PhaseInv
      <3> HIDE DEF row
      <3> QED
        BY <3>1, <3>3, <3>4, PhaseSaved
    <2>3. CASE \E r \in Recommendation : EditRecRead(w, r)
      <3>1. PICK r \in Recommendation : EditRecRead(w, r)
        BY <2>3
      <3>2. /\ UNCHANGED <<rec, was, mon>>
            /\ \A v \in Worker : web'[v] = web[v] \/
                  (web'[v].op = "edit recommendation" /\ web'[v].rec = rec[r]
                   /\ web'[v].r = r)
        BY <1>0, <3>1, IdleType DEF EditRecRead, Begin, rows, Idle
      <3>3. rec[r].status \in was[r]
        BY <3>1 DEF EditRecRead, PhaseInv
      <3> QED
        BY <3>2, <3>3 DEF PhaseInv, Grows
    <2>4. CASE EditRecSave(w)
      <3>1. PICK f \in {web[w].rec.of} \union Rehomes, v \in BOOLEAN :
                End(w, "edit recommendation") /\
                SaveRec(web[w].r, [status |-> web[w].rec.status, of |-> f, active |-> v])
        BY <2>4 DEF EditRecSave
      <3> DEFINE row == [status |-> web[w].rec.status, of |-> f, active |-> v]
      <3>2. web[w].r \in Recommendation /\ web[w].rec.status \in Phase
        BY <1>0, <3>1 DEF End, Pending
      <3>3. row \in RecRow /\ row.status = web[w].rec.status
        BY <1>0, ConstantsAssumption DEF Request, RecRow
      <3>4. /\ row.status # "none" /\ row.status \in was[web[w].r]
            /\ SaveRec(web[w].r, row)
        BY <3>1, <3>2, <3>3 DEF End, PhaseInv, Phase
      <3> HIDE DEF row
      <3> QED
        BY <3>1, <3>2, <3>3, <3>4, PhaseSaved
    <2>5. CASE \E r \in Recommendation, t \in Phase : MoveRecRead(w, r, t)
      <3>1. PICK r \in Recommendation, t \in Phase : MoveRecRead(w, r, t)
        BY <2>5
      <3> DEFINE q == [Idle EXCEPT !.op = "move recommendation", !.r = r,
                                   !.rec = SeenRec(r), !.to = t]
      <3>2. Begin(w, q) /\ t \in RecommendationTo(rec[r].status)
        BY <3>1 DEF MoveRecRead
      <3>3. /\ q.op = "move recommendation" /\ q.r = r /\ q.to = t
            /\ q.rec.status = rec[r].status
        BY DEF Idle, SeenRec, NoRec
      <3>4. rec[r].status \in was[r]
        BY <3>2 DEF RecommendationTo, PhaseInv
      <3> HIDE DEF q
      <3>5. /\ UNCHANGED <<rec, was, mon>>
            /\ \A v \in Worker : web'[v] = web[v] \/ web'[v] = q
        BY <1>0, <3>2 DEF Begin, rows
      <3> QED
        BY <3>2, <3>3, <3>4, <3>5 DEF PhaseInv, Grows
    <2>6. CASE MoveRecSave(w)
      <3> DEFINE row == [rec[web[w].r] EXCEPT !.status = web[w].to]
      <3>1. /\ End(w, "move recommendation") /\ SaveRec(web[w].r, row)
            /\ web[w].op = "move recommendation"
        BY <2>6 DEF MoveRecSave, End
      <3>2. web[w].r \in Recommendation /\ web[w].to \in Phase
        BY <1>0, <3>1 DEF Pending
      <3>3. row \in RecRow /\ row.status = web[w].to /\ row.status # "none"
        BY <1>0, <3>2 DEF RecRow, Phase
      <3>4. \E s \in was[web[w].r] : row.status \in RecommendationTo(s)
        BY <3>1, <3>3 DEF PhaseInv
      <3> HIDE DEF row
      <3> QED
        BY <3>1, <3>2, <3>3, <3>4, PhaseSaved
    <2>7. CASE \E r \in Recommendation : DeleteRecRead(w, r)
      <3>1. PICK r \in Recommendation : DeleteRecRead(w, r)
        BY <2>7
      <3>2. PICK q : Begin(w, q) /\ q.op = "delete recommendation"
        BY <3>1, DeleteRecReads
      <3> QED
        BY <1>1, <3>2
    <2>8. CASE DeleteRecCheck(w)
      <3>1. \A v \in Worker :
               web'[v] = web[v] \/ web'[v].op \in {"idle", "drop recommendation"}
        BY <1>0, <2>8 DEF DeleteRecCheck, Request
      <3> QED
        BY <2>8, <3>1, PhaseKept DEF DeleteRecCheck, rows
    <2>9. CASE DeleteRecSave(w)
      <3> DEFINE row == [rec[web[w].r] EXCEPT !.active = FALSE]
      <3>1. /\ End(w, "drop recommendation") /\ SaveRec(web[w].r, row)
            /\ web[w].op = "drop recommendation"
        BY <2>9 DEF DeleteRecSave, End
      <3>2. web[w].r \in Recommendation /\ rec[web[w].r].status # "none"
        BY <1>0, <3>1 DEF Pending
      <3>3. row \in RecRow /\ row.status = rec[web[w].r].status
        BY <1>0, <3>2 DEF RecRow
      <3>4. row.status # "none" /\ row.status \in was[web[w].r]
        BY <3>2, <3>3 DEF PhaseInv
      <3> HIDE DEF row
      <3> QED
        BY <3>1, <3>2, <3>3, <3>4, PhaseSaved
    <2> QED
      BY <1>4, <2>1, <2>2, <2>3, <2>4, <2>5, <2>6, <2>7, <2>8, <2>9
         DEF RecommendationStep
  <1>5. ASSUME NEW w \in Worker, MonitoringStep(w)
        PROVE  Goal
    <2>1. CASE \E r \in Recommendation :
                  AddMonitoringRead(w, r) \/ EditMonitoringRead(w, r) \/ DeleteMonitoringRead(w, r)
      <3>1. PICK r \in Recommendation : \/ AddMonitoringRead(w, r) \/ EditMonitoringRead(w, r)
                                        \/ DeleteMonitoringRead(w, r)
        BY <2>1
      <3>2. PICK q : /\ Begin(w, q) /\ q.r = r
                     /\ q.op \in {"add monitoring", "edit monitoring", "delete monitoring"}
                     /\ rec[r].status \notin {"none", "open"} \/ mon[r] # "none"
        BY <3>1, MonitoringReads
      <3>3. /\ UNCHANGED <<rec, was, mon>>
            /\ \A v \in Worker : web'[v] = web[v] \/ web'[v] = q
        BY <1>0, <3>2 DEF Begin, rows
      <3>4. "in_progress" \in was[r]
        BY <3>2, BegunPhase DEF PhaseInv
      <3> QED
        BY <3>2, <3>3, <3>4 DEF PhaseInv, Grows
    <2>2. CASE AddMonitoringSave(w) \/ EditMonitoringSave(w) \/ DeleteMonitoringSave(w)
      <3>1. /\ UNCHANGED <<rec, was>>
            /\ \A v \in Worker : web'[v] = web[v] \/ web'[v].op = "idle"
        BY <1>0, <2>2 DEF AddMonitoringSave, EditMonitoringSave, DeleteMonitoringSave, End
      <3>2. \A r \in Recommendation : mon'[r] # "none" => "in_progress" \in was[r]
        BY <1>0, <2>2 DEF AddMonitoringSave, EditMonitoringSave, DeleteMonitoringSave, End,
                          PhaseInv, TypeInv, TypeOK
      <3> QED
        BY <3>1, <3>2 DEF PhaseInv, Grows
    <2> QED
      BY <1>5, <2>1, <2>2 DEF MonitoringStep
  <1>6. ASSUME NEW w \in Worker, Abandon(w)
        PROVE  Goal
    <2>1. End(w, web[w].op) /\ UNCHANGED <<rec, was, mon>>
      BY <1>6 DEF Abandon, End, rows
    <2> QED
      BY <1>2, <2>1
  <1>7. CASE EngagementMoves
    BY <1>7, PhaseKept DEF EngagementMoves, rows
  <1>8. CASE UNCHANGED vars
    BY <1>8, PhaseKept DEF vars
  <1> QED
    BY <1>3, <1>4, <1>5, <1>6, <1>7, <1>8 DEF Next

\* A step writes the row of one recommendation at most.
LEMMA OneRecAtATime ==
    ASSUME TypeInv, [Next]_vars
    PROVE  \/ was' = was
           \/ \E r \in Recommendation :
                 was' = [was EXCEPT ![r] = was'[r]]
  <1>0. was \in [Recommendation -> SUBSET Phase] /\ \A w \in Worker : Pending(web[w])
    BY DEF TypeInv, TypeOK
  <1> DEFINE One == \/ was' = was
                    \/ \E r \in Recommendation : was' = [was EXCEPT ![r] = was'[r]]
  <1>1. ASSUME NEW r \in Recommendation, NEW row, SaveRec(r, row)
        PROVE  One
    <2>1. was' = [was EXCEPT ![r] = was'[r]]
      BY <1>0, <1>1 DEF SaveRec
    <2> QED
      BY <2>1
  <1>2. ASSUME NEW w \in Worker, FindingStep(w)
        PROVE  One
    BY <1>2 DEF FindingStep, AddFindingRead, EditFindingSave, MoveFindingSave, AnswerSave,
                DeleteFindingCheck, DeleteFindingSave, AddFindingSave, EditFindingRead,
                AnswerRead, DeleteFindingRead, FinalizeRead, UpdateFindingRead,
                SaveFinding, Begin, rows
  <1>3. ASSUME NEW w \in Worker, RecommendationStep(w)
        PROVE  One
    <2>1. CASE EditRecSave(w) \/ MoveRecSave(w) \/ DeleteRecSave(w)
      <3>1. web[w].r \in Recommendation
        BY <1>0, <2>1 DEF EditRecSave, MoveRecSave, DeleteRecSave, End, Pending
      <3>2. \E row : SaveRec(web[w].r, row)
        BY <2>1 DEF EditRecSave, MoveRecSave, DeleteRecSave
      <3> QED
        BY <1>1, <3>1, <3>2
    <2>2. CASE \E r \in Recommendation : AddRecSave(w, r)
      <3>1. \E r \in Recommendation : \E row : SaveRec(r, row)
        BY <2>2 DEF AddRecSave
      <3> QED
        BY <1>1, <3>1
    <2>3. CASE \/ DeleteRecCheck(w) \/ \E f \in Finding : AddRecRead(w, f)
               \/ \E r \in Recommendation :
                     \/ EditRecRead(w, r) \/ DeleteRecRead(w, r)
                     \/ \E t \in Phase : MoveRecRead(w, r, t)
      BY <2>3 DEF DeleteRecCheck, AddRecRead, EditRecRead, DeleteRecRead, MoveRecRead,
                  Begin, rows
    <2> QED
      BY <1>3, <2>1, <2>2, <2>3 DEF RecommendationStep
  <1>4. ASSUME NEW w \in Worker, MonitoringStep(w)
        PROVE  One
    BY <1>4 DEF MonitoringStep, AddMonitoringSave, EditMonitoringSave,
                DeleteMonitoringSave, AddMonitoringRead, EditMonitoringRead,
                DeleteMonitoringRead, Begin, rows
  <1>5. ASSUME NEW w \in Worker, Abandon(w) PROVE One
    BY <1>5 DEF Abandon, rows
  <1>6. CASE EngagementMoves \/ UNCHANGED vars
    BY <1>6 DEF EngagementMoves, rows, vars
  <1> QED
    BY <1>2, <1>3, <1>4, <1>5, <1>6 DEF Next

LEMMA PhaseInit == Init => PhaseInv
  <1> SUFFICES ASSUME Init PROVE PhaseInv
    OBVIOUS
  <1>1. \A r \in Recommendation : was[r] = {} /\ rec[r].status = "none" /\ mon[r] = "none"
    BY DEF Init, NoRec
  <1>2. \A w \in Worker : web[w].op = "idle"
    BY DEF Init, Idle
  <1> QED
    BY <1>1, <1>2 DEF PhaseInv, Prefix

\* While no body carries a status of a recommendation, what is monitored
\* was taken up.
THEOREM MonitoringOfBegunWork ==
    ASSUME RecommendationBodies = {}
    PROVE  Spec => []MonitoredWorkBegan
  <1>1. TypeInv /\ PhaseInv /\ [Next]_vars => PhaseInv'
    BY PhaseStep
  <1>2. PhaseInv => MonitoredWorkBegan
    BY DEF PhaseInv, MonitoredWorkBegan
  <1> QED
    BY <1>1, <1>2, PhaseInit, TypeInvariant, PTL DEF Spec

\* The prefixes are what the contract calls passed.
LEMMA PassedPrefixes ==
    /\ Lifecycle!Passed(0) = {}
    /\ Lifecycle!Passed(1) = {"open"}
    /\ Lifecycle!Passed(2) = {"open", "in_progress"}
    /\ Lifecycle!Passed(3) = {"open", "in_progress", "implemented"}
    /\ Lifecycle!Passed(4) = {"open", "in_progress", "implemented", "verified"}
    /\ Lifecycle!Passed(5) = {"open", "in_progress", "implemented", "verified", "closed"}
  <1> DEFINE Chain == <<"open", "in_progress", "implemented", "verified", "closed">>
  <1>1. /\ 1..0 = {} /\ 1..1 = {1} /\ 1..2 = {1, 2} /\ 1..3 = {1, 2, 3}
        /\ 1..4 = {1, 2, 3, 4} /\ 1..5 = {1, 2, 3, 4, 5}
    OBVIOUS
  <1>2. /\ Chain[1] = "open" /\ Chain[2] = "in_progress" /\ Chain[3] = "implemented"
        /\ Chain[4] = "verified" /\ Chain[5] = "closed"
    OBVIOUS
  <1> HIDE DEF Chain
  <1>3. \A n : Lifecycle!Passed(n) = {Chain[k] : k \in 1..n}
    BY DEF Lifecycle!Passed, Chain
  <1>4. Lifecycle!Passed(0) = {} /\ Lifecycle!Passed(1) = {"open"}
    BY <1>1, <1>2, <1>3
  <1>5. Lifecycle!Passed(2) = {"open", "in_progress"}
    BY <1>1, <1>2, <1>3
  <1>6. Lifecycle!Passed(3) = {"open", "in_progress", "implemented"}
    BY <1>1, <1>2, <1>3
  <1>7. Lifecycle!Passed(4) = {"open", "in_progress", "implemented", "verified"}
    BY <1>1, <1>2, <1>3
  <1>8. Lifecycle!Passed(5) = {"open", "in_progress", "implemented", "verified", "closed"}
    BY <1>1, <1>2, <1>3
  <1> QED
    BY <1>4, <1>5, <1>6, <1>7, <1>8

LEMMA AdvanceOne ==
    ASSUME TypeInv, [Next]_vars, \A r \in Recommendation : Grows(r)
    PROVE  [Lifecycle!Next]_was
  <1>1. CASE was' = was
    BY <1>1
  <1>2. ASSUME NEW r \in Recommendation, was' = [was EXCEPT ![r] = was'[r]], was'[r] # was[r]
        PROVE  Lifecycle!Next
    <2>1. Len(<<"open", "in_progress", "implemented", "verified", "closed">>) = 5
      OBVIOUS
    <2>2. \E n \in 1..5 : was[r] = Lifecycle!Passed(n - 1) /\ was'[r] = Lifecycle!Passed(n)
      <3>1. \/ was[r] = Lifecycle!Passed(1 - 1) /\ was'[r] = Lifecycle!Passed(1)
            \/ was[r] = Lifecycle!Passed(2 - 1) /\ was'[r] = Lifecycle!Passed(2)
            \/ was[r] = Lifecycle!Passed(3 - 1) /\ was'[r] = Lifecycle!Passed(3)
            \/ was[r] = Lifecycle!Passed(4 - 1) /\ was'[r] = Lifecycle!Passed(4)
            \/ was[r] = Lifecycle!Passed(5 - 1) /\ was'[r] = Lifecycle!Passed(5)
        <4>1. 1 - 1 = 0 /\ 2 - 1 = 1 /\ 3 - 1 = 2 /\ 4 - 1 = 3 /\ 5 - 1 = 4
          OBVIOUS
        <4> QED
          BY <1>2, <4>1, PassedPrefixes, Zenon DEF Grows
      <3>2. 1 \in 1..5 /\ 2 \in 1..5 /\ 3 \in 1..5 /\ 4 \in 1..5 /\ 5 \in 1..5
        OBVIOUS
      <3> QED
        BY <3>1, <3>2
    <2> QED
      BY <1>2, <2>1, <2>2 DEF Lifecycle!Next, Lifecycle!Advance
  <1>3. CASE \E r \in Recommendation : was' = [was EXCEPT ![r] = was'[r]]
    <2>1. was \in [Recommendation -> SUBSET Phase]
      BY DEF TypeInv, TypeOK
    <2>2. PICK r \in Recommendation : was' = [was EXCEPT ![r] = was'[r]]
      BY <1>3
    <2>3. was'[r] = was[r] => was' = was
      BY <2>1, <2>2
    <2> QED
      BY <1>2, <2>2, <2>3
  <1> QED
    BY <1>1, <1>3, OneRecAtATime

\* While no body carries a status of a recommendation, the requests of any
\* number of workers together take it through its phases in order.
THEOREM RecommendationsKeepTheContract ==
    ASSUME RecommendationBodies = {}
    PROVE  Spec => ImplementsContract
  <1>1. Init => Lifecycle!Init
    BY DEF Init, Lifecycle!Init
  <1>2. TypeInv /\ PhaseInv /\ [Next]_vars => PhaseInv' /\ [Lifecycle!Next]_was
    BY PhaseStep, AdvanceOne
  <1> QED
    BY <1>1, <1>2, PhaseInit, TypeInvariant, PTL DEF Spec, ImplementsContract, Lifecycle!Spec
---------------------------------------------------------------------------
(* What is final or closed is undone by requests that read it before.      *)

FindingWrites == {"edit finding", "move finding", "answer", "delete finding", "drop finding"}
RecWrites == {"edit recommendation", "move recommendation", "delete recommendation",
              "drop recommendation"}

\* A request that goes to write a row found it neither final nor closed.
Fresh(q) ==
    /\ q.op \in FindingWrites => q.finding.status # "final"
    /\ q.op \in RecWrites => q.rec.status # "closed"

StaleInv == \A w \in Worker : Fresh(web[w])

LEMMA FreshKept ==
    ASSUME StaleInv, \A w \in Worker : web'[w] = web[w] \/ Fresh(web'[w])
    PROVE  StaleInv'
  BY DEF StaleInv, Fresh

LEMMA FreshIdle == Fresh(Idle)
  BY DEF Fresh, Idle, FindingWrites, RecWrites

LEMMA FreshBegins ==
    ASSUME TypeInv, StaleInv, NEW w \in Worker, NEW q, Begin(w, q), Fresh(q)
    PROVE  StaleInv' /\ UNCHANGED <<finding, rec>>
  <1>1. \A v \in Worker : web'[v] = web[v] \/ web'[v] = q
    BY DEF Begin, TypeInv, TypeOK
  <1> QED
    BY <1>1, FreshKept DEF Begin, rows

LEMMA FreshEnds ==
    ASSUME TypeInv, StaleInv, NEW w \in Worker, NEW op, End(w, op)
    PROVE  StaleInv' /\ web'[w] = Idle /\ web[w].op = op /\ Fresh(web[w])
  <1>1. web'[w] = Idle /\ \A v \in Worker : web'[v] = web[v] \/ web'[v] = Idle
    BY DEF End, TypeInv, TypeOK
  <1> QED
    BY <1>1, FreshKept, FreshIdle DEF End, StaleInv

\* What the property says of one step.
Undone ==
    /\ \A f \in Finding :
          finding[f].status = "final" /\ finding'[f] # finding[f] =>
          \E w \in Worker : /\ web[w].f = f /\ web[w].finding.status # "final"
                            /\ web'[w] = Idle
    /\ \A r \in Recommendation :
          rec[r].status = "closed" /\ rec'[r] # rec[r] =>
          \E w \in Worker : /\ web[w].r = r /\ web[w].rec.status # "closed"
                            /\ web'[w] = Idle

LEMMA FindingStale ==
    ASSUME TypeInv, StaleInv, NEW w \in Worker, FindingStep(w)
    PROVE  StaleInv' /\ Undone
  <1>0. finding \in [Finding -> FindingRow] /\ web \in [Worker -> Request]
    BY DEF TypeInv, TypeOK
  <1>1. CASE AddFindingRead(w)
    <2> DEFINE q == [Idle EXCEPT !.op = "add finding"]
    <2>1. Begin(w, q) /\ q.op = "add finding"
      BY <1>1 DEF AddFindingRead, Idle
    <2> HIDE DEF q
    <2> QED
      BY <2>1, FreshBegins DEF Fresh, FindingWrites, RecWrites, Undone
  <1>2. ASSUME NEW f \in Finding, EditFindingRead(w, f) PROVE StaleInv' /\ Undone
    <2> DEFINE q == [Idle EXCEPT !.op = "edit finding", !.f = f, !.finding = finding[f]]
    <2>1. Begin(w, q) /\ q.op = "edit finding" /\ q.finding.status # "final"
      BY <1>2 DEF EditFindingRead, Idle
    <2> HIDE DEF q
    <2> QED
      BY <2>1, FreshBegins DEF Fresh, FindingWrites, RecWrites, Undone
  <1>3. ASSUME NEW f \in Finding, AnswerRead(w, f) PROVE StaleInv' /\ Undone
    <2> DEFINE q == [Idle EXCEPT !.op = "answer", !.f = f,
                         !.finding = [finding[f] EXCEPT !.active = FALSE]]
    <2>1. [finding[f] EXCEPT !.active = FALSE].status = finding[f].status
      BY <1>0 DEF FindingRow
    <2>2. Begin(w, q) /\ q.op = "answer" /\ q.finding.status # "final"
      BY <1>3, <2>1 DEF AnswerRead, Idle
    <2> HIDE DEF q
    <2> QED
      BY <2>2, FreshBegins DEF Fresh, FindingWrites, RecWrites, Undone
  <1>4. ASSUME NEW f \in Finding, DeleteFindingRead(w, f) PROVE StaleInv' /\ Undone
    <2> DEFINE q == [Idle EXCEPT !.op = "delete finding", !.f = f, !.finding = SeenFinding(f)]
    <2>1. Begin(w, q) /\ q.op = "delete finding" /\ q.finding.status # "final"
      BY <1>4 DEF DeleteFindingRead, Idle, SeenFinding, NoFinding
    <2> HIDE DEF q
    <2> QED
      BY <2>1, FreshBegins DEF Fresh, FindingWrites, RecWrites, Undone
  <1>5. ASSUME NEW f \in Finding, NEW t \in FindingPhase,
               FinalizeRead(w, f, t) \/ UpdateFindingRead(w, f, t)
        PROVE  StaleInv' /\ Undone
    <2> DEFINE q == [Idle EXCEPT !.op = "move finding", !.f = f,
                                 !.finding = SeenFinding(f), !.to = t]
    <2>1. finding[f].status # "final" /\ Begin(w, q)
      BY <1>5 DEF FinalizeRead, UpdateFindingRead, FinalizeTo, UpdateTo
    <2>2. q.op = "move finding" /\ q.finding.status # "final"
      BY <2>1 DEF Idle, SeenFinding, NoFinding
    <2> HIDE DEF q
    <2> QED
      BY <2>1, <2>2, FreshBegins DEF Fresh, FindingWrites, RecWrites, Undone
  <1>6. CASE DeleteFindingCheck(w)
    <2>1. [web[w] EXCEPT !.op = "drop finding"].finding = web[w].finding
      BY <1>0 DEF Request
    <2>2. [web[w] EXCEPT !.op = "drop finding"].op = "drop finding"
      BY <1>0 DEF Request
    <2>3. Fresh([web[w] EXCEPT !.op = "drop finding"])
      BY <1>6, <2>1, <2>2 DEF DeleteFindingCheck, StaleInv, Fresh, FindingWrites, RecWrites
    <2>4. \A v \in Worker : web'[v] = web[v] \/ Fresh(web'[v])
      BY <1>0, <1>6, <2>3, FreshIdle DEF DeleteFindingCheck
    <2> QED
      BY <1>6, <2>4, FreshKept DEF DeleteFindingCheck, rows, Undone
  <1>7. ASSUME NEW f \in Finding, AddFindingSave(w, f) PROVE StaleInv' /\ Undone
    <2>1. /\ End(w, "add finding") /\ finding[f].status = "none" /\ rec' = rec
          /\ \A g \in Finding \ {f} : finding'[g] = finding[g]
      BY <1>0, <1>7 DEF AddFindingSave, SaveFinding
    <2> QED
      BY <2>1, FreshEnds DEF Undone
  <1>8. ASSUME NEW op \in FindingWrites, NEW row, End(w, op), SaveFinding(web[w].f, row)
        PROVE  StaleInv' /\ Undone
    <2>1. StaleInv' /\ web'[w] = Idle /\ web[w].finding.status # "final"
      BY <1>8, FreshEnds DEF Fresh
    <2>2. rec' = rec /\ \A g \in Finding : finding'[g] # finding[g] => g = web[w].f
      BY <1>0, <1>8 DEF SaveFinding
    <2> QED
      BY <2>1, <2>2 DEF Undone
  <1>9. CASE EditFindingSave(w)
    <2>1. "edit finding" \in FindingWrites
      BY DEF FindingWrites
    <2>2. End(w, "edit finding") /\ \E row : SaveFinding(web[w].f, row)
      BY <1>9 DEF EditFindingSave
    <2> QED
      BY <1>8, <2>1, <2>2
  <1>10. CASE MoveFindingSave(w)
    <2>1. "move finding" \in FindingWrites
      BY DEF FindingWrites
    <2>2. End(w, "move finding") /\ \E row : SaveFinding(web[w].f, row)
      BY <1>10 DEF MoveFindingSave
    <2> QED
      BY <1>8, <2>1, <2>2
  <1>11. CASE AnswerSave(w)
    <2>1. "answer" \in FindingWrites
      BY DEF FindingWrites
    <2>2. End(w, "answer") /\ \E row : SaveFinding(web[w].f, row)
      BY <1>11 DEF AnswerSave
    <2> QED
      BY <1>8, <2>1, <2>2
  <1>12. CASE DeleteFindingSave(w)
    <2>1. "drop finding" \in FindingWrites
      BY DEF FindingWrites
    <2>2. End(w, "drop finding") /\ \E row : SaveFinding(web[w].f, row)
      BY <1>12 DEF DeleteFindingSave
    <2> QED
      BY <1>8, <2>1, <2>2
  <1> QED
    BY <1>1, <1>2, <1>3, <1>4, <1>5, <1>6, <1>7, <1>9, <1>10, <1>11, <1>12 DEF FindingStep

LEMMA RecommendationStale ==
    ASSUME TypeInv, StaleInv, NEW w \in Worker, RecommendationStep(w)
    PROVE  StaleInv' /\ Undone
  <1>0. rec \in [Recommendation -> RecRow] /\ web \in [Worker -> Request]
    BY DEF TypeInv, TypeOK
  <1>1. ASSUME NEW f \in Finding, AddRecRead(w, f) PROVE StaleInv' /\ Undone
    <2> DEFINE q == [Idle EXCEPT !.op = "add recommendation", !.f = f]
    <2>1. Begin(w, q) /\ q.op = "add recommendation"
      BY <1>1 DEF AddRecRead, Idle
    <2> HIDE DEF q
    <2> QED
      BY <2>1, FreshBegins DEF Fresh, FindingWrites, RecWrites, Undone
  <1>2. ASSUME NEW r \in Recommendation, EditRecRead(w, r) PROVE StaleInv' /\ Undone
    <2> DEFINE q == [Idle EXCEPT !.op = "edit recommendation", !.r = r, !.rec = rec[r]]
    <2>1. Begin(w, q) /\ q.op = "edit recommendation" /\ q.rec.status # "closed"
      BY <1>2 DEF EditRecRead, Idle
    <2> HIDE DEF q
    <2> QED
      BY <2>1, FreshBegins DEF Fresh, FindingWrites, RecWrites, Undone
  <1>3. ASSUME NEW r \in Recommendation, NEW t \in Phase, MoveRecRead(w, r, t)
        PROVE  StaleInv' /\ Undone
    <2> DEFINE q == [Idle EXCEPT !.op = "move recommendation", !.r = r,
                                 !.rec = SeenRec(r), !.to = t]
    <2>1. rec[r].status # "closed" /\ Begin(w, q)
      BY <1>3 DEF MoveRecRead, RecommendationTo
    <2>2. q.op = "move recommendation" /\ q.rec.status # "closed"
      BY <2>1 DEF Idle, SeenRec, NoRec
    <2> HIDE DEF q
    <2> QED
      BY <2>1, <2>2, FreshBegins DEF Fresh, FindingWrites, RecWrites, Undone
  <1>4. ASSUME NEW r \in Recommendation, DeleteRecRead(w, r) PROVE StaleInv' /\ Undone
    <2> DEFINE q == [Idle EXCEPT !.op = "delete recommendation", !.r = r, !.rec = SeenRec(r)]
    <2>1. Begin(w, q) /\ q.op = "delete recommendation" /\ q.rec.status # "closed"
      BY <1>4 DEF DeleteRecRead, Idle, SeenRec, NoRec
    <2> HIDE DEF q
    <2> QED
      BY <2>1, FreshBegins DEF Fresh, FindingWrites, RecWrites, Undone
  <1>5. CASE DeleteRecCheck(w)
    <2>1. [web[w] EXCEPT !.op = "drop recommendation"].rec = web[w].rec
      BY <1>0 DEF Request
    <2>2. [web[w] EXCEPT !.op = "drop recommendation"].op = "drop recommendation"
      BY <1>0 DEF Request
    <2>3. Fresh([web[w] EXCEPT !.op = "drop recommendation"])
      BY <1>5, <2>1, <2>2 DEF DeleteRecCheck, StaleInv, Fresh, FindingWrites, RecWrites
    <2>4. \A v \in Worker : web'[v] = web[v] \/ Fresh(web'[v])
      BY <1>0, <1>5, <2>3, FreshIdle DEF DeleteRecCheck
    <2> QED
      BY <1>5, <2>4, FreshKept DEF DeleteRecCheck, rows, Undone
  <1>6. ASSUME NEW r \in Recommendation, AddRecSave(w, r) PROVE StaleInv' /\ Undone
    <2>1. /\ End(w, "add recommendation") /\ rec[r].status = "none" /\ finding' = finding
          /\ \A s \in Recommendation \ {r} : rec'[s] = rec[s]
      BY <1>0, <1>6 DEF AddRecSave, SaveRec
    <2> QED
      BY <2>1, FreshEnds DEF Undone
  <1>7. ASSUME NEW op \in RecWrites, NEW row, End(w, op), SaveRec(web[w].r, row)
        PROVE  StaleInv' /\ Undone
    <2>1. StaleInv' /\ web'[w] = Idle /\ web[w].rec.status # "closed"
      BY <1>7, FreshEnds DEF Fresh
    <2>2. finding' = finding /\ \A s \in Recommendation : rec'[s] # rec[s] => s = web[w].r
      BY <1>0, <1>7 DEF SaveRec
    <2> QED
      BY <2>1, <2>2 DEF Undone
  <1>8. CASE EditRecSave(w)
    <2>1. "edit recommendation" \in RecWrites
      BY DEF RecWrites
    <2>2. End(w, "edit recommendation") /\ \E row : SaveRec(web[w].r, row)
      BY <1>8 DEF EditRecSave
    <2> QED
      BY <1>7, <2>1, <2>2
  <1>9. CASE MoveRecSave(w)
    <2>1. "move recommendation" \in RecWrites
      BY DEF RecWrites
    <2>2. End(w, "move recommendation") /\ \E row : SaveRec(web[w].r, row)
      BY <1>9 DEF MoveRecSave
    <2> QED
      BY <1>7, <2>1, <2>2
  <1>10. CASE DeleteRecSave(w)
    <2>1. "drop recommendation" \in RecWrites
      BY DEF RecWrites
    <2>2. End(w, "drop recommendation") /\ \E row : SaveRec(web[w].r, row)
      BY <1>10 DEF DeleteRecSave
    <2> QED
      BY <1>7, <2>1, <2>2
  <1> QED
    BY <1>1, <1>2, <1>3, <1>4, <1>5, <1>6, <1>8, <1>9, <1>10 DEF RecommendationStep

LEMMA StaleStep == TypeInv /\ StaleInv /\ [Next]_vars => StaleInv' /\ Undone
  <1> SUFFICES ASSUME TypeInv, StaleInv, [Next]_vars PROVE StaleInv' /\ Undone
    OBVIOUS
  <1>1. ASSUME NEW w \in Worker, MonitoringStep(w) PROVE StaleInv' /\ Undone
    <2>1. CASE \E r \in Recommendation :
                  AddMonitoringRead(w, r) \/ EditMonitoringRead(w, r) \/ DeleteMonitoringRead(w, r)
      <3>1. PICK r \in Recommendation : \/ AddMonitoringRead(w, r) \/ EditMonitoringRead(w, r)
                                        \/ DeleteMonitoringRead(w, r)
        BY <2>1
      <3>2. PICK q : Begin(w, q) /\ q.op \in {"add monitoring", "edit monitoring", "delete monitoring"}
        BY <3>1, MonitoringReads
      <3> QED
        BY <3>2, FreshBegins DEF Fresh, FindingWrites, RecWrites, Undone
    <2>2. CASE AddMonitoringSave(w) \/ EditMonitoringSave(w) \/ DeleteMonitoringSave(w)
      <3>1. (\E op : End(w, op)) /\ UNCHANGED <<finding, rec>>
        BY <2>2 DEF AddMonitoringSave, EditMonitoringSave, DeleteMonitoringSave
      <3> QED
        BY <3>1, FreshEnds DEF Undone
    <2> QED
      BY <1>1, <2>1, <2>2 DEF MonitoringStep
  <1>2. ASSUME NEW w \in Worker, Abandon(w) PROVE StaleInv' /\ Undone
    <2>1. End(w, web[w].op) /\ UNCHANGED <<finding, rec>>
      BY <1>2 DEF Abandon, End, rows
    <2> QED
      BY <2>1, FreshEnds DEF Undone
  <1>3. CASE EngagementMoves \/ UNCHANGED vars
    BY <1>3, FreshKept DEF EngagementMoves, rows, vars, Undone
  <1> QED
    BY <1>1, <1>2, <1>3, FindingStale, RecommendationStale DEF Next

\* A final finding and a closed recommendation are changed only by requests
\* that read them before they were: whatever the bodies carry.
THEOREM OnlyStaleUndo == Spec => OnlyStaleRequestsUndo
  <1>1. Init => StaleInv
    BY FreshIdle DEF Init, StaleInv
  <1>2. TypeInv /\ StaleInv /\ [Next]_vars => StaleInv' /\ [Undone]_vars
    BY StaleStep
  <1>3. Spec => [][Undone]_vars
    BY <1>1, <1>2, TypeInvariant, PTL DEF Spec
  <1> QED
    BY <1>3 DEF OnlyStaleRequestsUndo, Undone
=============================================================================
