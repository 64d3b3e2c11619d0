------------------------ MODULE InternalReview_proofs ------------------------
(***************************************************************************)
(* Theorems about InternalReview, for every set of items and workers.      *)
(***************************************************************************)
EXTENDS InternalReview, TLAPS

\* The five sets of rules, one at a time.
LEMMA RuleOf ==
    /\ kind = "quarterly_report" => Rule = QuarterlyReport
    /\ kind = "risk_assessment"  => Rule = RiskAssessment
    /\ kind = "control_matrix"   => Rule = RiskControlMatrix
    /\ kind = "survey"           => Rule = AuditSurvey
    /\ kind = "meeting"          => Rule = AuditMeeting
  BY DEF Rule, Rules

LEMMA RulesOfKind ==
    /\ Rules["quarterly_report"] = QuarterlyReport
    /\ Rules["risk_assessment"] = RiskAssessment
    /\ Rules["control_matrix"] = RiskControlMatrix
    /\ Rules["survey"] = AuditSurvey
    /\ Rules["meeting"] = AuditMeeting
  BY DEF Rules

LEMMA StatusesType ==
    /\ \A k \in Kind : StatusesOf(k) \subseteq Status
    /\ \A k \in Kind : First(k) \in StatusesOf(k)
    /\ "draft" \in Status
  <1>1. \A k \in Kind : StatusesOf(k) \subseteq Status
    BY DEF Status
  <1>2. \A k \in Kind : First(k) \in StatusesOf(k)
    <2> SUFFICES ASSUME NEW k \in Kind PROVE First(k) \in Rules[k].side
      BY DEF StatusesOf
    <2> QED
      BY RulesOfKind DEF Kind, First, QuarterlyReport, RiskAssessment,
                         RiskControlMatrix, AuditSurvey, AuditMeeting
  <1>3. "draft" \in Status
    <2>1. "survey" \in Kind /\ First("survey") = "draft"
      BY DEF Kind, First
    <2> QED
      BY <1>1, <1>2, <2>1
  <1> QED
    BY <1>1, <1>2, <1>3

LEMMA IdleType == Idle \in Request /\ Idle.op = "idle"
  BY StatusesType DEF Idle, Request, Op, View

\* A request that is about to move the record has a status to move it to;
\* one about an item has that item.
Pending(q) ==
    /\ q.op = "move" => q.to \in Status
    /\ q.op \in {"attach", "detach"} => q.item \in Item

TypeInv == TypeOK /\ \A w \in Worker : Pending(web[w])

LEMMA BeginType ==
    ASSUME TypeInv, NEW w \in Worker, NEW op \in Op,
           NEW to \in Status \union {None}, NEW item \in Item \union {None},
           Begin(w, op, to, item),
           op = "move" => to \in Status,
           op \in {"attach", "detach"} => item \in Item
    PROVE  TypeInv'
  <1> DEFINE q == [op |-> op, to |-> to, item |-> item, copy |-> Now]
  <1>1. q \in Request /\ Pending(q)
    BY DEF TypeInv, TypeOK, Now, View, Request, Pending
  <1>2. UNCHANGED <<kind, status, active, items, was>> /\ web' = [web EXCEPT ![w] = q]
    BY DEF Begin, record
  <1> HIDE DEF q
  <1>3. web' \in [Worker -> Request] /\ \A v \in Worker : web'[v] \in {q, web[v]}
    BY <1>1, <1>2 DEF TypeInv, TypeOK
  <1>4. \A v \in Worker : Pending(web'[v])
    BY <1>1, <1>3 DEF TypeInv
  <1> QED
    BY <1>2, <1>3, <1>4 DEF TypeInv, TypeOK, Pending

LEMMA EndType ==
    ASSUME TypeInv, NEW w \in Worker, web' = [web EXCEPT ![w] = Idle], UNCHANGED kind,
           status' \in Status, active' \in BOOLEAN, items' \subseteq Item, was' \subseteq Status
    PROVE  TypeInv'
  <1>1. web' \in [Worker -> Request] /\ \A v \in Worker : web'[v] \in {Idle, web[v]}
    BY IdleType DEF TypeInv, TypeOK
  <1>2. \A v \in Worker : Pending(web'[v])
    BY <1>1, IdleType DEF TypeInv, Pending
  <1> QED
    BY <1>1, <1>2 DEF TypeInv, TypeOK, Pending

LEMMA TypeInit == Init => TypeInv
  <1> SUFFICES ASSUME Init PROVE TypeInv
    OBVIOUS
  <1>1. status \in Status
    BY StatusesType, ConstantsAssumption DEF Init
  <1>2. items \subseteq Item
    BY DEF Init
  <1> QED
    BY <1>1, <1>2, IdleType DEF Init, TypeInv, TypeOK, Pending

LEMMA TypeStep == TypeInv /\ [Next]_vars => TypeInv'
  <1> SUFFICES ASSUME TypeInv, [Next]_vars PROVE TypeInv'
    OBVIOUS
  <1>0. /\ None \in Status \union {None} /\ None \in Item \union {None}
        /\ {"edit", "drop", "move", "attach", "detach", "consolidate"} \subseteq Op
        /\ kind \in Kind
    BY DEF Op, TypeInv, TypeOK
  <1> SUFFICES ASSUME NEW w \in Worker, Step(w) PROVE TypeInv'
    BY DEF Next, vars, record, TypeInv, TypeOK, Pending
  <1>1. CASE EditRead(w)
    BY <1>0, <1>1, BeginType DEF EditRead
  <1>2. CASE DropRead(w)
    BY <1>0, <1>2, BeginType DEF DropRead
  <1>3. CASE ConsolidateRead(w)
    BY <1>0, <1>3, BeginType DEF ConsolidateRead
  <1>4. CASE \E s \in StatusesOf(kind) : MoveRead(w, s)
    <2>1. PICK s \in StatusesOf(kind) : MoveRead(w, s)
      BY <1>4
    <2>2. s \in Status
      BY <1>0, StatusesType
    <2> QED
      BY <1>0, <2>1, <2>2, BeginType DEF MoveRead
  <1>5. CASE \E i \in Item : AttachRead(w, i) \/ DetachRead(w, i)
    <2>1. PICK i \in Item, op \in {"attach", "detach"} : Begin(w, op, None, i)
      BY <1>5 DEF AttachRead, DetachRead
    <2> QED
      BY <1>0, <2>1, BeginType
  <1>6. CASE EditSave(w)
    <2>1. web[w].copy \in View
      BY DEF TypeInv, TypeOK, Request
    <2>2. PICK s \in WrittenStatuses(web[w].copy.status) : SetStatus(s)
      BY <1>6 DEF EditSave
    <2>3. s \in Status
      BY <2>1, <2>2, ConstantsAssumption DEF WrittenStatuses, View
    <2>4. items' \subseteq Item
      BY <1>6, <2>1 DEF EditSave, WrittenItems, View, TypeInv, TypeOK
    <2>5. status' \in Status /\ was' \subseteq Status
      BY <2>2, <2>3 DEF SetStatus, TypeInv, TypeOK
    <2>6. web' = [web EXCEPT ![w] = Idle] /\ UNCHANGED kind /\ active' \in BOOLEAN
      BY <1>6, <2>1 DEF EditSave, End, View
    <2> QED
      BY <2>4, <2>5, <2>6, EndType
  <1>7. CASE DropSave(w)
    BY <1>7, EndType DEF DropSave, End, TypeInv, TypeOK
  <1>8. CASE MoveSave(w)
    <2>1. web[w].to \in Status
      BY <1>8 DEF MoveSave, End, TypeInv, Pending
    <2> QED
      BY <1>8, <2>1, EndType DEF MoveSave, End, SetStatus, TypeInv, TypeOK
  <1>9. CASE AttachSave(w)
    <2>1. web[w].item \in Item
      BY <1>9 DEF AttachSave, End, TypeInv, Pending
    <2> QED
      BY <1>9, <2>1, EndType DEF AttachSave, End, TypeInv, TypeOK
  <1>10. CASE DetachSave(w) \/ ConsolidateSave(w)
    <2>1. items' \subseteq Item
      BY <1>10 DEF DetachSave, ConsolidateSave, TypeInv, TypeOK
    <2> QED
      BY <1>10, <2>1, EndType DEF DetachSave, ConsolidateSave, End, TypeInv, TypeOK
  <1>11. CASE Abandon(w)
    BY <1>11, EndType DEF Abandon, record, TypeInv, TypeOK
  <1> QED
    BY <1>1, <1>2, <1>3, <1>4, <1>5, <1>6, <1>7, <1>8, <1>9, <1>10, <1>11 DEF Step, Write

LEMMA TypeInvariant == Spec => []TypeInv
  BY TypeInit, TypeStep, PTL DEF Spec

\* Every variable has its type, whatever statuses the bodies carry.
THEOREM TypeCorrect == Spec => []TypeOK
  <1>1. TypeInv => TypeOK
    BY DEF TypeInv
  <1> QED
    BY <1>1, TypeInvariant, PTL

---------------------------------------------------------------------------
(* Steps, seen from the requests.                                          *)

\* The requests after a step: one began with what it reads now and a status
\* that allows it, or one ended.
Allows(op, to) ==
    /\ op = "edit" => status \in Rule.edit
    /\ op = "drop" => status \in Rule.drop
    /\ op \in {"attach", "detach", "consolidate"} => status \in Rule.items
    /\ op = "move" => /\ <<status, to>> \in Rule.moves
                      /\ to \in Rule.gate => items # {}

Began(w) ==
    \E op \in Op \ {"idle"}, to \in Status \union {None}, item \in Item \union {None} :
        Begin(w, op, to, item) /\ Allows(op, to)

LEMMA ReadsBegin ==
    ASSUME TypeInv, NEW w \in Worker,
           \/ EditRead(w) \/ DropRead(w) \/ ConsolidateRead(w)
           \/ \E s \in StatusesOf(kind) : MoveRead(w, s)
           \/ \E i \in Item : AttachRead(w, i) \/ DetachRead(w, i)
    PROVE  Began(w)
  <1>0. /\ None \in Status \union {None} /\ None \in Item \union {None}
        /\ {"edit", "drop", "move", "attach", "detach", "consolidate"} = Op \ {"idle"}
        /\ kind \in Kind
    BY DEF Op, TypeInv, TypeOK
  <1>1. CASE EditRead(w)
    <2>1. Begin(w, "edit", None, None) /\ Allows("edit", None)
      BY <1>1 DEF EditRead, Allows
    <2> QED
      BY <1>0, <2>1 DEF Began
  <1>2. CASE DropRead(w)
    <2>1. Begin(w, "drop", None, None) /\ Allows("drop", None)
      BY <1>2 DEF DropRead, Allows
    <2> QED
      BY <1>0, <2>1 DEF Began
  <1>3. CASE ConsolidateRead(w)
    <2>1. Begin(w, "consolidate", None, None) /\ Allows("consolidate", None)
      BY <1>3 DEF ConsolidateRead, Allows
    <2> QED
      BY <1>0, <2>1 DEF Began
  <1>4. CASE \E s \in StatusesOf(kind) : MoveRead(w, s)
    <2>1. PICK s \in StatusesOf(kind) : MoveRead(w, s)
      BY <1>4
    <2>2. s \in Status \union {None}
      BY <1>0, StatusesType
    <2>3. Begin(w, "move", s, None) /\ Allows("move", s)
      BY <2>1 DEF MoveRead, Allows
    <2> QED
      BY <1>0, <2>2, <2>3 DEF Began
  <1>5. CASE \E i \in Item : AttachRead(w, i) \/ DetachRead(w, i)
    <2>1. PICK i \in Item : AttachRead(w, i) \/ DetachRead(w, i)
      BY <1>5
    <2>2. PICK op \in {"attach", "detach"} : Begin(w, op, None, i) /\ Allows(op, None)
      BY <2>1 DEF AttachRead, DetachRead, Allows
    <2> QED
      BY <1>0, <2>1, <2>2 DEF Began
  <1> QED
    BY <1>1, <1>2, <1>3, <1>4, <1>5

\* A request that has been begun: what it read allowed it.
ReadAllows(q) ==
    /\ q.op = "edit" => q.copy.status \in Rule.edit
    /\ q.op = "drop" => q.copy.status \in Rule.drop
    /\ q.op \in {"attach", "detach", "consolidate"} => q.copy.status \in Rule.items
    /\ q.op = "move" => /\ <<q.copy.status, q.to>> \in Rule.moves
                        /\ q.to \in Rule.gate => q.copy.items # {}

ReadInv == \A w \in Worker : ReadAllows(web[w])

LEMMA BeganView ==
    ASSUME TypeInv, NEW w \in Worker, Began(w)
    PROVE  /\ web'[w].op \in Op \ {"idle"}
           /\ web'[w].copy = Now
           /\ Allows(web'[w].op, web'[w].to)
           /\ \A v \in Worker : v # w => web'[v] = web[v]
           /\ UNCHANGED <<kind, record>>
           /\ web[w].op = "idle"
  <1>1. PICK op \in Op \ {"idle"}, to \in Status \union {None}, item \in Item \union {None} :
            Begin(w, op, to, item) /\ Allows(op, to)
    BY DEF Began
  <1> DEFINE q == [op |-> op, to |-> to, item |-> item, copy |-> Now]
  <1>2. q.op = op /\ q.to = to /\ q.copy = Now
    OBVIOUS
  <1>3. web' = [web EXCEPT ![w] = q] /\ UNCHANGED <<kind, record>> /\ web[w].op = "idle"
    BY <1>1 DEF Begin
  <1> HIDE DEF q
  <1>4. web'[w] = q /\ \A v \in Worker : v # w => web'[v] = web[v]
    BY <1>3 DEF TypeInv, TypeOK
  <1> QED
    BY <1>1, <1>2, <1>3, <1>4

LEMMA Ends ==
    ASSUME TypeInv, NEW w \in Worker, Write(w) \/ Abandon(w)
    PROVE  /\ web[w].op # "idle"
           /\ web'[w] = Idle
           /\ \A v \in Worker : v # w => web'[v] = web[v]
           /\ UNCHANGED kind
  <1>1. web[w].op # "idle" /\ web' = [web EXCEPT ![w] = Idle] /\ UNCHANGED kind
    BY DEF Write, Abandon, EditSave, DropSave, MoveSave, AttachSave, DetachSave,
           ConsolidateSave, End
  <1> QED
    BY <1>1 DEF TypeInv, TypeOK

LEMMA ReadInit == Init => ReadInv
  BY IdleType DEF Init, ReadInv, ReadAllows

LEMMA ReadStep == TypeInv /\ ReadInv /\ [Next]_vars => ReadInv'
  <1> SUFFICES ASSUME TypeInv, ReadInv, [Next]_vars PROVE ReadInv'
    OBVIOUS
  <1>1. ASSUME NEW w \in Worker, Began(w) PROVE ReadInv'
    <2>1. Rule' = Rule
      BY <1>1, BeganView DEF Rule
    <2>2. Now.status = status /\ Now.items = items
      BY DEF Now
    <2>3. ReadAllows(web'[w])
      BY <1>1, <2>2, BeganView DEF ReadAllows, Allows
    <2>4. \A v \in Worker : ReadAllows(web'[v])
      BY <1>1, <2>3, BeganView DEF ReadInv
    <2> QED
      BY <2>1, <2>4 DEF ReadInv, ReadAllows
  <1>2. ASSUME NEW w \in Worker, Write(w) \/ Abandon(w) PROVE ReadInv'
    <2>1. Rule' = Rule
      BY <1>2, Ends DEF Rule
    <2>2. ReadAllows(Idle)
      BY IdleType DEF ReadAllows
    <2>3. \A v \in Worker : ReadAllows(web'[v])
      BY <1>2, <2>2, Ends DEF ReadInv
    <2> QED
      BY <2>1, <2>3 DEF ReadInv, ReadAllows
  <1>3. CASE UNCHANGED vars
    BY <1>3 DEF vars, ReadInv, ReadAllows, Rule
  <1> QED
    BY <1>1, <1>2, <1>3, ReadsBegin DEF Next, Step

\* Whatever the bodies carry: a closed record changes only by requests that
\* read it while it was open, or by the review.
THEOREM ClosedRecordsStay == Spec => ClosedChangesAreStale
  <1>1. TypeInv /\ ReadInv /\ [Next]_vars =>
            [Closed(status) /\ UNCHANGED kind /\ Now' # Now =>
               \E w \in Worker :
                  /\ web[w].op # "idle" /\ web'[w].op = "idle"
                  /\ \/ ~Closed(web[w].copy.status)
                     \/ web[w].op = "move"]_vars
    <2> SUFFICES ASSUME TypeInv, ReadInv, Next, Now' # Now
                 PROVE  \E w \in Worker :
                           /\ web[w].op # "idle" /\ web'[w].op = "idle"
                           /\ \/ ~Closed(web[w].copy.status)
                              \/ web[w].op = "move"
      OBVIOUS
    <2>1. PICK w \in Worker : Step(w)
      BY DEF Next
    <2>2. CASE Write(w)
      <3>1. web[w].op \in Op \ {"idle"} /\ web'[w].op = "idle"
        BY <2>2, Ends, IdleType DEF TypeInv, TypeOK, Request
      <3>2. web[w].op = "move" \/ ~Closed(web[w].copy.status)
        BY <3>1 DEF ReadInv, ReadAllows, Closed, Op
      <3> QED
        BY <3>1, <3>2
    <2>3. CASE Began(w)
      BY <2>3, BeganView DEF record, Now
    <2>4. CASE Abandon(w)
      BY <2>4 DEF Abandon, record, Now
    <2> QED
      BY <2>1, <2>2, <2>3, <2>4, ReadsBegin DEF Step
  <1> QED
    BY <1>1, ReadInit, ReadStep, TypeInvariant, PTL DEF Spec, ClosedChangesAreStale

\* No item goes by anybody else's request.
THEOREM NoItemIsLost == Spec => ItemsKept
  <1>1. TypeInv /\ [Next]_vars =>
            [\A i \in items \ items' :
               \E w \in Worker :
                  /\ web'[w].op = "idle"
                  /\ \/ web[w].op = "detach" /\ web[w].item = i
                     \/ web[w].op \in {"edit", "consolidate"}]_items
    <2> SUFFICES ASSUME TypeInv, [Next]_vars, NEW i \in items \ items'
                 PROVE  \E w \in Worker :
                           /\ web'[w].op = "idle"
                           /\ \/ web[w].op = "detach" /\ web[w].item = i
                              \/ web[w].op \in {"edit", "consolidate"}
      OBVIOUS
    <2>1. ~UNCHANGED items
      OBVIOUS
    <2>2. PICK w \in Worker : Step(w)
      BY <2>1 DEF Next, vars, record
    <2>3. CASE Write(w)
      <3>1. web'[w].op = "idle"
        BY <2>3, Ends, IdleType
      <3>2. \/ web[w].op = "detach" /\ web[w].item = i
            \/ web[w].op \in {"edit", "consolidate"}
        BY <2>1, <2>3 DEF Write, EditSave, DropSave, MoveSave, AttachSave,
                          DetachSave, ConsolidateSave, End
      <3> QED
        BY <3>1, <3>2
    <2>4. CASE Began(w)
      BY <2>1, <2>4, BeganView DEF record
    <2>5. CASE Abandon(w)
      BY <2>1, <2>5 DEF Abandon, record
    <2> QED
      BY <2>2, <2>3, <2>4, <2>5, ReadsBegin DEF Step
  <1> QED
    BY <1>1, TypeInvariant, PTL DEF Spec, ItemsKept

---------------------------------------------------------------------------
(* Gates.                                                                  *)

\* A write by a request that is up to date leaves no record past its gate
\* with nothing to show.
LEMMA FreshWrites ==
    ASSUME ClientStatuses = {}, TypeInv, ReadInv, NEW w \in Worker, Write(w),
           web[w].copy = Now
    PROVE  Hollow' => Hollow
  <1> DEFINE q == web[w]
  <1>0. q.copy.status = status /\ q.copy.items = items /\ ReadAllows(q) /\ kind' = kind
    BY Ends DEF Now, ReadInv
  <1>1. Rule' = Rule
    BY <1>0 DEF Rule
  <1> SUFFICES ASSUME Hollow' PROVE Hollow
    OBVIOUS
  <1>2. /\ items' = {} /\ kind \in {"control_matrix", "meeting"}
        /\ status' \notin Rule.edit \union {"cancelled"}
    BY <1>0, <1>1 DEF Hollow
  <1>3. CASE status' = status /\ (items' = items \/ status \in Rule.edit)
    BY <1>2, <1>3 DEF Hollow
  <1>4. CASE EditSave(w)
    <2>1. status \in Rule.edit
      BY <1>0, <1>4 DEF EditSave, End, ReadAllows
    <2>2. \E s \in WrittenStatuses(status) : SetStatus(s)
      BY <1>0, <1>4 DEF EditSave
    <2>3. status' = status
      BY <2>2 DEF WrittenStatuses, SetStatus
    <2> QED
      BY <1>2, <2>1, <2>3
  <1>5. CASE DropSave(w)
    BY <1>3, <1>5 DEF DropSave
  <1>6. CASE MoveSave(w)
    <2>1. /\ items' = items /\ status' = q.to
          /\ <<status, q.to>> \in Rule.moves
          /\ q.to \in Rule.gate => items # {}
      BY <1>0, <1>6 DEF MoveSave, End, SetStatus, ReadAllows
    <2>2. status \notin Rule.edit \union {"cancelled"}
      <3>1. CASE kind = "control_matrix"
        BY <1>2, <2>1, <3>1, RuleOf DEF RiskControlMatrix
      <3>2. CASE kind = "meeting"
        BY <1>2, <2>1, <3>2, RuleOf DEF AuditMeeting
      <3> QED
        BY <1>2, <3>1, <3>2
    <2> QED
      BY <1>2, <2>1, <2>2 DEF Hollow
  <1>7. CASE AttachSave(w)
    BY <1>2, <1>7 DEF AttachSave
  <1>8. CASE DetachSave(w) \/ ConsolidateSave(w)
    <2>1. status \in Rule.items /\ status' = status
      BY <1>0, <1>8 DEF DetachSave, ConsolidateSave, End, ReadAllows
    <2>2. status \in Rule.edit
      BY <1>2, <2>1, RuleOf DEF RiskControlMatrix, AuditMeeting
    <2> QED
      BY <1>2, <2>1, <2>2
  <1> QED
    BY <1>4, <1>5, <1>6, <1>7, <1>8 DEF Write

\* While no body carries a status, a submitted matrix without entries or a
\* completed meeting without minutes is the work of a request whose reading
\* was out of date.
THEOREM GatesHold ==
    ASSUME ClientStatuses = {}
    PROVE  Spec => OnlyStaleRequestsHollow
  <1>1. TypeInv /\ ReadInv /\ [Next]_vars =>
            [Hollow' /\ ~Hollow =>
               \E w \in Worker :
                  web[w].op # "idle" /\ web'[w].op = "idle" /\ web[w].copy # Now]_vars
    <2> SUFFICES ASSUME TypeInv, ReadInv, Next, Hollow', ~Hollow
                 PROVE  \E w \in Worker :
                           web[w].op # "idle" /\ web'[w].op = "idle" /\ web[w].copy # Now
      OBVIOUS
    <2>1. PICK w \in Worker : Step(w)
      BY DEF Next
    <2>2. CASE Write(w)
      BY <2>2, Ends, FreshWrites, IdleType
    <2>3. CASE Began(w)
      BY <2>3, BeganView DEF record, Hollow, Rule
    <2>4. CASE Abandon(w)
      BY <2>4 DEF Abandon, record, Hollow, Rule
    <2> QED
      BY <2>1, <2>2, <2>3, <2>4, ReadsBegin DEF Step
  <1> QED
    BY <1>1, ReadInit, ReadStep, TypeInvariant, PTL DEF Spec, OnlyStaleRequestsHollow

---------------------------------------------------------------------------
(* The statuses come one after the other.                                  *)

\* The status that comes before s, in a record of kind k that has had the
\* statuses of W, is among them.
ReadyIn(k, W, s) ==
    /\ k = "quarterly_report" =>
          /\ s = "management_review" => "cia_review" \in W
          /\ s = "committee_review" => "management_review" \in W
          /\ s = "approved" => "committee_review" \in W
          /\ s = "submitted_to_commission" => "approved" \in W
    /\ k = "risk_assessment" =>
          /\ s = "reviewed" => "submitted" \in W
          /\ s = "approved" => "reviewed" \in W
    /\ k = "control_matrix" => (s = "approved" => "submitted" \in W)
    /\ k = "meeting" => (s = "completed" => "in_progress" \in W)
Ready(s) == ReadyIn(kind, was, s)

OrderInv ==
    /\ status \in was
    /\ \A s \in was : Ready(s)
    /\ \A w \in Worker :
          /\ web[w].op = "edit" => web[w].copy.status \in was
          /\ web[w].op = "move" => Ready(web[w].to)

LEMMA MovesReady ==
    ASSUME TypeInv, OrderInv, NEW to, <<status, to>> \in Rule.moves
    PROVE  Ready(to)
  <1>1. CASE kind = "quarterly_report"
    BY <1>1, RuleOf DEF QuarterlyReport, OrderInv, Ready, ReadyIn
  <1>2. CASE kind = "risk_assessment"
    BY <1>2, RuleOf DEF RiskAssessment, OrderInv, Ready, ReadyIn
  <1>3. CASE kind = "control_matrix"
    BY <1>3, RuleOf DEF RiskControlMatrix, OrderInv, Ready, ReadyIn
  <1>4. CASE kind = "survey"
    BY <1>4 DEF Ready, ReadyIn
  <1>5. CASE kind = "meeting"
    BY <1>5, RuleOf DEF AuditMeeting, OrderInv, Ready, ReadyIn
  <1> QED
    BY <1>1, <1>2, <1>3, <1>4, <1>5 DEF TypeInv, TypeOK, Kind

LEMMA OrderInit == ClientStatuses = {} /\ Init => OrderInv
  BY IdleType DEF Init, OrderInv, Ready, ReadyIn, First

\* What a step adds to the statuses the record has had.
Adds(s) == status' = s /\ was' = was \union {s} /\ Ready(s)

LEMMA WritesAdd ==
    ASSUME ClientStatuses = {}, TypeInv, OrderInv, NEW w \in Worker, Write(w)
    PROVE  (\E s : Adds(s)) \/ UNCHANGED <<status, was>>
  <1>1. CASE EditSave(w)
    <2>1. PICK s \in WrittenStatuses(web[w].copy.status) : SetStatus(s)
      BY <1>1 DEF EditSave
    <2>2. s = web[w].copy.status /\ s \in was
      BY <1>1, <2>1 DEF WrittenStatuses, EditSave, End, OrderInv
    <2> QED
      BY <2>1, <2>2 DEF SetStatus, OrderInv, Adds
  <1>2. CASE MoveSave(w)
    BY <1>2 DEF MoveSave, End, SetStatus, OrderInv, Adds
  <1>3. CASE DropSave(w) \/ AttachSave(w) \/ DetachSave(w) \/ ConsolidateSave(w)
    BY <1>3 DEF DropSave, AttachSave, DetachSave, ConsolidateSave
  <1> QED
    BY <1>1, <1>2, <1>3 DEF Write

LEMMA StepAdds ==
    ASSUME ClientStatuses = {}, TypeInv, OrderInv, [Next]_vars
    PROVE  (\E s : Adds(s)) \/ UNCHANGED <<status, was>>
  <1>1. ASSUME NEW w \in Worker, Began(w) PROVE UNCHANGED <<status, was>>
    BY <1>1, BeganView DEF record
  <1>2. ASSUME NEW w \in Worker, Abandon(w) PROVE UNCHANGED <<status, was>>
    BY <1>2 DEF Abandon, record
  <1>3. CASE UNCHANGED vars
    BY <1>3 DEF vars, record
  <1> QED
    BY <1>1, <1>2, <1>3, ReadsBegin, WritesAdd DEF Next, Step

LEMMA KindKept ==
    ASSUME TypeInv, [Next]_vars
    PROVE  kind' = kind
  <1>1. ASSUME NEW w \in Worker, Began(w) \/ Write(w) \/ Abandon(w) PROVE kind' = kind
    BY <1>1, BeganView, Ends
  <1> QED
    BY <1>1, ReadsBegin DEF Next, Step, vars

LEMMA OrderStep ==
    ASSUME ClientStatuses = {}, TypeInv, OrderInv, [Next]_vars
    PROVE  OrderInv'
  <1>1. was \subseteq was' /\ kind' = kind
    <2>1. was \subseteq was'
      BY StepAdds DEF Adds
    <2> QED
      BY <2>1, KindKept
  <1>2. ASSUME NEW s, Ready(s) PROVE ReadyIn(kind', was', s)
    BY <1>1, <1>2 DEF Ready, ReadyIn
  <1>3. status' \in was' /\ \A s \in was' : ReadyIn(kind', was', s)
    BY <1>2, StepAdds DEF Adds, OrderInv
  <1>4. ASSUME NEW w \in Worker
        PROVE  /\ web'[w].op = "edit" => web'[w].copy.status \in was'
               /\ web'[w].op = "move" => ReadyIn(kind', was', web'[w].to)
    <2>1. CASE web'[w] = web[w] \/ web'[w] = Idle
      BY <1>1, <1>2, <2>1, IdleType DEF OrderInv
    <2>2. CASE Began(w)
      <3>1. web'[w].copy.status = status /\ Allows(web'[w].op, web'[w].to)
        BY <2>2, BeganView DEF Now
      <3>2. web'[w].op = "move" => Ready(web'[w].to)
        BY <3>1, MovesReady DEF Allows
      <3> QED
        BY <1>1, <1>2, <3>1, <3>2 DEF OrderInv
    <2>3. ASSUME NEW v \in Worker, Began(v) \/ Write(v) \/ Abandon(v), v # w
          PROVE  web'[w] = web[w]
      BY <2>3, BeganView, Ends
    <2>4. ASSUME Write(w) \/ Abandon(w) PROVE web'[w] = Idle
      BY <2>4, Ends
    <2> QED
      BY <2>1, <2>2, <2>3, <2>4, ReadsBegin DEF Next, Step, vars
  <1> QED
    BY <1>3, <1>4 DEF OrderInv, Ready

\* The prefixes of a chain, counted out.
LEMMA Counting ==
    /\ 1..0 = {} /\ 1..1 = {1} /\ 1..2 = {1, 2} /\ 1..3 = {1, 2, 3}
    /\ 1..4 = {1, 2, 3, 4} /\ 1..5 = {1, 2, 3, 4, 5}
    /\ 1 - 1 = 0 /\ 2 - 1 = 1 /\ 3 - 1 = 2 /\ 4 - 1 = 3 /\ 5 - 1 = 4
  OBVIOUS

LEMMA DraftFirst ==
    /\ First("quarterly_report") = "draft" /\ First("risk_assessment") = "draft"
    /\ First("control_matrix") = "draft" /\ First("meeting") = "scheduled"
  BY DEF First

\* The chain of quarterly reports, and a record that gets one more status.
LEMMA QuarterlyChain ==
    /\ Len(QuarterlyReport.chain) = 5
    /\ Elements(QuarterlyReport.chain) = {"cia_review", "management_review", "committee_review", "approved", "submitted_to_commission"}
    /\ Quarterly!Passed(0) = {}
    /\ Quarterly!Passed(1) = {"cia_review"}
    /\ Quarterly!Passed(2) = {"cia_review", "management_review"}
    /\ Quarterly!Passed(3) = {"cia_review", "management_review", "committee_review"}
    /\ Quarterly!Passed(4) = {"cia_review", "management_review", "committee_review", "approved"}
    /\ Quarterly!Passed(5) = {"cia_review", "management_review", "committee_review", "approved", "submitted_to_commission"}
  <1> DEFINE c == QuarterlyReport.chain
  <1>1. /\ Len(c) = 5
        /\ c[1] = "cia_review" /\ c[2] = "management_review"
        /\ c[3] = "committee_review" /\ c[4] = "approved"
        /\ c[5] = "submitted_to_commission"
    BY DEF QuarterlyReport
  <1>2. \A n : Quarterly!Passed(n) = {c[k] : k \in 1..n}
    BY DEF Quarterly!Passed
  <1>3. Elements(c) = {c[k] : k \in 1..5}
    BY <1>1 DEF Elements
  <1> HIDE DEF c
  <1>4. Quarterly!Passed(0) = {}
    BY <1>1, <1>2, Counting
  <1>5. Quarterly!Passed(1) = {"cia_review"}
    BY <1>1, <1>2, Counting
  <1>6. Quarterly!Passed(2) = {"cia_review", "management_review"}
    BY <1>1, <1>2, Counting
  <1>7. Quarterly!Passed(3) = {"cia_review", "management_review", "committee_review"}
    BY <1>1, <1>2, Counting
  <1>8. Quarterly!Passed(4) = {"cia_review", "management_review", "committee_review", "approved"}
    BY <1>1, <1>2, Counting
  <1>9. Quarterly!Passed(5) = {"cia_review", "management_review", "committee_review", "approved", "submitted_to_commission"}
    BY <1>1, <1>2, Counting
  <1>10. Elements(c) = {"cia_review", "management_review", "committee_review", "approved", "submitted_to_commission"}
    BY <1>1, <1>3, Counting
  <1> QED
    BY <1>1, <1>4, <1>5, <1>6, <1>7, <1>8, <1>9, <1>10 DEF c

LEMMA QuarterlyStep ==
    ASSUME ClientStatuses = {}, TypeInv, OrderInv, [Next]_vars
    PROVE  [Quarterly!Next]_(PhasesOf("quarterly_report"))
  <1> DEFINE E == {"cia_review", "management_review", "committee_review", "approved",
                   "submitted_to_commission"}
             been == PhasesOf("quarterly_report")
  <1>1. Rules["quarterly_report"].chain = QuarterlyReport.chain
    BY RulesOfKind
  <1>2. been = [r \in {"quarterly_report"} |->
               IF kind = "quarterly_report" THEN was \intersect E ELSE {}]
    BY <1>1, QuarterlyChain DEF PhasesOf
  <1>3. been' = [r \in {"quarterly_report"} |->
               IF kind' = "quarterly_report" THEN was' \intersect E ELSE {}]
    BY <1>1, QuarterlyChain DEF PhasesOf
  <1> HIDE DEF been
  <1>4. kind' = kind
    BY KindKept
  <1>5. CASE UNCHANGED was \/ kind # "quarterly_report"
    BY <1>2, <1>3, <1>4, <1>5 DEF been
  <1>6. ASSUME kind = "quarterly_report", NEW s, Adds(s) PROVE UNCHANGED been \/ Quarterly!Next
    <2> DEFINE X == was \intersect E
               Y == was' \intersect E
    <2>1. /\ \A x \in was : ReadyIn("quarterly_report", was, x)
          /\ ReadyIn("quarterly_report", was, s)
          /\ was' = was \union {s}
      BY <1>6 DEF OrderInv, Ready, Adds
    <2>2. CASE s = "cia_review" /\ s \notin was
      <3>1. X = Quarterly!Passed(1 - 1)
        BY <2>1, <2>2, QuarterlyChain, Counting DEF ReadyIn
      <3>2. Y = Quarterly!Passed(1)
        BY <2>1, <2>2, QuarterlyChain DEF ReadyIn
      <3>3. /\ been["quarterly_report"] = Quarterly!Passed(1 - 1)
            /\ been' = [been EXCEPT !["quarterly_report"] = Quarterly!Passed(1)]
        BY <1>2, <1>3, <1>4, <1>6, <3>1, <3>2
      <3>4. 1 \in 1..Len(QuarterlyReport.chain)
        BY QuarterlyChain
      <3> QED
        BY <3>3, <3>4 DEF Quarterly!Next, Quarterly!Advance, been
    <2>3. CASE s = "management_review" /\ s \notin was
      <3>1. X = Quarterly!Passed(2 - 1)
        BY <2>1, <2>3, QuarterlyChain, Counting DEF ReadyIn
      <3>2. Y = Quarterly!Passed(2)
        BY <2>1, <2>3, QuarterlyChain DEF ReadyIn
      <3>3. /\ been["quarterly_report"] = Quarterly!Passed(2 - 1)
            /\ been' = [been EXCEPT !["quarterly_report"] = Quarterly!Passed(2)]
        BY <1>2, <1>3, <1>4, <1>6, <3>1, <3>2
      <3>4. 2 \in 1..Len(QuarterlyReport.chain)
        BY QuarterlyChain
      <3> QED
        BY <3>3, <3>4 DEF Quarterly!Next, Quarterly!Advance, been
    <2>4. CASE s = "committee_review" /\ s \notin was
      <3>1. X = Quarterly!Passed(3 - 1)
        BY <2>1, <2>4, QuarterlyChain, Counting DEF ReadyIn
      <3>2. Y = Quarterly!Passed(3)
        BY <2>1, <2>4, QuarterlyChain DEF ReadyIn
      <3>3. /\ been["quarterly_report"] = Quarterly!Passed(3 - 1)
            /\ been' = [been EXCEPT !["quarterly_report"] = Quarterly!Passed(3)]
        BY <1>2, <1>3, <1>4, <1>6, <3>1, <3>2
      <3>4. 3 \in 1..Len(QuarterlyReport.chain)
        BY QuarterlyChain
      <3> QED
        BY <3>3, <3>4 DEF Quarterly!Next, Quarterly!Advance, been
    <2>5. CASE s = "approved" /\ s \notin was
      <3>1. X = Quarterly!Passed(4 - 1)
        BY <2>1, <2>5, QuarterlyChain, Counting DEF ReadyIn
      <3>2. Y = Quarterly!Passed(4)
        BY <2>1, <2>5, QuarterlyChain DEF ReadyIn
      <3>3. /\ been["quarterly_report"] = Quarterly!Passed(4 - 1)
            /\ been' = [been EXCEPT !["quarterly_report"] = Quarterly!Passed(4)]
        BY <1>2, <1>3, <1>4, <1>6, <3>1, <3>2
      <3>4. 4 \in 1..Len(QuarterlyReport.chain)
        BY QuarterlyChain
      <3> QED
        BY <3>3, <3>4 DEF Quarterly!Next, Quarterly!Advance, been
    <2>6. CASE s = "submitted_to_commission" /\ s \notin was
      <3>1. X = Quarterly!Passed(5 - 1)
        BY <2>1, <2>6, QuarterlyChain, Counting DEF ReadyIn
      <3>2. Y = Quarterly!Passed(5)
        BY <2>1, <2>6, QuarterlyChain DEF ReadyIn
      <3>3. /\ been["quarterly_report"] = Quarterly!Passed(5 - 1)
            /\ been' = [been EXCEPT !["quarterly_report"] = Quarterly!Passed(5)]
        BY <1>2, <1>3, <1>4, <1>6, <3>1, <3>2
      <3>4. 5 \in 1..Len(QuarterlyReport.chain)
        BY QuarterlyChain
      <3> QED
        BY <3>3, <3>4 DEF Quarterly!Next, Quarterly!Advance, been
    <2>7. CASE s \in was \/ s \notin E
      <3>1. Y = X
        BY <2>1, <2>7
      <3> QED
        BY <1>2, <1>3, <1>4, <3>1
    <2> QED
      BY <2>2, <2>3, <2>4, <2>5, <2>6, <2>7
  <1> QED
    BY <1>5, <1>6, StepAdds DEF been

\* The chain of risk assessments, and a record that gets one more status.
LEMMA AssessmentChain ==
    /\ Len(RiskAssessment.chain) = 3
    /\ Elements(RiskAssessment.chain) = {"submitted", "reviewed", "approved"}
    /\ Assessment!Passed(0) = {}
    /\ Assessment!Passed(1) = {"submitted"}
    /\ Assessment!Passed(2) = {"submitted", "reviewed"}
    /\ Assessment!Passed(3) = {"submitted", "reviewed", "approved"}
  <1> DEFINE c == RiskAssessment.chain
  <1>1. /\ Len(c) = 3
        /\ c[1] = "submitted" /\ c[2] = "reviewed" /\ c[3] = "approved"
    BY DEF RiskAssessment
  <1>2. \A n : Assessment!Passed(n) = {c[k] : k \in 1..n}
    BY DEF Assessment!Passed
  <1>3. Elements(c) = {c[k] : k \in 1..3}
    BY <1>1 DEF Elements
  <1> HIDE DEF c
  <1>4. Assessment!Passed(0) = {}
    BY <1>1, <1>2, Counting
  <1>5. Assessment!Passed(1) = {"submitted"}
    BY <1>1, <1>2, Counting
  <1>6. Assessment!Passed(2) = {"submitted", "reviewed"}
    BY <1>1, <1>2, Counting
  <1>7. Assessment!Passed(3) = {"submitted", "reviewed", "approved"}
    BY <1>1, <1>2, Counting
  <1>8. Elements(c) = {"submitted", "reviewed", "approved"}
    BY <1>1, <1>3, Counting
  <1> QED
    BY <1>1, <1>4, <1>5, <1>6, <1>7, <1>8 DEF c

LEMMA AssessmentStep ==
    ASSUME ClientStatuses = {}, TypeInv, OrderInv, [Next]_vars
    PROVE  [Assessment!Next]_(PhasesOf("risk_assessment"))
  <1> DEFINE E == {"submitted", "reviewed", "approved"}
             been == PhasesOf("risk_assessment")
  <1>1. Rules["risk_assessment"].chain = RiskAssessment.chain
    BY RulesOfKind
  <1>2. been = [r \in {"risk_assessment"} |->
               IF kind = "risk_assessment" THEN was \intersect E ELSE {}]
    BY <1>1, AssessmentChain DEF PhasesOf
  <1>3. been' = [r \in {"risk_assessment"} |->
               IF kind' = "risk_assessment" THEN was' \intersect E ELSE {}]
    BY <1>1, AssessmentChain DEF PhasesOf
  <1> HIDE DEF been
  <1>4. kind' = kind
    BY KindKept
  <1>5. CASE UNCHANGED was \/ kind # "risk_assessment"
    BY <1>2, <1>3, <1>4, <1>5 DEF been
  <1>6. ASSUME kind = "risk_assessment", NEW s, Adds(s) PROVE UNCHANGED been \/ Assessment!Next
    <2> DEFINE X == was \intersect E
               Y == was' \intersect E
    <2>1. /\ \A x \in was : ReadyIn("risk_assessment", was, x)
          /\ ReadyIn("risk_assessment", was, s)
          /\ was' = was \union {s}
      BY <1>6 DEF OrderInv, Ready, Adds
    <2>2. CASE s = "submitted" /\ s \notin was
      <3>1. X = Assessment!Passed(1 - 1)
        BY <2>1, <2>2, AssessmentChain, Counting DEF ReadyIn
      <3>2. Y = Assessment!Passed(1)
        BY <2>1, <2>2, AssessmentChain DEF ReadyIn
      <3>3. /\ been["risk_assessment"] = Assessment!Passed(1 - 1)
            /\ been' = [been EXCEPT !["risk_assessment"] = Assessment!Passed(1)]
        BY <1>2, <1>3, <1>4, <1>6, <3>1, <3>2
      <3>4. 1 \in 1..Len(RiskAssessment.chain)
        BY AssessmentChain
      <3> QED
        BY <3>3, <3>4 DEF Assessment!Next, Assessment!Advance, been
    <2>3. CASE s = "reviewed" /\ s \notin was
      <3>1. X = Assessment!Passed(2 - 1)
        BY <2>1, <2>3, AssessmentChain, Counting DEF ReadyIn
      <3>2. Y = Assessment!Passed(2)
        BY <2>1, <2>3, AssessmentChain DEF ReadyIn
      <3>3. /\ been["risk_assessment"] = Assessment!Passed(2 - 1)
            /\ been' = [been EXCEPT !["risk_assessment"] = Assessment!Passed(2)]
        BY <1>2, <1>3, <1>4, <1>6, <3>1, <3>2
      <3>4. 2 \in 1..Len(RiskAssessment.chain)
        BY AssessmentChain
      <3> QED
        BY <3>3, <3>4 DEF Assessment!Next, Assessment!Advance, been
    <2>4. CASE s = "approved" /\ s \notin was
      <3>1. X = Assessment!Passed(3 - 1)
        BY <2>1, <2>4, AssessmentChain, Counting DEF ReadyIn
      <3>2. Y = Assessment!Passed(3)
        BY <2>1, <2>4, AssessmentChain DEF ReadyIn
      <3>3. /\ been["risk_assessment"] = Assessment!Passed(3 - 1)
            /\ been' = [been EXCEPT !["risk_assessment"] = Assessment!Passed(3)]
        BY <1>2, <1>3, <1>4, <1>6, <3>1, <3>2
      <3>4. 3 \in 1..Len(RiskAssessment.chain)
        BY AssessmentChain
      <3> QED
        BY <3>3, <3>4 DEF Assessment!Next, Assessment!Advance, been
    <2>5. CASE s \in was \/ s \notin E
      <3>1. Y = X
        BY <2>1, <2>5
      <3> QED
        BY <1>2, <1>3, <1>4, <3>1
    <2> QED
      BY <2>2, <2>3, <2>4, <2>5
  <1> QED
    BY <1>5, <1>6, StepAdds DEF been

\* The chain of risk control matrices, and a record that gets one more status.
LEMMA MatrixChain ==
    /\ Len(RiskControlMatrix.chain) = 2
    /\ Elements(RiskControlMatrix.chain) = {"submitted", "approved"}
    /\ Matrix!Passed(0) = {}
    /\ Matrix!Passed(1) = {"submitted"}
    /\ Matrix!Passed(2) = {"submitted", "approved"}
  <1> DEFINE c == RiskControlMatrix.chain
  <1>1. /\ Len(c) = 2
        /\ c[1] = "submitted" /\ c[2] = "approved"
    BY DEF RiskControlMatrix
  <1>2. \A n : Matrix!Passed(n) = {c[k] : k \in 1..n}
    BY DEF Matrix!Passed
  <1>3. Elements(c) = {c[k] : k \in 1..2}
    BY <1>1 DEF Elements
  <1> HIDE DEF c
  <1>4. Matrix!Passed(0) = {}
    BY <1>1, <1>2, Counting
  <1>5. Matrix!Passed(1) = {"submitted"}
    BY <1>1, <1>2, Counting
  <1>6. Matrix!Passed(2) = {"submitted", "approved"}
    BY <1>1, <1>2, Counting
  <1>7. Elements(c) = {"submitted", "approved"}
    BY <1>1, <1>3, Counting
  <1> QED
    BY <1>1, <1>4, <1>5, <1>6, <1>7 DEF c

LEMMA MatrixStep ==
    ASSUME ClientStatuses = {}, TypeInv, OrderInv, [Next]_vars
    PROVE  [Matrix!Next]_(PhasesOf("control_matrix"))
  <1> DEFINE E == {"submitted", "approved"}
             been == PhasesOf("control_matrix")
  <1>1. Rules["control_matrix"].chain = RiskControlMatrix.chain
    BY RulesOfKind
  <1>2. been = [r \in {"control_matrix"} |->
               IF kind = "control_matrix" THEN was \intersect E ELSE {}]
    BY <1>1, MatrixChain DEF PhasesOf
  <1>3. been' = [r \in {"control_matrix"} |->
               IF kind' = "control_matrix" THEN was' \intersect E ELSE {}]
    BY <1>1, MatrixChain DEF PhasesOf
  <1> HIDE DEF been
  <1>4. kind' = kind
    BY KindKept
  <1>5. CASE UNCHANGED was \/ kind # "control_matrix"
    BY <1>2, <1>3, <1>4, <1>5 DEF been
  <1>6. ASSUME kind = "control_matrix", NEW s, Adds(s) PROVE UNCHANGED been \/ Matrix!Next
    <2> DEFINE X == was \intersect E
               Y == was' \intersect E
    <2>1. /\ \A x \in was : ReadyIn("control_matrix", was, x)
          /\ ReadyIn("control_matrix", was, s)
          /\ was' = was \union {s}
      BY <1>6 DEF OrderInv, Ready, Adds
    <2>2. CASE s = "submitted" /\ s \notin was
      <3>1. X = Matrix!Passed(1 - 1)
        BY <2>1, <2>2, MatrixChain, Counting DEF ReadyIn
      <3>2. Y = Matrix!Passed(1)
        BY <2>1, <2>2, MatrixChain DEF ReadyIn
      <3>3. /\ been["control_matrix"] = Matrix!Passed(1 - 1)
            /\ been' = [been EXCEPT !["control_matrix"] = Matrix!Passed(1)]
        BY <1>2, <1>3, <1>4, <1>6, <3>1, <3>2
      <3>4. 1 \in 1..Len(RiskControlMatrix.chain)
        BY MatrixChain
      <3> QED
        BY <3>3, <3>4 DEF Matrix!Next, Matrix!Advance, been
    <2>3. CASE s = "approved" /\ s \notin was
      <3>1. X = Matrix!Passed(2 - 1)
        BY <2>1, <2>3, MatrixChain, Counting DEF ReadyIn
      <3>2. Y = Matrix!Passed(2)
        BY <2>1, <2>3, MatrixChain DEF ReadyIn
      <3>3. /\ been["control_matrix"] = Matrix!Passed(2 - 1)
            /\ been' = [been EXCEPT !["control_matrix"] = Matrix!Passed(2)]
        BY <1>2, <1>3, <1>4, <1>6, <3>1, <3>2
      <3>4. 2 \in 1..Len(RiskControlMatrix.chain)
        BY MatrixChain
      <3> QED
        BY <3>3, <3>4 DEF Matrix!Next, Matrix!Advance, been
    <2>4. CASE s \in was \/ s \notin E
      <3>1. Y = X
        BY <2>1, <2>4
      <3> QED
        BY <1>2, <1>3, <1>4, <3>1
    <2> QED
      BY <2>2, <2>3, <2>4
  <1> QED
    BY <1>5, <1>6, StepAdds DEF been

\* The chain of meetings, and a record that gets one more status.
LEMMA MeetingChain ==
    /\ Len(AuditMeeting.chain) = 2
    /\ Elements(AuditMeeting.chain) = {"in_progress", "completed"}
    /\ Meeting!Passed(0) = {}
    /\ Meeting!Passed(1) = {"in_progress"}
    /\ Meeting!Passed(2) = {"in_progress", "completed"}
  <1> DEFINE c == AuditMeeting.chain
  <1>1. /\ Len(c) = 2
        /\ c[1] = "in_progress" /\ c[2] = "completed"
    BY DEF AuditMeeting
  <1>2. \A n : Meeting!Passed(n) = {c[k] : k \in 1..n}
    BY DEF Meeting!Passed
  <1>3. Elements(c) = {c[k] : k \in 1..2}
    BY <1>1 DEF Elements
  <1> HIDE DEF c
  <1>4. Meeting!Passed(0) = {}
    BY <1>1, <1>2, Counting
  <1>5. Meeting!Passed(1) = {"in_progress"}
    BY <1>1, <1>2, Counting
  <1>6. Meeting!Passed(2) = {"in_progress", "completed"}
    BY <1>1, <1>2, Counting
  <1>7. Elements(c) = {"in_progress", "completed"}
    BY <1>1, <1>3, Counting
  <1> QED
    BY <1>1, <1>4, <1>5, <1>6, <1>7 DEF c

LEMMA MeetingStep ==
    ASSUME ClientStatuses = {}, TypeInv, OrderInv, [Next]_vars
    PROVE  [Meeting!Next]_(PhasesOf("meeting"))
  <1> DEFINE E == {"in_progress", "completed"}
             been == PhasesOf("meeting")
  <1>1. Rules["meeting"].chain = AuditMeeting.chain
    BY RulesOfKind
  <1>2. been = [r \in {"meeting"} |->
               IF kind = "meeting" THEN was \intersect E ELSE {}]
    BY <1>1, MeetingChain DEF PhasesOf
  <1>3. been' = [r \in {"meeting"} |->
               IF kind' = "meeting" THEN was' \intersect E ELSE {}]
    BY <1>1, MeetingChain DEF PhasesOf
  <1> HIDE DEF been
  <1>4. kind' = kind
    BY KindKept
  <1>5. CASE UNCHANGED was \/ kind # "meeting"
    BY <1>2, <1>3, <1>4, <1>5 DEF been
  <1>6. ASSUME kind = "meeting", NEW s, Adds(s) PROVE UNCHANGED been \/ Meeting!Next
    <2> DEFINE X == was \intersect E
               Y == was' \intersect E
    <2>1. /\ \A x \in was : ReadyIn("meeting", was, x)
          /\ ReadyIn("meeting", was, s)
          /\ was' = was \union {s}
      BY <1>6 DEF OrderInv, Ready, Adds
    <2>2. CASE s = "in_progress" /\ s \notin was
      <3>1. X = Meeting!Passed(1 - 1)
        BY <2>1, <2>2, MeetingChain, Counting DEF ReadyIn
      <3>2. Y = Meeting!Passed(1)
        BY <2>1, <2>2, MeetingChain DEF ReadyIn
      <3>3. /\ been["meeting"] = Meeting!Passed(1 - 1)
            /\ been' = [been EXCEPT !["meeting"] = Meeting!Passed(1)]
        BY <1>2, <1>3, <1>4, <1>6, <3>1, <3>2
      <3>4. 1 \in 1..Len(AuditMeeting.chain)
        BY MeetingChain
      <3> QED
        BY <3>3, <3>4 DEF Meeting!Next, Meeting!Advance, been
    <2>3. CASE s = "completed" /\ s \notin was
      <3>1. X = Meeting!Passed(2 - 1)
        BY <2>1, <2>3, MeetingChain, Counting DEF ReadyIn
      <3>2. Y = Meeting!Passed(2)
        BY <2>1, <2>3, MeetingChain DEF ReadyIn
      <3>3. /\ been["meeting"] = Meeting!Passed(2 - 1)
            /\ been' = [been EXCEPT !["meeting"] = Meeting!Passed(2)]
        BY <1>2, <1>3, <1>4, <1>6, <3>1, <3>2
      <3>4. 2 \in 1..Len(AuditMeeting.chain)
        BY MeetingChain
      <3> QED
        BY <3>3, <3>4 DEF Meeting!Next, Meeting!Advance, been
    <2>4. CASE s \in was \/ s \notin E
      <3>1. Y = X
        BY <2>1, <2>4
      <3> QED
        BY <1>2, <1>3, <1>4, <3>1
    <2> QED
      BY <2>2, <2>3, <2>4
  <1> QED
    BY <1>5, <1>6, StepAdds DEF been

LEMMA ContractInit ==
    ASSUME ClientStatuses = {}, Init
    PROVE  Quarterly!Init /\ Assessment!Init /\ Matrix!Init /\ Meeting!Init
  <1>1. was = {First(kind)}
    BY DEF Init
  <1>2. Quarterly!Init
    <2>1. kind = "quarterly_report" => was \intersect Elements(Rules["quarterly_report"].chain) = {}
      BY <1>1, DraftFirst, RulesOfKind, QuarterlyChain
    <2> QED
      BY <2>1 DEF PhasesOf, Quarterly!Init
  <1>3. Assessment!Init
    <2>1. kind = "risk_assessment" => was \intersect Elements(Rules["risk_assessment"].chain) = {}
      BY <1>1, DraftFirst, RulesOfKind, AssessmentChain
    <2> QED
      BY <2>1 DEF PhasesOf, Assessment!Init
  <1>4. Matrix!Init
    <2>1. kind = "control_matrix" => was \intersect Elements(Rules["control_matrix"].chain) = {}
      BY <1>1, DraftFirst, RulesOfKind, MatrixChain
    <2> QED
      BY <2>1 DEF PhasesOf, Matrix!Init
  <1>5. Meeting!Init
    <2>1. kind = "meeting" => was \intersect Elements(Rules["meeting"].chain) = {}
      BY <1>1, DraftFirst, RulesOfKind, MeetingChain
    <2> QED
      BY <2>1 DEF PhasesOf, Meeting!Init
  <1> QED
    BY <1>2, <1>3, <1>4, <1>5

\* While no body carries a status, requests of any number of workers together
\* take a record of any kind through its statuses in order.
THEOREM RecordsKeepTheContract ==
    ASSUME ClientStatuses = {}
    PROVE  Spec => ImplementsContract
  <1>1. Init => OrderInv
    BY OrderInit
  <1>2. TypeInv /\ OrderInv /\ [Next]_vars => OrderInv'
    BY OrderStep
  <1>3. Init => Quarterly!Init
    BY ContractInit
  <1>4. TypeInv /\ OrderInv /\ [Next]_vars => [Quarterly!Next]_(PhasesOf("quarterly_report"))
    BY QuarterlyStep
  <1>5. Init => Assessment!Init
    BY ContractInit
  <1>6. TypeInv /\ OrderInv /\ [Next]_vars => [Assessment!Next]_(PhasesOf("risk_assessment"))
    BY AssessmentStep
  <1>7. Init => Matrix!Init
    BY ContractInit
  <1>8. TypeInv /\ OrderInv /\ [Next]_vars => [Matrix!Next]_(PhasesOf("control_matrix"))
    BY MatrixStep
  <1>9. Init => Meeting!Init
    BY ContractInit
  <1>10. TypeInv /\ OrderInv /\ [Next]_vars => [Meeting!Next]_(PhasesOf("meeting"))
    BY MeetingStep
  <1> QED
    BY <1>1, <1>2, <1>3, <1>4, <1>5, <1>6, <1>7, <1>8, <1>9, <1>10, TypeInvariant, PTL
       DEF Spec, ImplementsContract, Quarterly!Spec, Assessment!Spec, Matrix!Spec, Meeting!Spec
=============================================================================
