------------------------- MODULE AuditReport_proofs -------------------------
(***************************************************************************)
(* Theorems about AuditReport, for every set of findings and workers, any  *)
(* number of decisions, and bodies with any status.                        *)
(***************************************************************************)
EXTENDS AuditReport, TLAPS

\* What a request that has begun holds, beyond its type.
Pending(q) ==
    /\ q.op = "move" => q.to \in Status
    /\ q.op = "edit" => q.copy.status \in Status

\* The row's status is one of the history, once there is a row.
TypeInv ==
    /\ TypeOK
    /\ \A w \in Worker : Pending(web[w])
    /\ con.op # "idle" => report.status \in Status

LEMMA RowTypes ==
    /\ NoRow \in Row /\ Idle \in Request /\ Waiting \in Consumer
    /\ Idle.op = "idle" /\ Idle.to = None /\ Waiting.op = "idle"
    /\ Waiting.todo = {} /\ Idle.todo = {}
  BY DEF NoRow, Row, Idle, Request, Waiting, Consumer, Op

\* A row that is saved with a status leaves row and history well typed.
LEMMA SaveType ==
    ASSUME TypeOK, NEW row \in Row, row.status \in Status, Save(row)
    PROVE  report' \in Row /\ was' \subseteq Status /\ report'.status \in Status
  BY DEF TypeOK, Save

LEMMA GotoType ==
    ASSUME TypeInv, NEW w \in Worker, NEW q \in Request, Pending(q), Goto(w, q)
    PROVE  web' \in [Worker -> Request] /\ \A v \in Worker : Pending(web[v])'
  <1>1. web' \in [Worker -> Request] /\ \A v \in Worker : web'[v] \in {q, web[v]}
    BY DEF TypeInv, TypeOK, Goto
  <1>2. ASSUME NEW v \in Worker PROVE Pending(web[v])'
    BY <1>1 DEF TypeInv, Pending
  <1> QED
    BY <1>1, <1>2

LEMMA BeginType ==
    ASSUME TypeInv, NEW w \in Worker, NEW q \in Request, Pending(q), Begin(w, q)
    PROVE  TypeInv'
  <1>1. /\ UNCHANGED <<open, active, report, was, due, sent, approvals, twice, faulty, con, log, pos, committed>>
        /\ Goto(w, q)
    BY DEF Begin, history, topic
  <1> QED
    BY <1>1, GotoType DEF TypeInv, TypeOK

LEMMA IdleFits == Pending(Idle)
  BY RowTypes DEF Pending

\* Taking a request.
LEMMA TakeType ==
    ASSUME TypeInv, NEW w \in Worker, Take(w)
    PROVE  TypeInv'
  <1>0. /\ report \in Row /\ Seen \in Row /\ NoRow \in Row /\ {} \subseteq Finding
    BY DEF TypeInv, TypeOK, Seen, NoRow, Row
  <1>1. CASE CreateRead(w)
    <2> DEFINE q == [Idle EXCEPT !.op = "create"]
    <2>1. q \in Request /\ Pending(q)
      BY <1>0 DEF Idle, Request, Op, Pending
    <2> QED
      BY <1>1, <2>1, BeginType DEF CreateRead
  <1>2. CASE EditRead(w)
    <2> DEFINE q == [Idle EXCEPT !.op = "edit", !.copy = report]
    <2>1. q \in Request /\ Pending(q)
      BY <1>0, <1>2 DEF EditRead, Idle, Request, Op, Pending, Status
    <2> QED
      BY <1>2, <2>1, BeginType DEF EditRead
  <1>3. CASE DistributeRead(w)
    <2> DEFINE q == [Idle EXCEPT !.op = "distribute", !.copy = Seen]
    <2>1. q \in Request /\ Pending(q)
      BY <1>0 DEF Idle, Request, Op, Pending
    <2> QED
      BY <1>3, <2>1, BeginType DEF DistributeRead
  <1>4. CASE \E t \in Status : MoveRead(w, t)
    <2>1. PICK t \in Status : MoveRead(w, t)
      BY <1>4
    <2> DEFINE q == [Idle EXCEPT !.op = "move", !.copy = Seen, !.to = t]
    <2>2. q \in Request /\ Pending(q)
      BY <1>0 DEF Idle, Request, Op, Pending
    <2> QED
      BY <2>1, <2>2, BeginType DEF MoveRead
  <1> QED
    BY <1>1, <1>2, <1>3, <1>4 DEF Take

\* What a worker does in a request that it has begun.
LEMMA GoOnType ==
    ASSUME TypeInv, NEW w \in Worker, GoOn(w)
    PROVE  TypeInv'
  <1>0. /\ report \in Row /\ web[w] \in Request /\ Pending(web[w]) /\ Idle \in Request
        /\ Pending(Idle) /\ NoRow \in Row /\ active \subseteq Finding /\ due \subseteq Finding
        /\ sent \subseteq Finding
        /\ approvals \in 0..More /\ twice \subseteq Finding
    BY RowTypes, IdleFits DEF TypeInv, TypeOK
  <1>1. ASSUME NEW row \in Row, row.status \in Status, Save(row), Goto(w, Idle),
               UNCHANGED <<open, active, due, sent, approvals, twice, faulty, con, log, pos, committed>>
        PROVE  TypeInv'
    BY <1>0, <1>1, SaveType, GotoType DEF TypeInv, TypeOK
  <1>2. CASE CreateSave(w)
    <2>1. CASE report.status = "none"
      <3>1. PICK s \in {"draft"} \union ClientStatuses : Save([NoRow EXCEPT !.status = s])
        BY <1>2, <2>1 DEF CreateSave
      <3> DEFINE row == [NoRow EXCEPT !.status = s]
      <3>2. row \in Row /\ row.status \in Status
        BY ConstantsAssumption DEF NoRow, Row, Status
      <3>3. Save(row)
        BY <3>1
      <3> HIDE DEF row
      <3> QED
        BY <1>1, <1>2, <3>2, <3>3 DEF CreateSave, topic
    <2>2. CASE report.status # "none"
      BY <1>0, <1>2, <2>2, GotoType DEF CreateSave, topic, TypeInv, TypeOK
    <2> QED
      BY <2>1, <2>2
  <1>3. CASE EditSave(w)
    <2>1. PICK s \in {web[w].copy.status} \union ClientStatuses :
              Save([web[w].copy EXCEPT !.status = s])
      BY <1>3 DEF EditSave
    <2> DEFINE row == [web[w].copy EXCEPT !.status = s]
    <2>2. row \in Row /\ row.status \in Status
      BY <1>0, <1>3, ConstantsAssumption DEF EditSave, Request, Row, Pending
    <2>3. Save(row)
      BY <2>1
    <2> HIDE DEF row
    <2> QED
      BY <1>1, <1>3, <2>2, <2>3 DEF EditSave, topic
  <1>4. CASE MoveSave(w)
    <2> DEFINE row == [report EXCEPT !.status = web[w].to,
                                     !.approver = @ \/ web[w].to = "approved"]
               q == [Idle EXCEPT !.op = "approved"]
    <2>1. row \in Row /\ row.status \in Status
      BY <1>0, <1>4 DEF MoveSave, Pending, Row
    <2>2. q \in Request /\ Pending(q)
      BY <1>0 DEF Idle, Request, Op, Pending
    <2>3. /\ Save(row) /\ (Goto(w, q) \/ Goto(w, Idle))
          /\ due' \subseteq Finding /\ approvals' \in 0..More
      BY <1>0, <1>4 DEF MoveSave, Approved, NotApproved, More
    <2> HIDE DEF row, q
    <2>4. web' \in [Worker -> Request] /\ \A v \in Worker : Pending(web[v])'
      BY <1>0, <2>2, <2>3, GotoType
    <2> QED
      BY <1>4, <2>1, <2>3, <2>4, SaveType DEF MoveSave, topic, TypeInv, TypeOK
  <1>5. CASE LookUp(w)
    <2> DEFINE q == [Idle EXCEPT !.op = "announcing", !.todo = active]
    <2>1. q \in Request /\ Pending(q)
      BY <1>0 DEF Idle, Request, Op, Pending
    <2>2. Goto(w, q) \/ Goto(w, Idle)
      BY <1>5 DEF LookUp
    <2> HIDE DEF q
    <2>3. web' \in [Worker -> Request] /\ \A v \in Worker : Pending(web[v])'
      BY <1>0, <2>1, <2>2, GotoType
    <2> QED
      BY <1>5, <2>3 DEF LookUp, history, topic, TypeInv, TypeOK
  <1>6. CASE \E f \in Finding : Announce(w, f)
    <2>1. PICK f \in Finding : Announce(w, f)
      BY <1>6
    <2> DEFINE q == [web[w] EXCEPT !.todo = @ \ {f}]
    <2>2. q \in Request /\ Pending(q)
      BY <1>0 DEF Request, Pending
    <2>3. Goto(w, q) \/ Goto(w, Idle)
      BY <2>1 DEF Announce
    <2> HIDE DEF q
    <2>4. web' \in [Worker -> Request] /\ \A v \in Worker : Pending(web[v])'
      BY <1>0, <2>2, <2>3, GotoType
    <2> QED
      BY <1>0, <2>1, <2>4 DEF Announce, Tell, topic, TypeInv, TypeOK
  <1>7. CASE DistributeSave(w)
    <2> DEFINE row == [report EXCEPT !.status = "distributed"]
    <2>1. row \in Row /\ row.status \in Status
      BY <1>0 DEF Row, Status
    <2>2. Save(row)
      BY <1>7 DEF DistributeSave
    <2> HIDE DEF row
    <2> QED
      BY <1>1, <1>7, <2>1, <2>2 DEF DistributeSave, topic
  <1> QED
    BY <1>2, <1>3, <1>4, <1>5, <1>6, <1>7 DEF GoOn

LEMMA ConsumerType ==
    ASSUME TypeInv, ConsumerStep
    PROVE  TypeInv'
  <1>0. /\ report \in Row /\ con \in Consumer /\ Waiting \in Consumer /\ Afterwards \in Consumer
        /\ Waiting.op = "idle"
        /\ active \subseteq Finding /\ due \subseteq Finding /\ sent \subseteq Finding
        /\ approvals \in 0..More /\ twice \subseteq Finding
        /\ pos \in Nat /\ Len(log) \in Nat
    BY RowTypes DEF TypeInv, TypeOK, Afterwards, Waiting, Consumer
  <1>1. CASE Consume
    <2>1. PICK s \in {"approved", "draft"} : Save([report EXCEPT !.status = s])
      BY <1>1 DEF Consume
    <2> DEFINE row == [report EXCEPT !.status = s]
    <2>2. row \in Row /\ row.status \in Status
      BY <1>0 DEF Row, Status
    <2>3. Save(row)
      BY <2>1
    <2>4. con' \in Consumer /\ due' \subseteq Finding /\ approvals' \in 0..More
      BY <1>0, <1>1 DEF Consume, Consumer, Approved, NotApproved, More
    <2>5. pos' \in 0..Len(log) /\ committed \in 0..pos'
      BY <1>0, <1>1 DEF Consume, TypeInv, TypeOK
    <2> HIDE DEF row
    <2> QED
      BY <1>1, <2>2, <2>3, <2>4, <2>5, SaveType DEF Consume, TypeInv, TypeOK, Pending
  <1>2. CASE ConsumerLookUp
    <2>1. con' \in Consumer
      BY <1>0, <1>2 DEF ConsumerLookUp, Consumer
    <2> QED
      BY <1>2, <2>1 DEF ConsumerLookUp, history, topic, TypeInv, TypeOK, Pending
  <1>3. CASE \E f \in Finding : ConsumerAnnounce(f)
    <2>1. PICK f \in Finding : ConsumerAnnounce(f)
      BY <1>3
    <2>2. con' \in Consumer
      BY <1>0, <2>1 DEF ConsumerAnnounce, Consumer
    <2> QED
      BY <1>0, <2>1, <2>2 DEF ConsumerAnnounce, Tell, topic, TypeInv, TypeOK, Pending
  <1>4. CASE \E answered \in BOOLEAN : ConsumerStamp(answered)
    <2>1. PICK answered \in BOOLEAN : ConsumerStamp(answered)
      BY <1>4
    <2> DEFINE row == [report EXCEPT !.stamped = @ \/ answered]
    <2>2. row \in Row /\ row.status \in Status
      BY <1>0, <2>1 DEF ConsumerStamp, TypeInv, Row
    <2>3. Save(row)
      BY <2>1 DEF ConsumerStamp
    <2> HIDE DEF row
    <2> QED
      BY <1>0, <2>1, <2>2, <2>3, SaveType DEF ConsumerStamp, topic, TypeInv, TypeOK, Pending
  <1> QED
    BY <1>1, <1>2, <1>3, <1>4 DEF ConsumerStep

\* Failures, WO and the rest of the service.
LEMMA OthersType ==
    ASSUME TypeInv,
           \/ \E w \in Worker : Abandon(w)
           \/ \E d \in Ending : WODecide(d)
           \/ CommitOffset \/ ConsumerRestart \/ EventLost \/ FindingsChange \/ EngagementMoves
    PROVE  TypeInv'
  <1>0. /\ Idle \in Request /\ Pending(Idle) /\ Waiting \in Consumer /\ Waiting.op = "idle"
        /\ Afterwards \in Consumer /\ con \in Consumer
        /\ log \in Seq(Ending) /\ pos \in 0..Len(log) /\ committed \in 0..pos
    BY RowTypes, IdleFits DEF TypeInv, TypeOK, Afterwards, Waiting, Consumer
  <1>1. CASE \E w \in Worker : Abandon(w)
    <2>1. web' \in [Worker -> Request] /\ \A v \in Worker : Pending(web[v])'
      BY <1>0, <1>1, GotoType DEF Abandon
    <2> QED
      BY <1>1, <2>1 DEF Abandon, history, topic, TypeInv, TypeOK
  <1>2. CASE \E d \in Ending : WODecide(d)
    <2>1. log' \in Seq(Ending) /\ Len(log') = Len(log) + 1
      BY <1>0, <1>2 DEF WODecide
    <2>2. pos \in 0..Len(log')
      BY <1>0, <2>1
    <2> QED
      BY <1>2, <2>1, <2>2 DEF WODecide, history, TypeInv, TypeOK, Pending
  <1>3. CASE CommitOffset
    <2>1. committed' \in 0..pos
      BY <1>0, <1>3 DEF CommitOffset
    <2> QED
      BY <1>3, <2>1 DEF CommitOffset, history, TypeInv, TypeOK, Pending
  <1>4. CASE ConsumerRestart
    <2>1. pos' \in 0..Len(log) /\ committed \in 0..pos'
      BY <1>0, <1>4 DEF ConsumerRestart
    <2> QED
      BY <1>0, <1>4, <2>1 DEF ConsumerRestart, history, TypeInv, TypeOK, Pending
  <1>5. CASE EventLost
    <2>1. CASE \E w \in Worker :
                  /\ web[w].op = "announcing"
                  /\ \E f \in web[w].todo :
                        Goto(w, IF web[w].todo = {f} THEN Idle
                                ELSE [web[w] EXCEPT !.todo = @ \ {f}])
                  /\ con' = con
      <3>0. PICK w \in Worker :
                /\ \E f \in web[w].todo :
                      Goto(w, IF web[w].todo = {f} THEN Idle
                              ELSE [web[w] EXCEPT !.todo = @ \ {f}])
                /\ con' = con
        BY <2>1
      <3>1. PICK f \in web[w].todo :
                /\ Goto(w, IF web[w].todo = {f} THEN Idle
                           ELSE [web[w] EXCEPT !.todo = @ \ {f}])
                /\ con' = con
        BY <3>0
      <3> DEFINE q == [web[w] EXCEPT !.todo = @ \ {f}]
      <3>2. q \in Request /\ Pending(q)
        BY DEF TypeInv, TypeOK, Request, Pending
      <3>3. Goto(w, q) \/ Goto(w, Idle)
        BY <3>1
      <3> HIDE DEF q
      <3>4. web' \in [Worker -> Request] /\ \A v \in Worker : Pending(web[v])'
        BY <1>0, <3>2, <3>3, GotoType
      <3> QED
        BY <1>5, <3>1, <3>4 DEF EventLost, history, topic, TypeInv, TypeOK
    <2>2. CASE /\ con.op = "announcing"
               /\ \E f \in con.todo :
                     con' = IF con.todo = {f} THEN Afterwards
                            ELSE [con EXCEPT !.todo = @ \ {f}]
               /\ web' = web
      <3>1. con' \in Consumer
        BY <1>0, <2>2 DEF Consumer
      <3> QED
        BY <1>5, <2>2, <3>1 DEF EventLost, history, topic, TypeInv, TypeOK, Pending
    <2> QED
      BY <1>5, <2>1, <2>2 DEF EventLost
  <1>6. CASE FindingsChange
    BY <1>6 DEF FindingsChange, topic, TypeInv, TypeOK, Pending
  <1>7. CASE EngagementMoves
    BY <1>7 DEF EngagementMoves, history, topic, TypeInv, TypeOK, Pending
  <1> QED
    BY <1>1, <1>2, <1>3, <1>4, <1>5, <1>6, <1>7

LEMMA TypeInit == Init => TypeInv
  <1> SUFFICES ASSUME Init PROVE TypeInv
    OBVIOUS
  <1>1. web \in [Worker -> Request] /\ \A w \in Worker : Pending(web[w])
    BY RowTypes, IdleFits DEF Init
  <1>2. log \in Seq(Ending) /\ Len(log) = 0 /\ pos \in 0..Len(log) /\ committed \in 0..pos
    BY DEF Init
  <1>3. con \in Consumer /\ con.op = "idle" /\ report \in Row
    BY RowTypes DEF Init
  <1>4. /\ was \subseteq Status /\ due \subseteq Finding /\ sent \subseteq Finding
        /\ twice \subseteq Finding /\ active \subseteq Finding
        /\ open \in BOOLEAN /\ faulty \in BOOLEAN
    BY DEF Init
  <1>5. approvals \in 0..More
    BY DEF Init, More
  <1>6. TypeOK
    BY <1>1, <1>2, <1>3, <1>4, <1>5 DEF TypeOK
  <1> QED
    BY <1>1, <1>3, <1>6 DEF TypeInv

LEMMA TypeStep == TypeInv /\ [Next]_vars => TypeInv'
  <1>1. CASE UNCHANGED vars
    BY <1>1 DEF vars, history, topic, TypeInv, TypeOK, Pending
  <1> QED
    BY <1>1, TakeType, GoOnType, ConsumerType, OthersType DEF Next

LEMMA TypeInvariant == Spec => []TypeInv
  BY TypeInit, TypeStep, PTL DEF Spec

\* Every variable has its type, and the group's offset never passes the
\* consumer's position, nor that the end of the topic.
THEOREM TypeCorrect == Spec => []TypeOK
  <1>1. TypeInv => TypeOK
    BY DEF TypeInv
  <1> QED
    BY <1>1, TypeInvariant, PTL

---------------------------------------------------------------------------
(* A finding is announced once for an approval.                            *)

\* Nobody has f to announce.
NobodyTells(f) == ~ToAnnounce(con, f) /\ \A w \in Worker : ~ToAnnounce(web[w], f)

\* At most one request, or the consumer, has f to announce.
OneTells(f) ==
    /\ ToAnnounce(con, f) => \A w \in Worker : ~ToAnnounce(web[w], f)
    /\ \A v, w \in Worker : ToAnnounce(web[v], f) /\ ToAnnounce(web[w], f) => v = w

\* Before the first approval nobody has a finding to announce; before the
\* second, nobody one that is announced, and no two the same.
OnceInv ==
    /\ AnnouncedOncePerApproval
    /\ approvals = 0 => \A f \in Finding : NobodyTells(f)
    /\ approvals < 2 => \A f \in Finding : OneTells(f) /\ (f \in sent => NobodyTells(f))

\* Goto changes one request.
LEMMA GotoChanges ==
    ASSUME TypeInv, NEW w \in Worker, NEW q, Goto(w, q)
    PROVE  \A v \in Worker : web'[v] = IF v = w THEN q ELSE web[v]
  BY DEF TypeInv, TypeOK, Goto

\* What a request saves stays in the history.
LEMMA SaveGrows ==
    ASSUME NEW row, Save(row)
    PROVE  was \subseteq was' /\ row.status \in was'
  BY DEF Save

\* Nobody has more to announce than before.
NoNewTask ==
    \A f \in Finding :
        /\ ToAnnounce(con', f) => ToAnnounce(con, f)
        /\ \A w \in Worker : ToAnnounce(web'[w], f) => ToAnnounce(web[w], f)

\* A step that neither approves nor announces.
LEMMA OnceSilent ==
    ASSUME OnceInv, UNCHANGED <<sent, approvals, twice>>, NoNewTask
    PROVE  OnceInv'
  BY DEF OnceInv, AnnouncedOncePerApproval, OneTells, NobodyTells, NoNewTask

\* A step that announces a finding, and takes it off a list.
LEMMA OnceTells ==
    ASSUME TypeInv, OnceInv, NEW f \in Finding, Tell(f), approvals' = approvals, NoNewTask,
           \/ ToAnnounce(con, f) /\ ~ToAnnounce(con', f)
           \/ \E w \in Worker : ToAnnounce(web[w], f) /\ ~ToAnnounce(web'[w], f)
    PROVE  OnceInv'
  <1>0. approvals \in 0..2 /\ approvals # 0
    BY DEF TypeInv, TypeOK, More, OnceInv, NobodyTells
  <1>1. CASE approvals = 2
    BY <1>0, <1>1 DEF OnceInv, AnnouncedOncePerApproval
  <1>2. CASE approvals = 1
    <2>1. f \notin sent /\ sent' = sent \union {f} /\ twice' = {}
      BY <1>2 DEF OnceInv, AnnouncedOncePerApproval, NobodyTells, Tell
    <2>2. NobodyTells(f)'
      BY <1>2 DEF OnceInv, OneTells, NobodyTells, NoNewTask
    <2>3. \A g \in Finding : OneTells(g)' /\ (g \in sent => NobodyTells(g)')
      BY <1>2 DEF OnceInv, OneTells, NobodyTells, NoNewTask
    <2> QED
      BY <1>0, <1>2, <2>1, <2>2, <2>3 DEF OnceInv, AnnouncedOncePerApproval
  <1> QED
    BY <1>0, <1>1, <1>2

\* A step that approves, and gives one request or the consumer findings.
LEMMA OnceApproves ==
    ASSUME TypeInv, OnceInv, Approved, UNCHANGED <<sent, twice>>,
           \/ web' = web
           \/ con' = con /\ \E w \in Worker : \A v \in Worker \ {w} : web'[v] = web[v]
    PROVE  OnceInv'
  <1>0. approvals \in 0..2 /\ approvals' = IF approvals < 2 THEN approvals + 1 ELSE 2
    BY DEF TypeInv, TypeOK, More, Approved
  <1>1. CASE approvals # 0
    BY <1>0, <1>1 DEF OnceInv, AnnouncedOncePerApproval
  <1>2. CASE approvals = 0
    <2>1. sent = {} /\ twice = {} /\ approvals' = 1
      BY <1>0, <1>2 DEF OnceInv, AnnouncedOncePerApproval
    <2>2. ASSUME NEW f \in Finding PROVE OneTells(f)'
      BY <1>2 DEF OnceInv, NobodyTells, OneTells
    <2> QED
      BY <2>1, <2>2 DEF OnceInv, AnnouncedOncePerApproval
  <1> QED
    BY <1>1, <1>2

\* A request goes on to what is no announcement, or to a shorter list.
LEMMA OnceRequest ==
    ASSUME TypeInv, OnceInv, NEW w \in Worker, NEW q, Goto(w, q),
           \A f \in Finding : ToAnnounce(q, f) => ToAnnounce(web[w], f),
           UNCHANGED <<sent, approvals, twice, con>>
    PROVE  OnceInv'
  <1>1. NoNewTask
    BY GotoChanges DEF NoNewTask
  <1> QED
    BY <1>1, OnceSilent

LEMMA OnceTake ==
    ASSUME TypeInv, OnceInv, NEW w \in Worker, Take(w)
    PROVE  OnceInv'
  <1>1. ASSUME NEW q, Begin(w, q), q.op \in {"create", "edit", "move", "distribute"}
        PROVE  OnceInv'
    BY <1>1, OnceRequest DEF Begin, history, ToAnnounce
  <1>2. CASE CreateRead(w)
    <2> DEFINE q == [Idle EXCEPT !.op = "create"]
    <2>1. Begin(w, q) /\ q.op = "create"
      BY <1>2 DEF CreateRead, Idle
    <2> QED
      BY <1>1, <2>1
  <1>3. CASE EditRead(w)
    <2> DEFINE q == [Idle EXCEPT !.op = "edit", !.copy = report]
    <2>1. Begin(w, q) /\ q.op = "edit"
      BY <1>3 DEF EditRead, Idle
    <2> QED
      BY <1>1, <2>1
  <1>4. CASE DistributeRead(w)
    <2> DEFINE q == [Idle EXCEPT !.op = "distribute", !.copy = Seen]
    <2>1. Begin(w, q) /\ q.op = "distribute"
      BY <1>4 DEF DistributeRead, Idle
    <2> QED
      BY <1>1, <2>1
  <1>5. ASSUME NEW t \in Status, MoveRead(w, t) PROVE OnceInv'
    <2> DEFINE q == [Idle EXCEPT !.op = "move", !.copy = Seen, !.to = t]
    <2>1. Begin(w, q) /\ q.op = "move"
      BY <1>5 DEF MoveRead, Idle
    <2> QED
      BY <1>1, <2>1
  <1> QED
    BY <1>2, <1>3, <1>4, <1>5 DEF Take

LEMMA OnceGoOn ==
    ASSUME TypeInv, OnceInv, NEW w \in Worker, GoOn(w)
    PROVE  OnceInv'
  <1>0. /\ \A f \in Finding : ~ToAnnounce(Idle, f)
        /\ web[w] \in Request
    BY DEF Idle, ToAnnounce, TypeInv, TypeOK
  <1>1. CASE CreateSave(w) \/ EditSave(w) \/ DistributeSave(w)
    <2>1. Goto(w, Idle) /\ UNCHANGED <<sent, approvals, twice, con>>
      BY <1>1 DEF CreateSave, EditSave, DistributeSave
    <2> QED
      BY <1>0, <2>1, OnceRequest
  <1>2. CASE MoveSave(w)
    <2>1. UNCHANGED <<sent, twice, con>>
      BY <1>2 DEF MoveSave
    <2>2. CASE web[w].to = "approved"
      <3>1. Approved /\ \A v \in Worker \ {w} : web'[v] = web[v]
        BY <1>2, <2>2 DEF MoveSave, Goto, TypeInv, TypeOK
      <3> QED
        BY <2>1, <3>1, OnceApproves
    <2>3. CASE web[w].to # "approved"
      <3>1. approvals' = approvals /\ Goto(w, Idle)
        BY <1>2, <2>3 DEF MoveSave, NotApproved
      <3> QED
        BY <1>0, <2>1, <3>1, OnceRequest
    <2> QED
      BY <2>2, <2>3
  <1>3. CASE LookUp(w)
    <2> DEFINE q == IF active = {} THEN Idle
                    ELSE [Idle EXCEPT !.op = "announcing", !.todo = active]
    <2>1. Goto(w, q) /\ UNCHANGED <<sent, approvals, twice, con>>
      BY <1>3 DEF LookUp, history
    <2>2. \A f \in Finding : ToAnnounce(web[w], f)
      BY <1>3 DEF LookUp, ToAnnounce
    <2> HIDE DEF q
    <2> QED
      BY <2>1, <2>2, OnceRequest
  <1>4. ASSUME NEW f \in Finding, Announce(w, f) PROVE OnceInv'
    <2> DEFINE rest == [web[w] EXCEPT !.todo = @ \ {f}]
               q == IF web[w].todo = {f} THEN Idle ELSE rest
    <2>1. /\ web[w].op = "announcing" /\ f \in web[w].todo /\ Goto(w, q)
          /\ Tell(f) /\ approvals' = approvals /\ con' = con
      BY <1>4 DEF Announce
    <2>2. rest.op = "announcing" /\ rest.todo = web[w].todo \ {f}
      BY <1>0, <2>1 DEF Request
    <2>3. /\ \A g \in Finding : ToAnnounce(q, g) => ToAnnounce(web[w], g)
          /\ ToAnnounce(web[w], f) /\ ~ToAnnounce(q, f)
      BY <1>0, <2>1, <2>2 DEF ToAnnounce
    <2> HIDE DEF q
    <2>4. \A v \in Worker : web'[v] = IF v = w THEN q ELSE web[v]
      BY <2>1, GotoChanges
    <2>5. NoNewTask /\ ToAnnounce(web[w], f) /\ ~ToAnnounce(web'[w], f)
      BY <2>1, <2>3, <2>4 DEF NoNewTask
    <2> QED
      BY <2>1, <2>5, OnceTells
  <1> QED
    BY <1>1, <1>2, <1>3, <1>4 DEF GoOn

LEMMA OnceConsumer ==
    ASSUME TypeInv, OnceInv, ConsumerStep
    PROVE  OnceInv'
  <1>0. /\ \A f \in Finding : ~ToAnnounce(Waiting, f) /\ ~ToAnnounce(Afterwards, f)
        /\ con \in Consumer
    BY DEF Waiting, Afterwards, ToAnnounce, TypeInv, TypeOK
  <1>1. CASE Consume
    <2>1. UNCHANGED <<sent, twice, web>>
      BY <1>1 DEF Consume
    <2>2. CASE log[pos + 1] = "approved"
      <3>1. Approved
        BY <1>1, <2>2 DEF Consume
      <3> QED
        BY <2>1, <3>1, OnceApproves
    <2>3. CASE log[pos + 1] # "approved"
      <3>1. con' = con /\ approvals' = approvals
        BY <1>1, <2>3 DEF Consume, NotApproved
      <3> QED
        BY <2>1, <3>1, OnceSilent DEF NoNewTask
    <2> QED
      BY <2>2, <2>3
  <1>2. CASE ConsumerLookUp
    <2>1. UNCHANGED <<sent, approvals, twice, web>> /\ con.op = "approved"
      BY <1>2 DEF ConsumerLookUp, history
    <2> QED
      BY <2>1, OnceSilent DEF NoNewTask, ToAnnounce
  <1>3. ASSUME NEW f \in Finding, ConsumerAnnounce(f) PROVE OnceInv'
    <2>1. /\ con.op = "announcing" /\ f \in con.todo /\ Tell(f)
          /\ UNCHANGED <<approvals, web>>
          /\ con' = IF con.todo = {f} THEN Afterwards ELSE [con EXCEPT !.todo = @ \ {f}]
      BY <1>3 DEF ConsumerAnnounce
    <2>2. con.todo # {f} => con'.op = "announcing" /\ con'.todo = con.todo \ {f}
      BY <1>0, <2>1 DEF Consumer
    <2>3. NoNewTask /\ ToAnnounce(con, f) /\ ~ToAnnounce(con', f)
      BY <1>0, <2>1, <2>2 DEF NoNewTask, ToAnnounce
    <2> QED
      BY <2>1, <2>3, OnceTells
  <1>4. ASSUME NEW answered \in BOOLEAN, ConsumerStamp(answered) PROVE OnceInv'
    <2>1. UNCHANGED <<sent, approvals, twice, web>> /\ con' = Waiting
      BY <1>4 DEF ConsumerStamp
    <2> QED
      BY <1>0, <2>1, OnceSilent DEF NoNewTask
  <1> QED
    BY <1>1, <1>2, <1>3, <1>4 DEF ConsumerStep

\* A request that dies has nothing more to announce, an event that is lost
\* is taken off a list, a consumer that starts again has no list.
LEMMA OnceOthers ==
    ASSUME TypeInv, OnceInv,
           \/ \E w \in Worker : Abandon(w)
           \/ \E d \in Ending : WODecide(d)
           \/ CommitOffset \/ ConsumerRestart \/ EventLost
           \/ FindingsChange \/ EngagementMoves
    PROVE  OnceInv'
  <1>0. \A f \in Finding : /\ ~ToAnnounce(Waiting, f) /\ ~ToAnnounce(Idle, f)
                           /\ ~ToAnnounce(Afterwards, f)
    BY DEF Waiting, Idle, Afterwards, ToAnnounce
  <1>1. ASSUME NEW w \in Worker, Abandon(w) PROVE OnceInv'
    <2>1. Goto(w, Idle) /\ UNCHANGED <<sent, approvals, twice, con>>
      BY <1>1 DEF Abandon, history
    <2> QED
      BY <1>0, <2>1, OnceRequest
  <1>2. CASE EventLost
    <2>1. UNCHANGED <<sent, approvals, twice>>
      BY <1>2 DEF EventLost, history
    <2>2. ASSUME NEW w \in Worker, NEW f, web[w].op = "announcing", con' = con,
                 Goto(w, IF web[w].todo = {f} THEN Idle
                         ELSE [web[w] EXCEPT !.todo = @ \ {f}])
          PROVE  OnceInv'
      <3> DEFINE rest == [web[w] EXCEPT !.todo = @ \ {f}]
                 q == IF web[w].todo = {f} THEN Idle ELSE rest
      <3>1. rest.op = "announcing" /\ rest.todo = web[w].todo \ {f}
        BY <2>2 DEF TypeInv, TypeOK, Request
      <3>2. Goto(w, q) /\ \A g \in Finding : ToAnnounce(q, g) => ToAnnounce(web[w], g)
        BY <1>0, <2>2, <3>1 DEF ToAnnounce
      <3> HIDE DEF q
      <3> QED
        BY <2>1, <2>2, <3>2, OnceRequest
    <2>3. ASSUME NEW f, con.op = "announcing", web' = web,
                 con' = IF con.todo = {f} THEN Afterwards
                        ELSE [con EXCEPT !.todo = @ \ {f}]
          PROVE  OnceInv'
      <3>1. con' = Afterwards \/ (con'.op = "announcing" /\ con'.todo = con.todo \ {f})
        BY <2>3 DEF TypeInv, TypeOK, Consumer
      <3>2. NoNewTask
        BY <1>0, <2>3, <3>1 DEF NoNewTask, ToAnnounce
      <3> QED
        BY <2>1, <3>2, OnceSilent
    <2> QED
      BY <1>2, <2>2, <2>3 DEF EventLost
  <1>3. CASE ConsumerRestart
    <2>1. UNCHANGED <<sent, approvals, twice, web>> /\ con' = Waiting
      BY <1>3 DEF ConsumerRestart, history
    <2> QED
      BY <1>0, <2>1, OnceSilent DEF NoNewTask
  <1>4. CASE \/ \E d \in Ending : WODecide(d)
             \/ CommitOffset \/ FindingsChange \/ EngagementMoves
    <2>1. UNCHANGED <<sent, approvals, twice, web, con>>
      BY <1>4 DEF WODecide, CommitOffset, FindingsChange, EngagementMoves, history
    <2> QED
      BY <2>1, OnceSilent DEF NoNewTask
  <1> QED
    BY <1>1, <1>2, <1>3, <1>4

LEMMA OnceInit == Init => OnceInv
  BY DEF Init, OnceInv, AnnouncedOncePerApproval, OneTells, NobodyTells, ToAnnounce, Idle, Waiting

LEMMA OnceStep == TypeInv /\ OnceInv /\ [Next]_vars => OnceInv'
  <1> SUFFICES ASSUME TypeInv, OnceInv, [Next]_vars PROVE OnceInv'
    OBVIOUS
  <1>1. CASE UNCHANGED vars
    BY <1>1, OnceSilent DEF vars, history, NoNewTask
  <1> QED
    BY <1>1, OnceTake, OnceGoOn, OnceConsumer, OnceOthers DEF Next

\* Nothing is announced before an approval is saved, and nothing again
\* before a second one is: whatever requests overlap and die, whatever
\* events are lost, wherever the consumer stops and starts again.
THEOREM AnnouncedOnce == Spec => []AnnouncedOncePerApproval
  <1>1. OnceInv => AnnouncedOncePerApproval
    BY DEF OnceInv
  <1> QED
    BY <1>1, TypeInvariant, OnceInit, OnceStep, PTL DEF Spec

---------------------------------------------------------------------------
(* No finding is forgotten.                                                *)

DueIsActive == due \subseteq active

AnnounceInv == TypeInv /\ DueIsActive /\ NoFindingForgotten

\* Nothing new is due, and who had a finding to announce has it still, or
\* has announced it.
LEMMA KeepAnnouncing ==
    ASSUME AnnounceInv, due' \subseteq due, sent \subseteq sent', faulty => faulty',
           \A f \in due : /\ ToAnnounce(con, f) => ToAnnounce(con', f) \/ f \in sent'
                          /\ \A w \in Worker : ToAnnounce(web[w], f) =>
                                ToAnnounce(web'[w], f) \/ f \in sent'
    PROVE  NoFindingForgotten'
  BY DEF AnnounceInv, NoFindingForgotten, ToAnnounce

\* The same for the step of one worker.
LEMMA KeepAnnouncingOne ==
    ASSUME AnnounceInv, due' \subseteq due, sent \subseteq sent', UNCHANGED <<faulty, con>>,
           NEW w \in Worker, NEW q, Goto(w, q),
           \A f \in due : ToAnnounce(web[w], f) => ToAnnounce(q, f) \/ f \in sent'
    PROVE  NoFindingForgotten'
  <1>1. \A v \in Worker : web'[v] = IF v = w THEN q ELSE web[v]
    BY GotoChanges DEF AnnounceInv
  <1> QED
    BY <1>1, KeepAnnouncing

\* A worker announces what it approved: a report moved to "approved" makes
\* the active findings due, the lookup finds them all active still.
LEMMA WorkersAnnounce ==
    ASSUME AnnounceInv, NEW w \in Worker, Take(w) \/ GoOn(w)
    PROVE  DueIsActive' /\ NoFindingForgotten'
  <1>t. web \in [Worker -> Request]
    BY DEF AnnounceInv, TypeInv, TypeOK
  <1>0. active' = active /\ (due' = due \/ MoveSave(w))
    BY DEF Take, GoOn, CreateRead, EditRead, MoveRead, DistributeRead, Begin, CreateSave, EditSave,
           MoveSave, LookUp, Announce, DistributeSave, history, NotApproved
  <1>1. DueIsActive'
    BY <1>0 DEF MoveSave, Approved, NotApproved, AnnounceInv, DueIsActive
  <1> SUFFICES NoFindingForgotten'
    BY <1>1
  <1>2. ASSUME NEW q, Begin(w, q) PROVE NoFindingForgotten'
    BY <1>2, KeepAnnouncingOne DEF Begin, history, ToAnnounce
  <1>3. CASE CreateSave(w) \/ EditSave(w) \/ DistributeSave(w)
    <2>1. PICK q : Goto(w, q)
      BY <1>3 DEF CreateSave, EditSave, DistributeSave
    <2>2. /\ UNCHANGED <<due, sent, faulty, con>>
          /\ web[w].op \in {"create", "edit", "distribute"}
      BY <1>3 DEF CreateSave, EditSave, DistributeSave
    <2> QED
      BY <2>1, <2>2, KeepAnnouncingOne DEF ToAnnounce
  <1>4. CASE MoveSave(w)
    <2>1. UNCHANGED <<sent, faulty, con>> /\ web[w].op = "move"
      BY <1>4 DEF MoveSave
    <2>2. CASE web[w].to = "approved"
      <3>1. web'[w].op = "approved"
        BY <1>t, <1>4, <2>2 DEF MoveSave, Goto, Idle
      <3> QED
        BY <3>1 DEF NoFindingForgotten, ToAnnounce
    <2>3. CASE web[w].to # "approved"
      <3>1. due' = due /\ Goto(w, Idle)
        BY <1>4, <2>3 DEF MoveSave, NotApproved
      <3> QED
        BY <2>1, <3>1, KeepAnnouncingOne DEF ToAnnounce
    <2> QED
      BY <2>2, <2>3
  <1>5. CASE LookUp(w)
    <2> DEFINE list == [Idle EXCEPT !.op = "announcing", !.todo = active]
               q == IF active = {} THEN Idle ELSE list
    <2>1. Goto(w, q) /\ UNCHANGED <<due, sent, faulty, con>>
      BY <1>5 DEF LookUp, history
    <2>2. list.op = "announcing" /\ list.todo = active
      BY DEF Idle
    <2>3. \A f \in due : ToAnnounce(q, f)
      BY <2>2 DEF AnnounceInv, DueIsActive, ToAnnounce
    <2> HIDE DEF q
    <2> QED
      BY <2>1, <2>3, KeepAnnouncingOne
  <1>6. ASSUME NEW g \in Finding, Announce(w, g) PROVE NoFindingForgotten'
    <2> DEFINE rest == [web[w] EXCEPT !.todo = @ \ {g}]
               q == IF web[w].todo = {g} THEN Idle ELSE rest
    <2>1. Goto(w, q) /\ UNCHANGED <<due, faulty, con>> /\ sent' = sent \union {g}
          /\ web[w].op = "announcing"
      BY <1>6 DEF Announce, Tell
    <2>2. rest.op = "announcing" /\ rest.todo = web[w].todo \ {g}
      BY <1>t, <2>1 DEF Request
    <2>3. \A f \in due : ToAnnounce(web[w], f) => ToAnnounce(q, f) \/ f \in sent'
      BY <2>1, <2>2 DEF ToAnnounce
    <2> HIDE DEF q
    <2> QED
      BY <2>1, <2>3, KeepAnnouncingOne
  <1> QED
    BY <1>2, <1>3, <1>4, <1>5, <1>6
       DEF Take, GoOn, CreateRead, EditRead, DistributeRead, MoveRead

\* So does the consumer, which takes no decision before it is through.
LEMMA ConsumerAnnounces ==
    ASSUME AnnounceInv, ConsumerStep
    PROVE  DueIsActive' /\ NoFindingForgotten'
  <1>t. con \in Consumer
    BY DEF AnnounceInv, TypeInv, TypeOK
  <1>0. UNCHANGED <<active, faulty, web>> /\ (due' = due \/ due' = due \union active)
        /\ sent \subseteq sent'
    BY DEF ConsumerStep, Consume, ConsumerLookUp, ConsumerAnnounce, ConsumerStamp, Approved,
           NotApproved, Tell, history
  <1>1. DueIsActive'
    BY <1>0 DEF AnnounceInv, DueIsActive
  <1> SUFFICES NoFindingForgotten'
    BY <1>1
  <1>2. CASE Consume
    <2>1. CASE log[pos + 1] = "approved"
      <3>1. con'.op = "approved"
        BY <1>t, <1>2, <2>1 DEF Consume, Consumer
      <3> QED
        BY <3>1 DEF NoFindingForgotten, ToAnnounce
    <2>2. CASE log[pos + 1] # "approved"
      <3>1. due' = due /\ con' = con
        BY <1>2, <2>2 DEF Consume, NotApproved
      <3> QED
        BY <1>0, <3>1, KeepAnnouncing
    <2> QED
      BY <2>1, <2>2
  <1>3. CASE ConsumerLookUp
    <2>1. due' = due /\ con' = IF active = {} THEN Afterwards
                                ELSE [op |-> "announcing", todo |-> active]
      BY <1>3 DEF ConsumerLookUp, history
    <2>2. \A f \in due : ToAnnounce(con', f)
      BY <2>1 DEF AnnounceInv, DueIsActive, ToAnnounce
    <2> QED
      BY <1>0, <2>1, <2>2, KeepAnnouncing
  <1>4. ASSUME NEW g \in Finding, ConsumerAnnounce(g) PROVE NoFindingForgotten'
    <2>1. /\ due' = due /\ sent' = sent \union {g} /\ con.op = "announcing"
          /\ con' = IF con.todo = {g} THEN Afterwards ELSE [con EXCEPT !.todo = @ \ {g}]
      BY <1>4 DEF ConsumerAnnounce, Tell
    <2>2. con.todo # {g} => con'.op = "announcing" /\ con'.todo = con.todo \ {g}
      BY <1>t, <2>1 DEF Consumer
    <2>3. \A f \in due : ToAnnounce(con, f) => ToAnnounce(con', f) \/ f \in sent'
      BY <2>1, <2>2 DEF ToAnnounce
    <2> QED
      BY <1>0, <2>1, <2>3, KeepAnnouncing
  <1>5. ASSUME NEW answered \in BOOLEAN, ConsumerStamp(answered) PROVE NoFindingForgotten'
    <2>1. due' = due /\ con.op = "stamping"
      BY <1>5 DEF ConsumerStamp
    <2> QED
      BY <1>0, <2>1, KeepAnnouncing DEF ToAnnounce
  <1> QED
    BY <1>2, <1>3, <1>4, <1>5 DEF ConsumerStep

\* Only a failure takes a finding off a list; a finding that is deleted is
\* due no more.
LEMMA OthersAnnounce ==
    ASSUME AnnounceInv,
           \/ \E w \in Worker : Abandon(w)
           \/ \E d \in Ending : WODecide(d)
           \/ CommitOffset \/ ConsumerRestart \/ EventLost
           \/ FindingsChange \/ EngagementMoves
    PROVE  DueIsActive' /\ NoFindingForgotten'
  <1>1. CASE (\E w \in Worker : Abandon(w)) \/ ConsumerRestart \/ EventLost
    <2>1. faulty' /\ UNCHANGED <<active, due>>
      BY <1>1 DEF Abandon, ConsumerRestart, EventLost, history
    <2> QED
      BY <2>1 DEF AnnounceInv, DueIsActive, NoFindingForgotten
  <1>2. CASE (\E d \in Ending : WODecide(d)) \/ CommitOffset \/ FindingsChange \/ EngagementMoves
    <2>1. /\ UNCHANGED <<sent, faulty, web, con>> /\ due' \subseteq due
          /\ due' \subseteq active' \/ UNCHANGED <<active, due>>
      BY <1>2 DEF WODecide, CommitOffset, FindingsChange, EngagementMoves, history
    <2>2. DueIsActive'
      BY <2>1 DEF AnnounceInv, DueIsActive
    <2> QED
      BY <2>1, <2>2, KeepAnnouncing
  <1> QED
    BY <1>1, <1>2

\* While nothing fails, every finding that was active at an approval is
\* announced or about to be, for every set of findings and workers: the
\* lookup comes after the approval and takes what is active, and the loops
\* of the view and of the handler leave none out.
THEOREM FindingsNotForgotten == Spec => []NoFindingForgotten
  <1>1. Init => AnnounceInv
    BY TypeInit DEF Init, AnnounceInv, DueIsActive, NoFindingForgotten
  <1>2. AnnounceInv /\ [Next]_vars => AnnounceInv'
    <2> SUFFICES ASSUME AnnounceInv, [Next]_vars PROVE DueIsActive' /\ NoFindingForgotten'
      BY TypeStep DEF AnnounceInv
    <2>1. CASE UNCHANGED vars
      BY <2>1, KeepAnnouncing DEF vars, history, AnnounceInv, DueIsActive
    <2> QED
      BY <2>1, WorkersAnnounce, ConsumerAnnounces, OthersAnnounce DEF Next
  <1>3. AnnounceInv => NoFindingForgotten
    BY DEF AnnounceInv
  <1> QED
    BY <1>1, <1>2, <1>3, PTL DEF Spec

---------------------------------------------------------------------------
(* What is approved was reviewed.                                          *)

Reviewed == "under_review" \in was \/ WOApproved

\* A request that goes to write "approved" read a report under review, of
\* which h is the history.
Sound(q, h) ==
    /\ q.op = "edit" => q.copy.status # "approved"
    /\ q.op = "move" /\ q.to = "approved" => "under_review" \in h

\* The row's status is in the history, the history of a report that was
\* approved holds its review, and so do the requests that have begun.
ReviewInv ==
    /\ report.status \in was \union {"none"}
    /\ "approved" \in was => Reviewed
    /\ \A w \in Worker : Sound(web[w], was)

\* Bodies of PUT, PATCH and POST do not say "approved".
NoApprovingBody == "approved" \notin ClientStatuses

\* A step that saves nothing, or a status that may be saved, and changes
\* requests into sound ones.
LEMMA KeepReview ==
    ASSUME ReviewInv, Reviewed => Reviewed',
           \/ report' = report /\ was' = was
           \/ \E row : Save(row) /\ (row.status = "approved" => Reviewed'),
           \A w \in Worker : web'[w] = web[w] \/ Sound(web'[w], was')
    PROVE  ReviewInv'
  <1>1. was \subseteq was' /\ report'.status \in was' \union {"none"}
    BY DEF ReviewInv, Save
  <1>2. "approved" \in was' => Reviewed'
    BY DEF ReviewInv, Save
  <1>3. ASSUME NEW w \in Worker PROVE Sound(web'[w], was')
    BY <1>1 DEF ReviewInv, Sound
  <1> QED
    BY <1>1, <1>2, <1>3 DEF ReviewInv

\* A report that was reviewed stays so: the history and the topic grow.
LEMMA ReviewedStays ==
    ASSUME Reviewed, was \subseteq was', log' = log
    PROVE  Reviewed'
  BY DEF Reviewed, WOApproved

\* The step of one request.
LEMMA ReviewRequest ==
    ASSUME TypeInv, ReviewInv, NEW w \in Worker, NEW q, Goto(w, q), Sound(q, was'),
           log' = log,
           \/ report' = report /\ was' = was
           \/ \E row : Save(row) /\ (row.status = "approved" => Reviewed')
    PROVE  ReviewInv'
  <1>1. \A v \in Worker : web'[v] = IF v = w THEN q ELSE web[v]
    BY DEF Goto, TypeInv, TypeOK
  <1>2. was \subseteq was'
    BY DEF Save
  <1>3. Reviewed => Reviewed'
    BY <1>2, ReviewedStays
  <1>4. \A v \in Worker : web'[v] = web[v] \/ Sound(web'[v], was')
    BY <1>1
  <1> QED
    BY <1>3, <1>4, KeepReview

LEMMA ReviewTake ==
    ASSUME TypeInv, ReviewInv, NEW w \in Worker, Take(w)
    PROVE  ReviewInv'
  <1>1. CASE CreateRead(w)
    <2> DEFINE q == [Idle EXCEPT !.op = "create"]
    <2>1. /\ q.op = "create" /\ Goto(w, q)
          /\ report' = report /\ was' = was /\ log' = log
      BY <1>1 DEF CreateRead, Begin, Idle, history, topic
    <2> HIDE DEF q
    <2> QED
      BY <2>1, ReviewRequest DEF Sound
  <1>2. CASE EditRead(w)
    <2> DEFINE q == [Idle EXCEPT !.op = "edit", !.copy = report]
    <2>1. /\ q.op = "edit" /\ q.copy = report /\ Goto(w, q)
          /\ report.status # "approved"
          /\ report' = report /\ was' = was /\ log' = log
      BY <1>2 DEF EditRead, Begin, Idle, history, topic
    <2> HIDE DEF q
    <2> QED
      BY <2>1, ReviewRequest DEF Sound
  <1>3. CASE DistributeRead(w)
    <2> DEFINE q == [Idle EXCEPT !.op = "distribute", !.copy = Seen]
    <2>1. /\ q.op = "distribute" /\ Goto(w, q)
          /\ report' = report /\ was' = was /\ log' = log
      BY <1>3 DEF DistributeRead, Begin, Idle, history, topic
    <2> HIDE DEF q
    <2> QED
      BY <2>1, ReviewRequest DEF Sound
  <1>4. ASSUME NEW t \in Status, MoveRead(w, t) PROVE ReviewInv'
    <2> DEFINE q == [Idle EXCEPT !.op = "move", !.copy = Seen, !.to = t]
    <2>1. /\ q.op = "move" /\ q.to = t /\ Goto(w, q)
          /\ t \in ReportTo(report.status)
          /\ report' = report /\ was' = was /\ log' = log
      BY <1>4 DEF MoveRead, Begin, Idle, history, topic
    <2> HIDE DEF q
    <2>2. t = "approved" => "under_review" \in was'
      BY <2>1 DEF ReportTo, ReviewInv
    <2> QED
      BY <2>1, <2>2, ReviewRequest DEF Sound
  <1> QED
    BY <1>1, <1>2, <1>3, <1>4 DEF Take

LEMMA ReviewGoOn ==
    ASSUME NoApprovingBody, TypeInv, ReviewInv, NEW w \in Worker, GoOn(w)
    PROVE  ReviewInv'
  <1>0. Sound(Idle, was')
    BY DEF Sound, Idle
  <1>1. CASE CreateSave(w)
    <2>1. Goto(w, Idle) /\ log' = log
      BY <1>1 DEF CreateSave, topic
    <2>2. CASE report.status = "none"
      <3>1. PICK s \in {"draft"} \union ClientStatuses : Save([NoRow EXCEPT !.status = s])
        BY <1>1, <2>2 DEF CreateSave
      <3> DEFINE row == [NoRow EXCEPT !.status = s]
      <3>2. row.status # "approved" /\ Save(row)
        BY <3>1 DEF NoRow, NoApprovingBody
      <3> HIDE DEF row
      <3> QED
        BY <1>0, <2>1, <3>2, ReviewRequest
    <2>3. CASE report.status # "none"
      <3>1. report' = report /\ was' = was
        BY <1>1, <2>3 DEF CreateSave
      <3> QED
        BY <1>0, <2>1, <3>1, ReviewRequest
    <2> QED
      BY <2>2, <2>3
  <1>2. CASE EditSave(w)
    <2>1. Goto(w, Idle) /\ log' = log /\ web[w].op = "edit"
      BY <1>2 DEF EditSave, topic
    <2>2. PICK s \in {web[w].copy.status} \union ClientStatuses :
              Save([web[w].copy EXCEPT !.status = s])
      BY <1>2 DEF EditSave
    <2> DEFINE row == [web[w].copy EXCEPT !.status = s]
    <2>3. row.status = s /\ Save(row)
      BY <2>2 DEF TypeInv, TypeOK, Request, Row
    <2> HIDE DEF row
    <2>4. s # "approved"
      BY <2>1, <2>2 DEF ReviewInv, Sound, NoApprovingBody
    <2> QED
      BY <1>0, <2>1, <2>3, <2>4, ReviewRequest
  <1>3. CASE MoveSave(w)
    <2> DEFINE q == [Idle EXCEPT !.op = "approved"]
               row == [report EXCEPT !.status = web[w].to,
                                     !.approver = @ \/ web[w].to = "approved"]
    <2>1. /\ web[w].op = "move" /\ log' = log /\ Save(row) /\ q.op = "approved"
          /\ Goto(w, q) \/ Goto(w, Idle)
      BY <1>3 DEF MoveSave, Idle, topic
    <2>2. row.status = web[w].to
      BY DEF TypeInv, TypeOK, Row
    <2> HIDE DEF q, row
    <2>3. row.status = "approved" => Reviewed'
      BY <2>1, <2>2, SaveGrows DEF ReviewInv, Sound, Reviewed
    <2>4. Sound(q, was')
      BY <2>1 DEF Sound
    <2> QED
      BY <1>0, <2>1, <2>3, <2>4, ReviewRequest
  <1>4. CASE DistributeSave(w)
    <2> DEFINE row == [report EXCEPT !.status = "distributed"]
    <2>1. log' = log /\ Save(row) /\ Goto(w, Idle)
      BY <1>4 DEF DistributeSave, topic
    <2>2. row.status = "distributed"
      BY DEF TypeInv, TypeOK, Row
    <2> HIDE DEF row
    <2> QED
      BY <1>0, <2>1, <2>2, ReviewRequest
  <1>5. CASE LookUp(w)
    <2> DEFINE q == IF active = {} THEN Idle
                    ELSE [Idle EXCEPT !.op = "announcing", !.todo = active]
    <2>1. /\ Goto(w, q) /\ q.op \in {"idle", "announcing"}
          /\ report' = report /\ was' = was /\ log' = log
      BY <1>5 DEF LookUp, Idle, history, topic
    <2> HIDE DEF q
    <2> QED
      BY <2>1, ReviewRequest DEF Sound
  <1>6. ASSUME NEW f \in Finding, Announce(w, f) PROVE ReviewInv'
    <2> DEFINE q == IF web[w].todo = {f} THEN Idle ELSE [web[w] EXCEPT !.todo = @ \ {f}]
    <2>1. /\ web[w].op = "announcing" /\ Goto(w, q)
          /\ report' = report /\ was' = was /\ log' = log
      BY <1>6 DEF Announce, topic
    <2>2. q.op \in {"idle", "announcing"}
      BY <2>1 DEF TypeInv, TypeOK, Request, Idle
    <2> HIDE DEF q
    <2> QED
      BY <2>1, <2>2, ReviewRequest DEF Sound
  <1> QED
    BY <1>1, <1>2, <1>3, <1>4, <1>5, <1>6 DEF GoOn

\* The consumer approves what WO has approved, which is in the topic.
LEMMA ReviewConsumer ==
    ASSUME TypeInv, ReviewInv, ConsumerStep
    PROVE  ReviewInv'
  <1>1. CASE Consume
    <2>1. web' = web /\ log' = log /\ was \subseteq was'
      BY <1>1 DEF Consume, Save
    <2>2. Reviewed => Reviewed'
      BY <2>1, ReviewedStays
    <2>3. CASE log[pos + 1] = "approved"
      <3> DEFINE row == [report EXCEPT !.status = "approved"]
      <3>1. Save(row)
        BY <1>1, <2>3 DEF Consume
      <3> HIDE DEF row
      <3>2. pos + 1 \in 1..Len(log)
        BY <1>1 DEF Consume, TypeInv, TypeOK
      <3>3. Reviewed'
        BY <2>1, <2>3, <3>2 DEF Reviewed, WOApproved
      <3> QED
        BY <2>1, <2>2, <3>1, <3>3, KeepReview
    <2>4. CASE log[pos + 1] # "approved"
      <3> DEFINE row == [report EXCEPT !.status = "draft"]
      <3>1. Save(row)
        BY <1>1, <2>4 DEF Consume
      <3>2. row.status = "draft"
        BY DEF TypeInv, TypeOK, Row
      <3> HIDE DEF row
      <3> QED
        BY <2>1, <2>2, <3>1, <3>2, KeepReview
    <2> QED
      BY <2>3, <2>4
  <1>2. ASSUME ConsumerLookUp \/ \E f \in Finding : ConsumerAnnounce(f)
        PROVE  ReviewInv'
    <2>1. web' = web /\ log' = log /\ was' = was /\ report' = report
      BY <1>2 DEF ConsumerLookUp, ConsumerAnnounce, history, topic
    <2> QED
      BY <2>1, ReviewedStays, KeepReview
  <1>3. ASSUME NEW answered \in BOOLEAN, ConsumerStamp(answered) PROVE ReviewInv'
    <2> DEFINE row == [report EXCEPT !.stamped = @ \/ answered]
    <2>1. Save(row) /\ web' = web /\ log' = log /\ con.op = "stamping"
      BY <1>3 DEF ConsumerStamp, topic
    <2>2. row.status = report.status
      BY DEF TypeInv, TypeOK, Row
    <2> HIDE DEF row
    <2>3. was \subseteq was'
      BY <2>1 DEF Save
    <2>4. Reviewed => Reviewed'
      BY <2>1, <2>3, ReviewedStays
    <2>5. row.status = "approved" => Reviewed'
      BY <2>2, <2>4 DEF ReviewInv
    <2> QED
      BY <2>1, <2>4, <2>5, KeepReview
  <1> QED
    BY <1>1, <1>2, <1>3 DEF ConsumerStep

LEMMA ReviewOthers ==
    ASSUME TypeInv, ReviewInv,
           \/ \E w \in Worker : Abandon(w)
           \/ \E d \in Ending : WODecide(d)
           \/ CommitOffset \/ ConsumerRestart \/ EventLost
           \/ FindingsChange \/ EngagementMoves
    PROVE  ReviewInv'
  <1>0. Sound(Idle, was')
    BY DEF Sound, Idle
  <1>1. ASSUME NEW w \in Worker, Abandon(w) PROVE ReviewInv'
    <2>1. Goto(w, Idle) /\ report' = report /\ was' = was /\ log' = log
      BY <1>1 DEF Abandon, history, topic
    <2> QED
      BY <1>0, <2>1, ReviewRequest
  <1>2. ASSUME NEW d \in Ending, WODecide(d) PROVE ReviewInv'
    <2>1. /\ web' = web /\ report' = report /\ was' = was
          /\ log' = Append(log, d)
      BY <1>2 DEF WODecide, history
    <2>2. /\ Len(log') = Len(log) + 1 /\ Len(log) \in Nat
          /\ \A k \in 1..Len(log) : log'[k] = log[k]
      BY <2>1 DEF TypeInv, TypeOK
    <2>3. WOApproved => WOApproved'
      BY <2>2 DEF WOApproved
    <2> QED
      BY <2>1, <2>3, KeepReview DEF Reviewed
  <1>3. CASE EventLost
    <2>1. report' = report /\ was' = was /\ log' = log
      BY <1>3 DEF EventLost, history, topic
    <2>2. ASSUME NEW w \in Worker, NEW f, web[w].op = "announcing",
                 Goto(w, IF web[w].todo = {f} THEN Idle
                         ELSE [web[w] EXCEPT !.todo = @ \ {f}])
          PROVE  ReviewInv'
      <3> DEFINE q == IF web[w].todo = {f} THEN Idle
                      ELSE [web[w] EXCEPT !.todo = @ \ {f}]
      <3>1. Goto(w, q)
        BY <2>2
      <3>2. q.op \in {"idle", "announcing"}
        BY <2>2 DEF TypeInv, TypeOK, Request, Idle
      <3> HIDE DEF q
      <3> QED
        BY <2>1, <3>1, <3>2, ReviewRequest DEF Sound
    <2>3. CASE web' = web
      BY <2>1, <2>3, ReviewedStays, KeepReview
    <2> QED
      BY <1>3, <2>2, <2>3 DEF EventLost
  <1>4. CASE CommitOffset \/ ConsumerRestart \/ FindingsChange \/ EngagementMoves
    <2>1. web' = web /\ report' = report /\ was' = was /\ log' = log
      BY <1>4 DEF CommitOffset, ConsumerRestart, FindingsChange, EngagementMoves, history, topic
    <2> QED
      BY <2>1, ReviewedStays, KeepReview
  <1> QED
    BY <1>1, <1>2, <1>3, <1>4

LEMMA ReviewInit == Init => ReviewInv
  BY DEF Init, ReviewInv, Sound, Idle, NoRow

LEMMA ReviewStep ==
    NoApprovingBody /\ TypeInv /\ ReviewInv /\ [Next]_vars => ReviewInv'
  <1> SUFFICES ASSUME NoApprovingBody, TypeInv, ReviewInv, [Next]_vars
               PROVE  ReviewInv'
    OBVIOUS
  <1>1. CASE UNCHANGED vars
    <2>1. web' = web /\ report' = report /\ was' = was /\ log' = log
      BY <1>1 DEF vars, history, topic
    <2> QED
      BY <2>1, ReviewedStays, KeepReview
  <1> QED
    BY <1>1, ReviewTake, ReviewGoOn, ReviewConsumer, ReviewOthers DEF Next

\* An approved report was under review in GRC, or WO approved it, if no
\* body says "approved": however moves, edits and decisions overlap, with
\* requests dying between read and save and decisions delivered again.
THEOREM ApprovalsReviewed ==
    ASSUME NoApprovingBody
    PROVE  Spec => []ApprovedIsReviewed
  <1>1. ReviewInv => ApprovedIsReviewed
    BY DEF ReviewInv, Reviewed, ApprovedIsReviewed
  <1>2. TypeInv /\ ReviewInv /\ [Next]_vars => ReviewInv'
    BY ReviewStep
  <1> QED
    BY <1>1, <1>2, TypeInvariant, ReviewInit, PTL DEF Spec
---------------------------------------------------------------------------
(* What every step leaves of the requests.                                 *)

Late == {"idle", "approved", "announcing"}

\* A worker that goes on, or dies, reads nothing more.
LEMMA RequestsGoOn ==
    ASSUME TypeInv, NEW w \in Worker, GoOn(w) \/ Abandon(w)
    PROVE  /\ \A v \in Worker : web'[v] = web[v] \/ web'[v].op \in Late
           /\ log' = log
  <1>1. ASSUME NEW q, Goto(w, q), q.op \in Late
        PROVE  \A v \in Worker : web'[v] = web[v] \/ web'[v].op \in Late
    BY <1>1, GotoChanges
  <1>2. Idle.op \in Late
    BY DEF Idle, Late
  <1>3. CASE CreateSave(w) \/ EditSave(w) \/ DistributeSave(w) \/ Abandon(w)
    BY <1>1, <1>2, <1>3 DEF CreateSave, EditSave, DistributeSave, Abandon, topic
  <1>4. CASE MoveSave(w)
    <2> DEFINE q == [Idle EXCEPT !.op = "approved"]
    <2>1. (Goto(w, q) \/ Goto(w, Idle)) /\ log' = log
      BY <1>4 DEF MoveSave, topic
    <2>2. q.op \in Late
      BY DEF Idle, Late
    <2> HIDE DEF q
    <2> QED
      BY <1>1, <1>2, <2>1, <2>2
  <1>5. CASE LookUp(w)
    <2> DEFINE q == [Idle EXCEPT !.op = "announcing", !.todo = active]
    <2>1. (Goto(w, q) \/ Goto(w, Idle)) /\ log' = log
      BY <1>5 DEF LookUp, topic
    <2>2. q.op \in Late
      BY DEF Idle, Late
    <2> HIDE DEF q
    <2> QED
      BY <1>1, <1>2, <2>1, <2>2
  <1>6. ASSUME NEW f \in Finding, Announce(w, f)
        PROVE  /\ \A v \in Worker : web'[v] = web[v] \/ web'[v].op \in Late
               /\ log' = log
    <2> DEFINE q == [web[w] EXCEPT !.todo = @ \ {f}]
    <2>1. (Goto(w, q) \/ Goto(w, Idle)) /\ log' = log /\ web[w].op = "announcing"
      BY <1>6 DEF Announce, topic
    <2>2. q.op \in Late
      BY <2>1 DEF TypeInv, TypeOK, Request, Late
    <2> HIDE DEF q
    <2> QED
      BY <1>1, <1>2, <2>1, <2>2
  <1> QED
    BY <1>3, <1>4, <1>5, <1>6 DEF GoOn

\* Nothing else begins a request or writes the row.
LEMMA ElsewhereLate ==
    ASSUME TypeInv,
           \/ \E d \in Ending : WODecide(d)
           \/ CommitOffset \/ ConsumerRestart \/ EventLost
           \/ FindingsChange \/ EngagementMoves \/ UNCHANGED vars
    PROVE  /\ \A v \in Worker : web'[v] = web[v] \/ web'[v].op \in Late
           /\ report' = report /\ was' = was
           /\ log' = log \/ report.status # "none"
  <1>1. CASE EventLost
    <2>1. report' = report /\ was' = was /\ log' = log
      BY <1>1 DEF EventLost, history, topic
    <2>2. ASSUME NEW w \in Worker, NEW f, web[w].op = "announcing",
                 Goto(w, IF web[w].todo = {f} THEN Idle
                         ELSE [web[w] EXCEPT !.todo = @ \ {f}])
          PROVE  \A v \in Worker : web'[v] = web[v] \/ web'[v].op \in Late
      <3> DEFINE q == IF web[w].todo = {f} THEN Idle
                      ELSE [web[w] EXCEPT !.todo = @ \ {f}]
      <3>1. Goto(w, q)
        BY <2>2
      <3>2. q.op \in Late
        BY <2>2 DEF TypeInv, TypeOK, Request, Idle, Late
      <3> HIDE DEF q
      <3> QED
        BY <3>1, <3>2, GotoChanges
    <2>3. \A v \in Worker : web'[v] = web[v] \/ web'[v].op \in Late
      BY <1>1, <2>2 DEF EventLost
    <2> QED
      BY <2>1, <2>3
  <1>2. CASE \E d \in Ending : WODecide(d)
    BY <1>2 DEF WODecide, history
  <1>3. CASE \/ CommitOffset \/ ConsumerRestart \/ FindingsChange \/ EngagementMoves
             \/ UNCHANGED vars
    BY <1>3 DEF CommitOffset, ConsumerRestart, FindingsChange, EngagementMoves, vars, history, topic
  <1> QED
    BY <1>1, <1>2, <1>3

\* What a new request holds is of the row that it found.
LEMMA TakeReads ==
    ASSUME TypeInv, NEW w \in Worker, Take(w)
    PROVE  /\ report' = report /\ was' = was /\ log' = log
           /\ \E q : /\ \A v \in Worker : web'[v] = IF v = w THEN q ELSE web[v]
                     /\ \/ q.op = "create"
                        \/ /\ q.op = "edit" /\ q.copy = report
                           /\ report.status \in {"draft", "under_review"}
                        \/ /\ q.op = "move" /\ q.copy.status = report.status
                           /\ q.to \in ReportTo(report.status)
                        \/ q.op = "distribute" /\ report.status = "approved"
  <1> DEFINE Read(q) ==
                \/ q.op = "create"
                \/ /\ q.op = "edit" /\ q.copy = report
                   /\ report.status \in {"draft", "under_review"}
                \/ /\ q.op = "move" /\ q.copy.status = report.status
                   /\ q.to \in ReportTo(report.status)
                \/ q.op = "distribute" /\ report.status = "approved"
  <1>1. \E q : Begin(w, q) /\ Read(q)
    <2>1. CASE CreateRead(w)
      <3> DEFINE q == [Idle EXCEPT !.op = "create"]
      <3>1. Begin(w, q) /\ q.op = "create"
        BY <2>1 DEF CreateRead, Idle
      <3> QED
        BY <3>1
    <2>2. CASE EditRead(w)
      <3> DEFINE q == [Idle EXCEPT !.op = "edit", !.copy = report]
      <3>1. /\ Begin(w, q) /\ q.op = "edit" /\ q.copy = report
            /\ report.status \in {"draft", "under_review"}
        BY <2>2 DEF EditRead, Idle
      <3> QED
        BY <3>1
    <2>3. CASE DistributeRead(w)
      <3> DEFINE q == [Idle EXCEPT !.op = "distribute", !.copy = Seen]
      <3>1. Begin(w, q) /\ q.op = "distribute" /\ report.status = "approved"
        BY <2>3 DEF DistributeRead, Idle
      <3> QED
        BY <3>1
    <2>4. ASSUME NEW t \in Status, MoveRead(w, t) PROVE \E q : Begin(w, q) /\ Read(q)
      <3> DEFINE q == [Idle EXCEPT !.op = "move", !.copy = Seen, !.to = t]
      <3>1. Begin(w, q) /\ t \in ReportTo(report.status)
        BY <2>4 DEF MoveRead
      <3>2. q.op = "move" /\ q.copy.status = report.status /\ q.to = t
        BY DEF Idle, Seen, NoRow
      <3> QED
        BY <3>1, <3>2
    <2> QED
      BY <2>1, <2>2, <2>3, <2>4 DEF Take
  <1>2. PICK q : Begin(w, q) /\ Read(q)
    BY <1>1
  <1>3. Goto(w, q) /\ report' = report /\ was' = was /\ log' = log
    BY <1>2 DEF Begin, history, topic
  <1>4. \A v \in Worker : web'[v] = IF v = w THEN q ELSE web[v]
    BY <1>3, GotoChanges
  <1> QED
    BY <1>2, <1>3, <1>4

---------------------------------------------------------------------------
(* Only requests that read the row before undo an approval.                *)

\* An edit holds the copy of a report not yet approved; so does a move,
\* unless it distributes.
StaleInv ==
    \A w \in Worker :
        /\ web[w].op = "edit" => Rank(web[w].copy.status) = 0
        /\ web[w].op = "move" => Rank(web[w].copy.status) = 0 \/ web[w].to = "distributed"

LEMMA StaleStep == TypeInv /\ StaleInv /\ [Next]_vars => StaleInv'
  <1> SUFFICES ASSUME TypeInv, StaleInv, [Next]_vars PROVE StaleInv'
    OBVIOUS
  <1>1. ASSUME \A v \in Worker : web'[v] = web[v] \/ web'[v].op \in Late PROVE StaleInv'
    BY <1>1 DEF StaleInv, Late
  <1>2. ASSUME NEW w \in Worker, Take(w) PROVE StaleInv'
    <2>1. PICK q : /\ \A v \in Worker : web'[v] = IF v = w THEN q ELSE web[v]
                   /\ \/ q.op = "create"
                      \/ /\ q.op = "edit" /\ q.copy = report
                         /\ report.status \in {"draft", "under_review"}
                      \/ /\ q.op = "move" /\ q.copy.status = report.status
                         /\ q.to \in ReportTo(report.status)
                      \/ q.op = "distribute" /\ report.status = "approved"
      BY <1>2, TakeReads
    <2>2. q.op = "edit" => Rank(q.copy.status) = 0
      BY <2>1 DEF Rank
    <2>3. q.op = "move" => Rank(q.copy.status) = 0 \/ q.to = "distributed"
      BY <2>1 DEF Rank, ReportTo
    <2> QED
      BY <2>1, <2>2, <2>3 DEF StaleInv
  <1>3. ASSUME NEW w \in Worker, GoOn(w) \/ Abandon(w) PROVE StaleInv'
    BY <1>1, <1>3, RequestsGoOn
  <1>4. CASE ConsumerStep
    BY <1>1, <1>4 DEF ConsumerStep, Consume, ConsumerLookUp, ConsumerAnnounce, ConsumerStamp
  <1> QED
    BY <1>1, <1>2, <1>3, <1>4, ElsewhereLate DEF Next

\* What a step does to the rank of the row.
LEMMA UndoStep ==
    ASSUME TypeInv, StaleInv, [Next]_vars, Rank(report'.status) < Rank(report.status)
    PROVE  \/ pos' = pos + 1
           \/ \E w \in Worker : web'[w] # web[w] /\ Rank(web[w].copy.status) = 0
  <1>0. /\ \A s : Rank(s) \in {0, 1, 2} /\ (Rank("distributed") = 2) /\ (Rank("none") = 0)
        /\ report \in Row /\ web \in [Worker -> Request]
    BY DEF Rank, TypeInv, TypeOK
  <1>1. report' # report
    BY <1>0
  <1>2. ASSUME NEW w \in Worker, GoOn(w)
        PROVE  \E v \in Worker : web'[v] # web[v] /\ Rank(web[v].copy.status) = 0
    <2>1. CASE CreateSave(w)
      <3>1. report.status = "none"
        BY <1>1, <2>1 DEF CreateSave
      <3> QED
        BY <1>0, <3>1
    <2>2. CASE EditSave(w)
      <3>1. web[w].op = "edit" /\ web'[w] = Idle
        BY <1>0, <2>2 DEF EditSave, Goto
      <3>2. web'[w] # web[w]
        BY <3>1 DEF Idle
      <3> QED
        BY <3>1, <3>2 DEF StaleInv
    <2>3. CASE MoveSave(w)
      <3> DEFINE q == [Idle EXCEPT !.op = "approved"]
                 row == [report EXCEPT !.status = web[w].to,
                                       !.approver = @ \/ web[w].to = "approved"]
      <3>1. web[w].op = "move" /\ (Goto(w, q) \/ Goto(w, Idle)) /\ report' = row
        BY <2>3 DEF MoveSave, Save
      <3>2. row.status = web[w].to /\ q.op = "approved" /\ Idle.op = "idle"
        BY <1>0 DEF Row, Idle
      <3> HIDE DEF row, q
      <3>3. web[w].to # "distributed"
        BY <1>0, <3>1, <3>2
      <3>4. web'[w].op # "move"
        BY <1>0, <3>1, <3>2 DEF Goto
      <3> QED
        BY <3>1, <3>3, <3>4 DEF StaleInv
    <2>4. CASE DistributeSave(w)
      <3>1. report'.status = "distributed"
        BY <1>0, <2>4 DEF DistributeSave, Save, Row
      <3> QED
        BY <1>0, <3>1
    <2>5. ~LookUp(w) /\ \A f \in Finding : ~Announce(w, f)
      BY <1>1 DEF LookUp, Announce
    <2> QED
      BY <1>2, <2>1, <2>2, <2>3, <2>4, <2>5 DEF GoOn
  <1>3. ASSUME ConsumerStep PROVE pos' = pos + 1
    <2>1. ASSUME NEW a \in BOOLEAN, ConsumerStamp(a) PROVE FALSE
      <3> DEFINE row == [report EXCEPT !.stamped = @ \/ a]
      <3>1. report' = row /\ row.status = report.status
        BY <1>0, <2>1 DEF ConsumerStamp, Save, Row
      <3> QED
        BY <1>0, <3>1
    <2> QED
      BY <1>1, <1>3, <2>1 DEF ConsumerStep, Consume, ConsumerLookUp, ConsumerAnnounce
  <1>4. ASSUME NEW w \in Worker, Take(w) \/ Abandon(w) PROVE FALSE
    BY <1>1, <1>4, TakeReads DEF Abandon
  <1> QED
    BY <1>1, <1>2, <1>3, <1>4, ElsewhereLate DEF Next

\* An approved or distributed report goes back by WO's decision, or by a
\* request that read it before: with any bodies, dead requests and replay.
THEOREM OnlyStaleUndo == Spec => OnlyStaleRequestsUndo
  <1>1. Init => StaleInv
    BY DEF Init, StaleInv, Idle
  <1>2. TypeInv /\ StaleInv /\ [Next]_vars =>
            [Rank(report'.status) < Rank(report.status) =>
                \/ pos' = pos + 1
                \/ \E w \in Worker : /\ web'[w] # web[w]
                                     /\ Rank(web[w].copy.status) = 0]_vars
    BY UndoStep
  <1> QED
    BY <1>1, <1>2, StaleStep, TypeInvariant, PTL DEF Spec, OnlyStaleRequestsUndo
---------------------------------------------------------------------------
(* Draft, approved, distributed.                                           *)

\* A row may be saved with status s over the history h.
May(s, h) ==
    /\ s \in Status
    /\ s # "draft" => "draft" \in h
    /\ s = "distributed" => "approved" \in h

\* What a request goes to write, it may.
Fits(q, h) ==
    /\ q.op = "edit" => May(q.copy.status, h) /\ q.copy.status # "none"
    /\ q.op = "move" => May(q.to, h)
    /\ q.op = "distribute" => May("distributed", h)

ChainInv ==
    /\ report.status # "none" <=> was # {}
    /\ report.status # "none" => report.status \in was
    /\ was # {} => "draft" \in was
    /\ "distributed" \in was => "approved" \in was
    /\ Len(log) > 0 => was # {}
    /\ \A w \in Worker : Fits(web[w], was)

been == [i \in {"report"} |-> was \intersect {"draft", "approved", "distributed"}]

LEMMA PublicationPhases ==
    /\ Publication!Passed(0) = {} /\ Publication!Passed(1) = {"draft"}
    /\ Publication!Passed(2) = {"draft", "approved"}
    /\ Publication!Passed(3) = {"draft", "approved", "distributed"}
    /\ Len(<<"draft", "approved", "distributed">>) = 3
  <1> DEFINE Chain == <<"draft", "approved", "distributed">>
  <1>1. Chain[1] = "draft" /\ Chain[2] = "approved" /\ Chain[3] = "distributed" /\ Len(Chain) = 3
    OBVIOUS
  <1>2. 1..0 = {} /\ 1..1 = {1} /\ 1..2 = {1, 2} /\ 1..3 = {1, 2, 3}
    OBVIOUS
  <1> HIDE DEF Chain
  <1>3. \A n : Publication!Passed(n) = {Chain[k] : k \in 1..n}
    BY DEF Publication!Passed, Chain
  <1>4. Publication!Passed(0) = {} /\ Publication!Passed(1) = {"draft"}
    BY <1>1, <1>2, <1>3
  <1>5. Publication!Passed(2) = {"draft", "approved"}
    BY <1>1, <1>2, <1>3
  <1>6. Publication!Passed(3) = {"draft", "approved", "distributed"}
    BY <1>1, <1>2, <1>3
  <1> QED
    BY <1>1, <1>4, <1>5, <1>6 DEF Chain

\* A status that may be saved is the next of the chain, or none of it.
LEMMA MayAdvances ==
    ASSUME ChainInv, NEW s, May(s, was), was' = was \union {s}
    PROVE  [Publication!Next]_been
  <1> DEFINE b == was \intersect {"draft", "approved", "distributed"}
             c == was' \intersect {"draft", "approved", "distributed"}
  <1>1. b \in {{}, {"draft"}, {"draft", "approved"}, {"draft", "approved", "distributed"}}
    BY DEF ChainInv
  <1>2. \/ c = b
        \/ b = {} /\ c = {"draft"}
        \/ b = {"draft"} /\ c = {"draft", "approved"}
        \/ b = {"draft", "approved"} /\ c = {"draft", "approved", "distributed"}
    <2>1. CASE s \in was \/ s = "under_review"
      BY <2>1
    <2>2. CASE s = "draft" /\ s \notin was
      BY <2>2 DEF ChainInv
    <2>3. CASE s = "approved" /\ s \notin was
      BY <1>1, <2>3 DEF May
    <2>4. CASE s = "distributed" /\ s \notin was
      BY <1>1, <2>4 DEF May
    <2> QED
      BY <2>1, <2>2, <2>3, <2>4 DEF May, Status
  <1>3. been = [i \in {"report"} |-> b] /\ been' = [i \in {"report"} |-> c]
    BY DEF been
  <1> HIDE DEF b, c
  <1>4. ASSUME NEW n \in 1..3, b = Publication!Passed(n - 1), c = Publication!Passed(n)
        PROVE  Publication!Next
    <2>1. been["report"] = Publication!Passed(n - 1)
      BY <1>3, <1>4
    <2>2. been' = [been EXCEPT !["report"] = Publication!Passed(n)]
      BY <1>3, <1>4
    <2> QED
      BY <1>4, <2>1, <2>2, PublicationPhases DEF Publication!Next, Publication!Advance, been
  <1>5. 1 \in 1..3 /\ 2 \in 1..3 /\ 3 \in 1..3 /\ 1 - 1 = 0 /\ 2 - 1 = 1 /\ 3 - 1 = 2
    OBVIOUS
  <1>6. CASE c = b
    BY <1>3, <1>6
  <1>7. CASE b = {} /\ c = {"draft"}
    BY <1>4, <1>5, <1>7, PublicationPhases
  <1>8. CASE b = {"draft"} /\ c = {"draft", "approved"}
    BY <1>4, <1>5, <1>8, PublicationPhases
  <1>9. CASE b = {"draft", "approved"} /\ c = {"draft", "approved", "distributed"}
    BY <1>4, <1>5, <1>9, PublicationPhases
  <1> QED
    BY <1>2, <1>6, <1>7, <1>8, <1>9

\* A step that saves what may be saved and begins what fits.
LEMMA KeepChain ==
    ASSUME TypeInv, ChainInv,
           \/ report' = report /\ was' = was
           \/ \E row : Save(row) /\ May(row.status, was),
           log' = log \/ report.status # "none",
           \A w \in Worker : web'[w] = web[w] \/ web'[w].op \in Late \/ Fits(web'[w], was)
    PROVE  ChainInv' /\ [Publication!Next]_been
  <1>1. \A w \in Worker : Fits(web'[w], was)
    BY DEF ChainInv, Fits, Late
  <1>2. CASE report' = report /\ was' = was
    <2>1. ChainInv'
      BY <1>1, <1>2 DEF ChainInv
    <2> QED
      BY <1>2, <2>1 DEF been
  <1>3. ASSUME NEW row, Save(row), May(row.status, was)
        PROVE  ChainInv' /\ [Publication!Next]_been
    <2>1. report' = row /\ was' = was \union {row.status}
      BY <1>3 DEF Save
    <2>2. [Publication!Next]_been
      BY <1>3, <2>1, MayAdvances
    <2>3. \A w \in Worker : Fits(web'[w], was')
      BY <1>1, <2>1 DEF Fits, May
    <2>4. /\ report'.status # "none" /\ report'.status \in was' /\ was' # {}
          /\ "draft" \in was' /\ ("distributed" \in was' => "approved" \in was')
      BY <1>3, <2>1 DEF May, Status, ChainInv
    <2> QED
      BY <2>2, <2>3, <2>4 DEF ChainInv
  <1> QED
    BY <1>2, <1>3

\* What is saved, by whom ever, may be.
LEMMA GoOnMay ==
    ASSUME ClientStatuses = {}, TypeInv, ChainInv, NEW w \in Worker, GoOn(w)
    PROVE  \/ report' = report /\ was' = was
           \/ \E row : Save(row) /\ May(row.status, was)
  <1>0. report \in Row /\ web[w] \in Request /\ Fits(web[w], was)
    BY DEF TypeInv, TypeOK, ChainInv
  <1>1. CASE CreateSave(w)
    <2>1. CASE report.status = "none"
      <3> DEFINE row == [NoRow EXCEPT !.status = "draft"]
      <3>1. Save(row) /\ row.status = "draft"
        BY <1>1, <2>1 DEF CreateSave, NoRow
      <3> HIDE DEF row
      <3> QED
        BY <3>1 DEF May, Status
    <2>2. CASE report.status # "none"
      BY <1>1, <2>2 DEF CreateSave
    <2> QED
      BY <2>1, <2>2
  <1>2. CASE EditSave(w)
    <2>1. web[w].op = "edit" /\ Save([web[w].copy EXCEPT !.status = web[w].copy.status])
      BY <1>2 DEF EditSave
    <2> DEFINE row == [web[w].copy EXCEPT !.status = web[w].copy.status]
    <2>2. row.status = web[w].copy.status
      BY <1>0 DEF Request, Row
    <2> HIDE DEF row
    <2>3. Save(row) /\ May(row.status, was)
      BY <1>0, <2>1, <2>2 DEF Fits, row
    <2> QED
      BY <2>3
  <1>3. CASE MoveSave(w)
    <2> DEFINE row == [report EXCEPT !.status = web[w].to,
                                     !.approver = @ \/ web[w].to = "approved"]
    <2>1. web[w].op = "move" /\ Save(row)
      BY <1>3 DEF MoveSave
    <2>2. row.status = web[w].to
      BY <1>0 DEF Row
    <2> HIDE DEF row
    <2> QED
      BY <1>0, <2>1, <2>2 DEF Fits
  <1>4. CASE DistributeSave(w)
    <2> DEFINE row == [report EXCEPT !.status = "distributed"]
    <2>1. web[w].op = "distribute" /\ Save(row)
      BY <1>4 DEF DistributeSave
    <2>2. row.status = "distributed"
      BY <1>0 DEF Row
    <2> HIDE DEF row
    <2> QED
      BY <1>0, <2>1, <2>2 DEF Fits
  <1>5. CASE LookUp(w) \/ \E f \in Finding : Announce(w, f)
    BY <1>5 DEF LookUp, Announce, history
  <1> QED
    BY <1>1, <1>2, <1>3, <1>4, <1>5 DEF GoOn

LEMMA ConsumerMay ==
    ASSUME TypeInv, ChainInv, ConsumerStep
    PROVE  /\ \/ report' = report /\ was' = was
              \/ \E row : Save(row) /\ May(row.status, was)
           /\ web' = web /\ log' = log
  <1>0. report \in Row /\ Len(log) \in Nat /\ pos \in Nat
    BY DEF TypeInv, TypeOK
  <1>1. CASE Consume
    <2>1. "draft" \in was
      BY <1>0, <1>1 DEF Consume, ChainInv
    <2>2. PICK s \in {"approved", "draft"} : Save([report EXCEPT !.status = s])
      BY <1>1 DEF Consume
    <2> DEFINE row == [report EXCEPT !.status = s]
    <2>3. Save(row) /\ row.status = s
      BY <1>0, <2>2 DEF Row
    <2> HIDE DEF row
    <2>4. May(row.status, was)
      BY <2>1, <2>3 DEF May, Status
    <2> QED
      BY <1>1, <2>3, <2>4 DEF Consume
  <1>2. ASSUME NEW a \in BOOLEAN, ConsumerStamp(a)
        PROVE  /\ \E row : Save(row) /\ May(row.status, was)
               /\ web' = web /\ log' = log
    <2> DEFINE row == [report EXCEPT !.stamped = @ \/ a]
    <2>1. Save(row) /\ web' = web /\ log' = log /\ con.op = "stamping"
      BY <1>2 DEF ConsumerStamp, topic
    <2>2. row.status = report.status
      BY <1>0 DEF Row
    <2> HIDE DEF row
    <2>3. report.status \in Status
      BY <2>1 DEF TypeInv
    <2>4. May(row.status, was)
      BY <2>2, <2>3 DEF May, Status, ChainInv
    <2> QED
      BY <2>1, <2>4
  <1>3. CASE ConsumerLookUp \/ \E f \in Finding : ConsumerAnnounce(f)
    BY <1>3 DEF ConsumerLookUp, ConsumerAnnounce, history, topic
  <1> QED
    BY <1>1, <1>2, <1>3 DEF ConsumerStep

LEMMA TakeFits ==
    ASSUME TypeInv, ChainInv, NEW w \in Worker, Take(w)
    PROVE  \A v \in Worker : web'[v] = web[v] \/ Fits(web'[v], was)
  <1>1. PICK q : /\ \A v \in Worker : web'[v] = IF v = w THEN q ELSE web[v]
                 /\ \/ q.op = "create"
                    \/ /\ q.op = "edit" /\ q.copy = report
                       /\ report.status \in {"draft", "under_review"}
                    \/ /\ q.op = "move" /\ q.copy.status = report.status
                       /\ q.to \in ReportTo(report.status)
                    \/ q.op = "distribute" /\ report.status = "approved"
    BY TakeReads
  <1>2. report.status \in Status => "draft" \in was /\ report.status \in was
    BY DEF ChainInv, Status
  <1>3. q.op = "edit" => May(q.copy.status, was) /\ q.copy.status # "none"
    BY <1>1, <1>2 DEF May, Status
  <1>4. q.op = "distribute" => May("distributed", was)
    BY <1>1, <1>2 DEF May, Status
  <1>5. q.op = "move" => May(q.to, was)
    BY <1>1, <1>2 DEF May, Status, ReportTo
  <1> QED
    BY <1>1, <1>3, <1>4, <1>5 DEF Fits

LEMMA ChainStep ==
    ASSUME ClientStatuses = {}
    PROVE  TypeInv /\ ChainInv /\ [Next]_vars => ChainInv' /\ [Publication!Next]_been
  <1> SUFFICES ASSUME TypeInv, ChainInv, [Next]_vars
               PROVE  ChainInv' /\ [Publication!Next]_been
    OBVIOUS
  <1>1. ASSUME NEW w \in Worker, Take(w) PROVE ChainInv' /\ [Publication!Next]_been
    BY <1>1, TakeReads, TakeFits, KeepChain
  <1>2. ASSUME NEW w \in Worker, GoOn(w) PROVE ChainInv' /\ [Publication!Next]_been
    BY <1>2, RequestsGoOn, GoOnMay, KeepChain
  <1>3. ASSUME NEW w \in Worker, Abandon(w) PROVE ChainInv' /\ [Publication!Next]_been
    <2>1. report' = report /\ was' = was
      BY <1>3 DEF Abandon, history
    <2> QED
      BY <1>3, <2>1, RequestsGoOn, KeepChain
  <1>4. CASE ConsumerStep
    BY <1>4, ConsumerMay, KeepChain
  <1>5. CASE \/ \E d \in Ending : WODecide(d)
             \/ CommitOffset \/ ConsumerRestart \/ EventLost
             \/ FindingsChange \/ EngagementMoves \/ UNCHANGED vars
    BY <1>5, ElsewhereLate, KeepChain
  <1> QED
    BY <1>1, <1>2, <1>3, <1>4, <1>5 DEF Next

\* While no body carries a status, a report is drafted before it is
\* approved and approved before it is distributed: with any number of
\* workers, dead requests, and WO's decisions delivered late or again.
THEOREM PublicationInOrder ==
    ASSUME ClientStatuses = {}
    PROVE  Spec => ImplementsContract
  <1>1. Init => ChainInv /\ Publication!Init
    <2> SUFFICES ASSUME Init PROVE ChainInv /\ Publication!Init
      OBVIOUS
    <2>1. was = {} /\ report.status = "none" /\ Len(log) = 0 /\ \A w \in Worker : web[w].op = "idle"
      BY DEF Init, NoRow, Idle
    <2>2. ChainInv
      BY <2>1 DEF ChainInv, Fits
    <2>3. been = [i \in {"report"} |-> {}]
      BY <2>1 DEF been
    <2> QED
      BY <2>2, <2>3 DEF Publication!Init, been
  <1>2. TypeInv /\ ChainInv /\ [Next]_vars =>
            ChainInv' /\ [Publication!Next]_([i \in {"report"} |-> was \intersect {"draft", "approved", "distributed"}])
    BY ChainStep DEF been
  <1> QED
    BY <1>1, <1>2, TypeInvariant, PTL DEF Spec, ImplementsContract, Publication!Spec
=============================================================================
