--------------------- MODULE EngagementLifecycle_proofs ---------------------
(***************************************************************************)
(* Theorems about EngagementLifecycle, for every team, every set of        *)
(* workers and any number of plans.                                        *)
(***************************************************************************)
EXTENDS EngagementLifecycle, TLAPS

\* Ending a request frees its worker and its lock.
LEMMA FinishType ==
    ASSUME TypeOK, NEW w \in Worker, Finish(w)
    PROVE  /\ web' \in [Worker -> Request]
           /\ lock' \in Worker \union {None}
  <1>1. Idle \in Request
    BY DEF Idle, Request, NewEngagement, NoDeclaration, Engagement, Phase, Declaration
  <1> QED
    BY <1>1 DEF Finish, TypeOK

\* Taking the next event keeps the positions in order.
LEMMA PositionType ==
    ASSUME TypeOK, pos < Len(log)
    PROVE  pos + 1 \in 0..Len(log) /\ committed \in 0..(pos + 1) /\ log[pos + 1] \in News
  BY DEF TypeOK

\* What WO publishes is appended.
LEMMA LogType ==
    ASSUME TypeOK, NEW s \in Seq(News)
    PROVE  /\ log \o s \in Seq(News)
           /\ pos \in 0..Len(log \o s)
  BY DEF TypeOK

\* A body leaves a declaration a declaration.
LEMMA WrittenType ==
    ASSUME NEW d \in Declaration, NEW b \in {Unsigned} \union Bodies
    PROVE  Written(d, b) \in Declaration
  <1>1. b \in [status : {"pending", "waived", "signed"}, signed : BOOLEAN]
    <2>1. Unsigned \in [status : {"pending", "waived", "signed"}, signed : BOOLEAN]
      BY DEF Unsigned
    <2> QED
      BY <2>1, ConstantsAssumption
  <1> QED
    BY <1>1 DEF Written, Declaration

LEMMA TypeInit == Init => TypeOK
  <1> SUFFICES ASSUME Init PROVE TypeOK
    OBVIOUS
  <1>1. web \in [Worker -> Request]
    <2>1. Idle \in Request
      BY DEF Idle, Request, NewEngagement, NoDeclaration, Engagement, Phase, Declaration
    <2> QED
      BY <2>1 DEF Init
  <1>2. eng \in Engagement /\ decl \in [Member -> Declaration]
    <2>1. NewEngagement \in Engagement
      BY DEF NewEngagement, Engagement, Phase
    <2>2. NoDeclaration \in Declaration
      BY DEF NoDeclaration, Declaration
    <2>3. Written(NoDeclaration, Unsigned) \in Declaration
      BY DEF NoDeclaration, Declaration, Written, Unsigned
    <2> QED
      BY <2>1, <2>2, <2>3 DEF Init
  <1>3. log \in Seq(News) /\ pos \in 0..Len(log) /\ committed \in 0..pos
    BY DEF Init
  <1>4. lock \in Worker \union {None} /\ wo \in [Plan -> {"unused"} \union Stage \union Ending]
    BY DEF Init
  <1> QED
    BY <1>1, <1>2, <1>3, <1>4 DEF TypeOK

LEMMA TypeStep == TypeOK /\ [Next]_vars => TypeOK'
  <1> SUFFICES ASSUME TypeOK, [Next]_vars PROVE TypeOK'
    OBVIOUS
  <1> USE DEF TypeOK
  <1>1. ASSUME NEW w \in Worker, NEW m \in Member, Sign(w, m)
        PROVE  TypeOK'
    BY <1>1 DEF Sign, Request, Declaration
  <1>2. ASSUME NEW w \in Worker, StampCheck(w)
        PROVE  TypeOK'
    <2>1. Idle \in Request
      BY DEF Idle, Request, NewEngagement, NoDeclaration, Engagement, Phase, Declaration
    <2> QED
      BY <1>2, <2>1 DEF StampCheck, Request, Declared
  <1>3. ASSUME NEW w \in Worker, NEW m \in Member, NEW a \in BOOLEAN, Stamped(w, m, a)
        PROVE  TypeOK'
    <2>1. Idle \in Request
      BY DEF Idle, Request, NewEngagement, NoDeclaration, Engagement, Phase, Declaration
    <2>2. decl' \in [Member -> Declaration]
      BY <1>3 DEF Stamped, Declaration
    <2>3. [web[w] EXCEPT !.todo = @ \ {m}] \in Request
      BY DEF Request
    <2>4. web' \in [Worker -> Request]
      BY <1>3, <2>1, <2>3 DEF Stamped
    <2> QED
      BY <1>3, <2>2, <2>4 DEF Stamped
  <1>4. ASSUME NEW w \in Worker, StartRead(w)
        PROVE  TypeOK'
    BY <1>4 DEF StartRead, Request
  <1>5. ASSUME NEW w \in Worker, StartCheck(w)
        PROVE  TypeOK'
    <2>1. Idle \in Request
      BY DEF Idle, Request, NewEngagement, NoDeclaration, Engagement, Phase, Declaration
    <2> QED
      BY <1>5, <2>1 DEF StartCheck, Request
  <1>6. ASSUME NEW w \in Worker, StartLock(w)
        PROVE  TypeOK'
    <2>1. CASE eng.plan # None
      BY <1>6, <2>1, FinishType DEF StartLock
    <2>2. CASE eng.plan = None
      BY <1>6, <2>2 DEF StartLock, Request
    <2> QED
      BY <2>1, <2>2
  <1>7. ASSUME NEW w \in Worker, NEW p \in Plan, CreatePlan(w, p)
        PROVE  TypeOK'
    <2>1. [web[w] EXCEPT !.pc = "created", !.plan = p] \in Request
      BY DEF Request
    <2>2. web' \in [Worker -> Request]
      BY <1>7, <2>1 DEF CreatePlan
    <2>3. wo' \in [Plan -> {"unused"} \union Stage \union Ending]
      BY <1>7 DEF CreatePlan, Stage
    <2> QED
      BY <1>7, <2>2, <2>3 DEF CreatePlan
  <1>8. ASSUME NEW w \in Worker, CallFails(w) \/ Abandon(w)
        PROVE  TypeOK'
    BY <1>8, FinishType DEF CallFails, Abandon
  <1>9. ASSUME NEW w \in Worker, StartSave(w)
        PROVE  TypeOK'
    <2>1. eng' \in Engagement
      BY <1>9 DEF StartSave, Request, Engagement, Phase
    <2> QED
      BY <1>9, <2>1, FinishType DEF StartSave
  <1>10. ASSUME NEW p \in Plan, WOAdvance(p)
         PROVE  TypeOK'
    <2>1. /\ <<"start_fieldwork">> \in Seq(News) /\ <<"start_reporting">> \in Seq(News)
          /\ <<"complete", "approved">> \in Seq(News)
      BY DEF News, Ending
    <2>2. /\ Append(log, "start_fieldwork") = log \o <<"start_fieldwork">>
          /\ Append(log, "start_reporting") = log \o <<"start_reporting">>
      BY DEF News
    <2>3. log' \in Seq(News) /\ pos \in 0..Len(log')
      BY <1>10, <2>1, <2>2, LogType DEF WOAdvance
    <2>4. wo' \in [Plan -> {"unused"} \union Stage \union Ending]
      BY <1>10 DEF WOAdvance, Stage, Ending
    <2> QED
      BY <1>10, <2>3, <2>4 DEF WOAdvance
  <1>11. ASSUME NEW p \in Plan, NEW d \in {"rejected", "cancelled"}, WOStop(p, d)
         PROVE  TypeOK'
    <2>1. d \in News /\ d \in Ending
      BY DEF News, Ending
    <2>2. log' \in Seq(News) /\ pos \in 0..Len(log')
      BY <1>11, <2>1 DEF WOStop
    <2> QED
      BY <1>11, <2>1, <2>2 DEF WOStop
  <1>12. CASE Consume
    <2>1. eng' \in Engagement
      BY <1>12, PositionType
         DEF Consume, OnEngagementNews, News, Ending, NewEngagement, Engagement, Phase
    <2> QED
      BY <1>12, <2>1, PositionType DEF Consume
  <1>13. CASE Restarts
    BY <1>13 DEF Restarts, CommitOffset, ConsumerRestart
  <1>14. CASE ConsumeFails
    BY <1>14, PositionType DEF ConsumeFails
  <1>15. ASSUME NEW w \in Worker, EditRead(w)
         PROVE  TypeOK'
    <2>1. [Idle EXCEPT !.pc = "editing", !.copy = eng] \in Request
      BY DEF Idle, Request, NoDeclaration, NewEngagement, Declaration
    <2> QED
      BY <1>15, <2>1 DEF EditRead
  <1>16. ASSUME NEW w \in Worker, EditSave(w)
         PROVE  TypeOK'
    <2>1. eng' \in Engagement
      BY <1>16, ConstantsAssumption DEF EditSave, Request, Engagement
    <2> QED
      BY <1>16, <2>1, FinishType DEF EditSave
  <1>17. ASSUME NEW w \in Worker, NEW m \in Member, DeclarationRead(w, m)
         PROVE  TypeOK'
    <2>1. [Idle EXCEPT !.pc = "declaring", !.member = m, !.form = decl[m]] \in Request
      BY DEF Idle, Request, NoDeclaration, NewEngagement, Engagement, Phase
    <2> QED
      BY <1>17, <2>1 DEF DeclarationRead
  <1>18. ASSUME NEW w \in Worker, DeclarationSave(w)
         PROVE  TypeOK'
    <2>1. PICK d \in {web[w].form} \union {Written(web[w].form, b) : b \in Bodies} :
              decl' = [decl EXCEPT ![web[w].member] = d]
      BY <1>18 DEF DeclarationSave
    <2>2. d \in Declaration
      BY <1>18, <2>1, WrittenType DEF Request
    <2>3. decl' \in [Member -> Declaration]
      BY <2>1, <2>2
    <2> QED
      BY <1>18, <2>3, FinishType DEF DeclarationSave
  <1>19. ASSUME NEW S \in SUBSET Member, NEW b \in {Unsigned} \union Bodies, Declare(S, b)
         PROVE  TypeOK'
    <2>1. \A m \in Member : decl[m] \in Declaration /\ Written(decl[m], b) \in Declaration
      BY WrittenType
    <2> QED
      BY <1>19, <2>1 DEF Declare
  <1>20. CASE UNCHANGED vars
    BY <1>20 DEF vars
  <1> QED
    BY <1>1, <1>2, <1>3, <1>4, <1>5, <1>6, <1>7, <1>8, <1>9, <1>10, <1>11, <1>12, <1>13,
       <1>14, <1>15, <1>16, <1>17, <1>18, <1>19, <1>20
       DEF Next, Core, Faults, EngagementEdits, DeclarationEdits, Declaring, Signing, Stamping, StartStep, WOStep

\* The rows, requests and positions keep their types whatever happens.
THEOREM TypeCorrect == Spec => []TypeOK
  BY TypeInit, TypeStep, PTL DEF Spec

---------------------------------------------------------------------------
(* A team that has not signed has started nothing.                         *)

\* The steps of FaultySpec are steps of Spec.
LEMMA FaultyTypeStep == TypeOK /\ [Core \/ Faults \/ EngagementEdits]_vars => TypeOK'
  BY TypeStep DEF Next

\* Nothing of a workflow exists: no request got past the check or holds a
\* copy that did, no plan was created, no event published.
NotStarted ==
    /\ eng.status = "planning"
    /\ \A w \in Worker : web[w].pc \notin {"waiting", "calling", "created"}
    /\ \A w \in Worker : web[w].pc = "editing" => web[w].copy.status = "planning"
    /\ \A p \in Plan : wo[p] = "unused"
    /\ log = <<>>

SignedInv == TypeOK /\ (TeamSigned \/ NotStarted)

\* While declarations are neither added nor edited, a signed team stays
\* signed.
LEMMA SignedStays ==
    ASSUME TypeOK, TeamSigned, [Core \/ Faults \/ EngagementEdits]_vars
    PROVE  TeamSigned'
  <1>1. ASSUME NEW w \in Worker, NEW m \in Member, Sign(w, m)
        PROVE  TeamSigned'
    BY <1>1 DEF Sign, TeamSigned, Declared, TypeOK, Declaration
  <1>2. ASSUME NEW w \in Worker, NEW m \in Member, NEW a \in BOOLEAN, Stamped(w, m, a)
        PROVE  TeamSigned'
    BY <1>2 DEF Stamped, TeamSigned, Declared, TypeOK, Declaration
  <1>3. CASE decl' = decl
    BY <1>3 DEF TeamSigned, Declared
  <1> QED
    BY <1>1, <1>2, <1>3
       DEF Core, Faults, EngagementEdits, Signing, Stamping, StartStep, WOStep, Restarts, StampCheck,
           StartRead, StartCheck, StartLock, CreatePlan, CallFails, StartSave, WOAdvance,
           WOStop, Consume, Abandon, CommitOffset, ConsumerRestart, ConsumeFails, EditRead,
           EditSave, vars

\* A step that starts something finds the team signed.
LEMMA StartNeedsSignatures ==
    ASSUME TypeOK, NotStarted, ~TeamSigned, ClientStatuses \subseteq {"planning"},
           [Core \/ Faults \/ EngagementEdits]_vars
    PROVE  NotStarted'
  <1> USE DEF NotStarted, TypeOK, Idle
  <1>1. ASSUME NEW w \in Worker, NEW m \in Member, Sign(w, m)
        PROVE  NotStarted'
    BY <1>1 DEF Sign
  <1>2. ASSUME NEW w \in Worker, StampCheck(w)
        PROVE  NotStarted'
    BY <1>2 DEF StampCheck
  <1>3. ASSUME NEW w \in Worker, NEW m \in Member, NEW a \in BOOLEAN, Stamped(w, m, a)
        PROVE  NotStarted'
    BY <1>3 DEF Stamped, Request
  <1>4. ASSUME NEW w \in Worker, StartStep(w)
        PROVE  NotStarted'
    <2>1. ~StartLock(w) /\ ~CallFails(w) /\ ~StartSave(w) /\ \A p \in Plan : ~CreatePlan(w, p)
      BY DEF StartLock, CreatePlan, CallFails, StartSave
    <2>2. CASE StartRead(w)
      BY <2>2 DEF StartRead
    <2>3. CASE StartCheck(w)
      BY <2>3 DEF StartCheck
    <2> QED
      BY <1>4, <2>1, <2>2, <2>3 DEF StartStep
  <1>5. ASSUME NEW w \in Worker, Abandon(w)
        PROVE  NotStarted'
    BY <1>5 DEF Abandon, Finish
  <1>6. ASSUME NEW w \in Worker, EditRead(w)
        PROVE  NotStarted'
    BY <1>6 DEF EditRead, NewEngagement
  <1>7. ASSUME NEW w \in Worker, EditSave(w)
        PROVE  NotStarted'
    <2>1. web[w].copy \in Engagement /\ web[w].copy.status = "planning"
      BY <1>7 DEF EditSave, Request
    <2>2. eng'.status = "planning"
      BY <1>7, <2>1 DEF EditSave, Engagement
    <2>3. web' = [web EXCEPT ![w] = Idle] /\ UNCHANGED <<wo, log>>
      BY <1>7 DEF EditSave, Finish
    <2> QED
      BY <2>2, <2>3
  <1>8. CASE UNCHANGED <<eng, web, wo, log>>
    BY <1>8
  <1>9. ~WOStep /\ ~Consume /\ ~ConsumeFails
    BY DEF WOStep, WOAdvance, WOStop, Stage, Consume, ConsumeFails
  <1> QED
    BY <1>1, <1>2, <1>3, <1>4, <1>5, <1>6, <1>7, <1>8, <1>9
       DEF Core, Faults, EngagementEdits, Signing, Stamping, Restarts, CommitOffset,
           ConsumerRestart, vars

\* No engagement gets past planning with an unsigned team - through dead
\* requests, orphaned plans, replayed and lost events and concurrent starts -
\* as long as nobody is added to the team and no declaration is edited, and
\* no body of an engagement moves the status on.
THEOREM FieldworkIsSigned ==
    ASSUME ClientStatuses \subseteq {"planning"}
    PROVE  FaultySpec => []SignedBeforeFieldwork
  <1>1. Init => SignedInv
    BY TypeInit DEF Init, SignedInv, NotStarted, NewEngagement, Idle
  <1>2. SignedInv /\ [Core \/ Faults \/ EngagementEdits]_vars => SignedInv'
    BY FaultyTypeStep, SignedStays, StartNeedsSignatures DEF SignedInv
  <1>3. SignedInv => SignedBeforeFieldwork
    BY DEF SignedInv, NotStarted, SignedBeforeFieldwork
  <1> QED
    BY <1>1, <1>2, <1>3, PTL DEF FaultySpec

---------------------------------------------------------------------------
(* Only WO completes an engagement.                                        *)

SomePlanApproved == \E p \in Plan : wo[p] = "approved"

CompletionInv ==
    /\ TypeOK
    /\ CompletedByWO
    /\ \A i \in 1..Len(log) : log[i] = "approved" => SomePlanApproved
    /\ \A w \in Worker : web[w].pc = "editing" => web[w].copy.status # "completed"

\* Approval is the end of a plan.
LEMMA ApprovedStays ==
    ASSUME TypeOK, [Next]_vars, SomePlanApproved
    PROVE  SomePlanApproved'
  <1>1. ASSUME NEW p \in Plan, WOAdvance(p) \/ WOStop(p, "rejected") \/ WOStop(p, "cancelled")
        PROVE  SomePlanApproved'
    BY <1>1 DEF WOAdvance, WOStop, SomePlanApproved, TypeOK, Stage
  <1>2. ASSUME NEW w \in Worker, NEW p \in Plan, CreatePlan(w, p)
        PROVE  SomePlanApproved'
    BY <1>2 DEF CreatePlan, SomePlanApproved, TypeOK
  <1>3. CASE wo' = wo
    BY <1>3 DEF SomePlanApproved
  <1> QED
    BY <1>1, <1>2, <1>3
       DEF Next, Core, Faults, EngagementEdits, DeclarationEdits, Declaring, Signing, Stamping, StartStep, WOStep,
           Restarts, Sign, StampCheck, Stamped, StartRead, StartCheck, StartLock, CallFails,
           StartSave, Consume, Abandon, CommitOffset, ConsumerRestart, ConsumeFails,
           EditRead, EditSave, DeclarationRead, DeclarationSave, Declare, vars

\* The event "approved" is published with the approval.
LEMMA LogStep ==
    ASSUME CompletionInv, [Next]_vars
    PROVE  \A i \in 1..Len(log') : log'[i] = "approved" => SomePlanApproved'
  <1>t. TypeOK
    BY DEF CompletionInv
  <1>1. ASSUME NEW i \in 1..Len(log), log[i] = "approved"
        PROVE  SomePlanApproved'
    BY <1>1, <1>t, ApprovedStays DEF CompletionInv
  <1>2. ASSUME NEW p \in Plan, WOAdvance(p)
        PROVE  \A i \in 1..Len(log') : log'[i] = "approved" => SomePlanApproved'
    <2>1. CASE wo[p] = "reporting"
      BY <2>1, <1>2, <1>t DEF WOAdvance, SomePlanApproved, TypeOK
    <2>2. CASE wo[p] # "reporting"
      <3>1. PICK n \in {"start_fieldwork", "start_reporting"} : log' = Append(log, n)
        BY <2>2, <1>2 DEF WOAdvance
      <3>2. ASSUME NEW i \in 1..Len(log'), log'[i] = "approved"
            PROVE  i \in 1..Len(log) /\ log[i] = "approved"
        BY <3>1, <3>2, <1>t DEF TypeOK
      <3> QED
        BY <3>2, <1>1
    <2> QED
      BY <2>1, <2>2
  <1>3. ASSUME NEW p \in Plan, NEW d \in {"rejected", "cancelled"}, WOStop(p, d)
        PROVE  \A i \in 1..Len(log') : log'[i] = "approved" => SomePlanApproved'
    <2>1. ASSUME NEW i \in 1..Len(log'), log'[i] = "approved"
          PROVE  i \in 1..Len(log) /\ log[i] = "approved"
      BY <2>1, <1>3, <1>t DEF WOStop, TypeOK
    <2> QED
      BY <2>1, <1>1
  <1>4. CASE log' = log
    BY <1>4, <1>1
  <1> QED
    BY <1>2, <1>3, <1>4
       DEF Next, Core, Faults, EngagementEdits, DeclarationEdits, Declaring, Signing, Stamping, StartStep, WOStep,
           Restarts, Sign, StampCheck, Stamped, StartRead, StartCheck, StartLock, CreatePlan,
           CallFails, StartSave, Consume, Abandon, CommitOffset, ConsumerRestart,
           ConsumeFails, EditRead, EditSave, DeclarationRead, DeclarationSave, Declare, vars

\* A copy that an edit holds is not of a completed engagement.
LEMMA CopyStep ==
    ASSUME CompletionInv, [Next]_vars, NEW w \in Worker, web'[w].pc = "editing"
    PROVE  web'[w].copy.status # "completed"
  <1> USE DEF CompletionInv, TypeOK
  <1>1. web'[w] = web[w] \/ (web'[w].copy = eng /\ eng.status # "completed")
    <2>1. ASSUME NEW v \in Worker, EditRead(v)
          PROVE  web'[w] = web[w] \/ (web'[w].copy = eng /\ eng.status # "completed")
      BY <2>1 DEF EditRead, Idle
    <2>2. ASSUME NEW v \in Worker, web'[v].pc # "editing", \A u \in Worker \ {v} : web'[u] = web[u]
          PROVE  web'[w] = web[w]
      BY <2>2
    <2>3. ASSUME NEW v \in Worker, NEW m \in Member, NEW a \in BOOLEAN, Stamped(v, m, a)
          PROVE  web'[v].pc # "editing" /\ \A u \in Worker \ {v} : web'[u] = web[u]
      BY <2>3 DEF Stamped, Request, Idle
    <2>4. ASSUME NEW v \in Worker, NEW m \in Member, Sign(v, m) \/ DeclarationRead(v, m)
          PROVE  web'[v].pc # "editing" /\ \A u \in Worker \ {v} : web'[u] = web[u]
      <3>1. CASE Sign(v, m)
        BY <3>1 DEF Sign, Request
      <3>2. CASE DeclarationRead(v, m)
        BY <3>2 DEF DeclarationRead, Idle
      <3> QED
        BY <2>4, <3>1, <3>2
    <2>5. ASSUME NEW v \in Worker, StampCheck(v) \/ StartStep(v)
          PROVE  web'[v].pc # "editing" /\ \A u \in Worker \ {v} : web'[u] = web[u]
      <3>1. CASE StampCheck(v)
        BY <3>1 DEF StampCheck, Request, Idle
      <3>2. CASE StartRead(v) \/ StartCheck(v)
        BY <3>2 DEF StartRead, StartCheck, Request, Idle
      <3>3. CASE StartLock(v) /\ eng.plan = None
        BY <3>3 DEF StartLock, Request
      <3>4. CASE (StartLock(v) /\ eng.plan # None) \/ CallFails(v) \/ StartSave(v)
        BY <3>4 DEF StartLock, CallFails, StartSave, Finish, Idle
      <3>5. ASSUME NEW p \in Plan, CreatePlan(v, p)
            PROVE  web'[v].pc # "editing" /\ \A u \in Worker \ {v} : web'[u] = web[u]
        BY <3>5 DEF CreatePlan, Request
      <3> QED
        BY <2>5, <3>1, <3>2, <3>3, <3>4, <3>5 DEF StartStep
    <2>6. ASSUME NEW v \in Worker, Abandon(v) \/ EditSave(v) \/ DeclarationSave(v)
          PROVE  web'[v].pc # "editing" /\ \A u \in Worker \ {v} : web'[u] = web[u]
      BY <2>6 DEF Abandon, EditSave, DeclarationSave, Finish, Idle
    <2>7. CASE web' = web
      BY <2>7
    <2> QED
      BY <2>1, <2>2, <2>3, <2>4, <2>5, <2>6, <2>7
         DEF Next, Core, Faults, EngagementEdits, DeclarationEdits, Declaring, Signing, Stamping, WOStep, WOAdvance, WOStop,
             Restarts, Consume, CommitOffset, ConsumerRestart, ConsumeFails, Declare, vars
  <1> QED
    BY <1>1

\* The row is completed by an event or by a copy or body that says so.
LEMMA CompletionStep ==
    ASSUME CompletionInv, [Next]_vars, "completed" \notin ClientStatuses
    PROVE  CompletedByWO'
  <1> SUFFICES ASSUME eng'.status = "completed" PROVE SomePlanApproved'
    BY DEF CompletedByWO, SomePlanApproved
  <1>t. TypeOK
    BY DEF CompletionInv
  <1>1. CASE Consume
    <2>1. log[pos + 1] \in News /\ pos + 1 \in 1..Len(log)
      BY <1>1, <1>t, PositionType DEF Consume, TypeOK
    <2>2. log[pos + 1] = "approved" \/ eng.status = "completed"
      BY <1>1, <2>1, <1>t
         DEF Consume, OnEngagementNews, NewEngagement, News, Ending, TypeOK, Engagement
    <2>3. SomePlanApproved
      BY <2>1, <2>2 DEF CompletionInv, CompletedByWO, SomePlanApproved
    <2> QED
      BY <2>3, <1>t, ApprovedStays
  <1>2. ASSUME NEW w \in Worker, StartSave(w)
        PROVE  SomePlanApproved'
    BY <1>2 DEF StartSave
  <1>3. ASSUME NEW w \in Worker, EditSave(w)
        PROVE  SomePlanApproved'
    <2>1. web[w].copy \in Engagement /\ web[w].copy.status # "completed"
      BY <1>3 DEF EditSave, CompletionInv, TypeOK, Request
    <2> QED
      BY <1>3, <2>1 DEF EditSave, Engagement
  <1>4. CASE eng' = eng
    BY <1>4, <1>t, ApprovedStays DEF CompletionInv, CompletedByWO, SomePlanApproved
  <1> QED
    BY <1>1, <1>2, <1>3, <1>4
       DEF Next, Core, Faults, EngagementEdits, DeclarationEdits, Declaring, Signing, Stamping, StartStep, WOStep,
           Restarts, Sign, StampCheck, Stamped, StartRead, StartCheck, StartLock, CreatePlan,
           CallFails, WOAdvance, WOStop, Abandon, CommitOffset, ConsumerRestart,
           ConsumeFails, EditRead, DeclarationRead, DeclarationSave, Declare, vars

\* When no request body says "completed", a completed engagement has a plan
\* that WO approved - in the full model, stale saves and replays included.
THEOREM CompletionIsWO ==
    ASSUME "completed" \notin ClientStatuses
    PROVE  Spec => []CompletedByWO
  <1>1. Init => CompletionInv
    BY TypeInit DEF Init, CompletionInv, CompletedByWO, NewEngagement, Idle
  <1>2. CompletionInv /\ [Next]_vars => CompletionInv'
    <2> SUFFICES ASSUME CompletionInv, [Next]_vars PROVE CompletionInv'
      OBVIOUS
    <2>1. TypeOK'
      BY TypeStep DEF CompletionInv
    <2>2. CompletedByWO'
      BY CompletionStep
    <2> QED
      BY <2>1, <2>2, LogStep, CopyStep DEF CompletionInv
  <1>3. CompletionInv => CompletedByWO
    BY DEF CompletionInv
  <1> QED
    BY <1>1, <1>2, <1>3, PTL DEF Spec

---------------------------------------------------------------------------
(* A running engagement has its plan on record.                            *)

ReliableNext == Core \/ Declaring \/ DeclarationEdits

\* Something of a workflow is under way: WO runs a plan, or an event waits
\* for the consumer.
UnderWay == pos < Len(log) \/ \E p \in Plan : wo[p] \in Stage

\* One plan at a time, its last event the last of the topic ...
OnePlan ==
    /\ \A p, q \in Plan : wo[p] \in Stage /\ wo[q] \in Stage => p = q
    /\ \A i \in (pos + 1)..Len(log) : log[i] \in Ending =>
          i = Len(log) /\ \A p \in Plan : wo[p] \notin Stage

\* ... whoever calls WO holds the row, which has no plan ...
CallerHolds ==
    \A w \in Worker : web[w].pc \in {"calling", "created"} => lock = w /\ eng.plan = None

\* ... and a workflow under way is on the row or in the hands of a caller.
CallerKnows == \A w \in Worker : web[w].pc = "created" => UnderWay /\ web[w].plan \in Plan
PlanIsKnown == UnderWay => eng.plan # None \/ \E w \in Worker : web[w].pc = "created"

RecordInv ==
    TypeOK /\ OnePlan /\ CallerHolds /\ CallerKnows /\ PlanIsKnown /\ RunningPlanOnRecord

\* A step that has nothing to do with the workflow.
LEMMA AsideKeepsRecord ==
    ASSUME RecordInv, TypeOK', UNCHANGED <<eng, wo, log, pos>>,
           \A w \in Worker :
              \/ web'[w] = web[w] /\ (lock = w => lock' = w)
              \/ web[w].pc \notin {"calling", "created"} /\ web'[w].pc \notin {"calling", "created"}
    PROVE  RecordInv'
  <1>1. UnderWay' <=> UnderWay
    BY DEF UnderWay
  <1>2. \A w \in Worker : web'[w].pc \in {"calling", "created"} => web'[w] = web[w]
    OBVIOUS
  <1>3. OnePlan' /\ RunningPlanOnRecord'
    BY DEF RecordInv, OnePlan, RunningPlanOnRecord
  <1>4. CallerHolds'
    BY <1>2 DEF RecordInv, CallerHolds
  <1>5. CallerKnows'
    BY <1>1, <1>2 DEF RecordInv, CallerKnows
  <1>6. PlanIsKnown'
    BY <1>1 DEF RecordInv, PlanIsKnown
  <1> QED
    BY <1>3, <1>4, <1>5, <1>6 DEF RecordInv

LEMMA RecordStep == RecordInv /\ [ReliableNext]_vars => RecordInv'
  <1> SUFFICES ASSUME RecordInv, [ReliableNext]_vars PROVE RecordInv'
    OBVIOUS
  <1>t. /\ TypeOK /\ TypeOK' /\ web \in [Worker -> Request] /\ None \notin Worker \union Plan
        /\ log \in Seq(News) /\ pos \in 0..Len(log) /\ Len(log) \in Nat
        /\ wo \in [Plan -> {"unused"} \union Stage \union Ending]
    BY TypeStep, ConstantsAssumption DEF RecordInv, ReliableNext, Next, TypeOK
  <1>i. OnePlan /\ CallerHolds /\ CallerKnows /\ PlanIsKnown /\ RunningPlanOnRecord
    BY DEF RecordInv
  \* Requests that do not call WO.
  <1>1. ASSUME NEW w \in Worker, UNCHANGED <<eng, wo, log, pos>>,
               web[w].pc \notin {"calling", "created"},
               web'[w].pc \notin {"calling", "created"},
               \A v \in Worker \ {w} : web'[v] = web[v] /\ (lock = v => lock' = v)
        PROVE  RecordInv'
    BY <1>1, <1>t, AsideKeepsRecord
  <1>2. ASSUME NEW w \in Worker, NEW m \in Member, Sign(w, m) PROVE RecordInv'
    BY <1>1, <1>2, <1>t DEF Sign, Request
  <1>3. ASSUME NEW w \in Worker, NEW m \in Member, NEW a \in BOOLEAN, Stamped(w, m, a)
        PROVE  RecordInv'
    <2>1. web'[w].pc \in {"idle", "stamping"} /\ \A v \in Worker \ {w} : web'[v] = web[v]
      <3>1. [web[w] EXCEPT !.todo = @ \ {m}].pc = "stamping"
        BY <1>3, <1>t DEF Stamped, Request
      <3> QED
        BY <1>3, <1>t, <3>1 DEF Stamped, Idle
    <2> QED
      BY <1>1, <1>3, <2>1 DEF Stamped
  <1>4. ASSUME NEW w \in Worker, StampCheck(w) \/ StartRead(w) \/ StartCheck(w)
        PROVE  RecordInv'
    <2>1. /\ web[w].pc \notin {"calling", "created"} /\ web'[w].pc \notin {"calling", "created"}
          /\ \A v \in Worker \ {w} : web'[v] = web[v]
      BY <1>4, <1>t DEF StampCheck, StartRead, StartCheck, Idle, Request
    <2>2. UNCHANGED <<eng, wo, log, pos>> /\ lock' = lock
      BY <1>4 DEF StampCheck, StartRead, StartCheck
    <2> QED
      BY <1>1, <2>1, <2>2
  <1>5. ASSUME NEW w \in Worker, DeclarationSave(w) \/ \E m \in Member : DeclarationRead(w, m)
        PROVE  RecordInv'
    <2>1. /\ web[w].pc \notin {"calling", "created"} /\ web'[w].pc \notin {"calling", "created"}
          /\ \A v \in Worker \ {w} : web'[v] = web[v] /\ (lock = v => lock' = v)
      <3>1. CASE DeclarationSave(w)
        BY <3>1, <1>t DEF DeclarationSave, Finish, Idle
      <3>2. CASE \E m \in Member : DeclarationRead(w, m)
        <4>1. PICK m \in Member : DeclarationRead(w, m)
          BY <3>2
        <4>2. [Idle EXCEPT !.pc = "declaring", !.member = m, !.form = decl[m]].pc = "declaring"
          BY DEF Idle
        <4> QED
          BY <4>1, <4>2, <1>t DEF DeclarationRead
      <3> QED
        BY <1>5, <3>1, <3>2
    <2>2. UNCHANGED <<eng, wo, log, pos>>
      BY <1>5 DEF DeclarationSave, DeclarationRead
    <2> QED
      BY <1>1, <2>1, <2>2
  <1>6. ASSUME UNCHANGED <<eng, wo, log, pos>>, web' = web, lock' = lock PROVE RecordInv'
    BY <1>6, <1>t, AsideKeepsRecord
  <1>7. ASSUME NEW w \in Worker, StartLock(w) PROVE RecordInv'
    <2>1. CASE eng.plan # None
      <3>1. /\ web[w].pc = "waiting" /\ web'[w].pc = "idle"
            /\ \A v \in Worker \ {w} : web'[v] = web[v] /\ (lock = v => lock' = v)
        BY <1>7, <1>t, <2>1 DEF StartLock, Finish, Idle
      <3>2. UNCHANGED <<eng, wo, log, pos>>
        BY <1>7 DEF StartLock
      <3> QED
        BY <1>1, <3>1, <3>2
    <2>2. CASE eng.plan = None
      <3>1. /\ web[w].pc = "waiting" /\ web'[w].pc = "calling" /\ lock = None /\ lock' = w
            /\ \A v \in Worker \ {w} : web'[v] = web[v]
            /\ UNCHANGED <<eng, wo, log, pos>>
        BY <1>7, <1>t, <2>2 DEF StartLock, Request
      <3>2. \A v \in Worker : web[v].pc \notin {"calling", "created"}
        BY <1>t, <1>i, <3>1 DEF CallerHolds
      <3>3. UnderWay' <=> UnderWay
        BY <3>1 DEF UnderWay
      <3>4. OnePlan' /\ RunningPlanOnRecord'
        BY <3>1, <1>i DEF OnePlan, RunningPlanOnRecord
      <3>5. CallerHolds' /\ CallerKnows' /\ PlanIsKnown'
        BY <2>2, <3>1, <3>2, <3>3, <1>i DEF CallerHolds, CallerKnows, PlanIsKnown
      <3> QED
        BY <1>t, <3>4, <3>5 DEF RecordInv
    <2> QED
      BY <2>1, <2>2
  \* A plan is created only when nothing is under way.
  <1>8. ASSUME NEW w \in Worker, NEW p \in Plan, CreatePlan(w, p) PROVE RecordInv'
    <2>1. /\ web[w].pc = "calling" /\ web'[w].pc = "created" /\ web'[w].plan = p
          /\ wo'[p] \in Stage /\ \A q \in Plan \ {p} : wo'[q] = wo[q]
          /\ \A v \in Worker \ {w} : web'[v] = web[v]
          /\ UNCHANGED <<eng, lock, log, pos>>
      BY <1>8, <1>t DEF CreatePlan, Request, Stage
    <2>2. lock = w /\ eng.plan = None
      BY <1>i, <2>1 DEF CallerHolds
    <2>3. \A v \in Worker : web[v].pc # "created"
      BY <1>i, <2>1, <2>2 DEF CallerHolds
    <2>4. ~UnderWay
      BY <1>i, <2>2, <2>3 DEF PlanIsKnown
    <2>5. pos = Len(log) /\ \A q \in Plan : wo[q] \notin Stage
      BY <1>t, <2>4 DEF UnderWay
    <2>6. OnePlan'
      BY <1>t, <2>1, <2>5 DEF OnePlan
    <2>7. UnderWay'
      BY <2>1 DEF UnderWay
    <2>8. CallerHolds' /\ CallerKnows' /\ PlanIsKnown' /\ RunningPlanOnRecord'
      BY <1>i, <2>1, <2>2, <2>3, <2>7
         DEF CallerHolds, CallerKnows, PlanIsKnown, RunningPlanOnRecord
    <2> QED
      BY <1>t, <2>6, <2>8 DEF RecordInv
  <1>9. ASSUME NEW w \in Worker, CallFails(w) PROVE RecordInv'
    <2>1. /\ web[w].pc = "calling" /\ web'[w].pc = "idle"
          /\ \A v \in Worker \ {w} : web'[v] = web[v] /\ (lock = v => lock' = v)
          /\ UNCHANGED <<eng, wo, log, pos>>
      BY <1>9, <1>t DEF CallFails, Finish, Idle
    <2>2. UnderWay' <=> UnderWay
      BY <2>1 DEF UnderWay
    <2>3. OnePlan' /\ RunningPlanOnRecord'
      BY <1>i, <2>1 DEF OnePlan, RunningPlanOnRecord
    <2>4. CallerHolds' /\ CallerKnows' /\ PlanIsKnown'
      BY <1>i, <2>1, <2>2 DEF CallerHolds, CallerKnows, PlanIsKnown
    <2> QED
      BY <1>t, <2>3, <2>4 DEF RecordInv
  <1>10. ASSUME NEW w \in Worker, StartSave(w) PROVE RecordInv'
    <2>1. /\ web[w].pc = "created" /\ web'[w].pc = "idle" /\ eng'.plan = web[w].plan
          /\ \A v \in Worker \ {w} : web'[v] = web[v]
          /\ UNCHANGED <<wo, log, pos>>
      BY <1>10, <1>t DEF StartSave, Finish, Idle
    <2>2. eng'.plan # None
      BY <1>t, <1>i, <2>1 DEF CallerKnows
    <2>3. \A v \in Worker \ {w} : web[v].pc \notin {"calling", "created"}
      BY <1>i, <2>1 DEF CallerHolds
    <2>4. OnePlan' /\ RunningPlanOnRecord'
      BY <1>i, <2>1, <2>2 DEF OnePlan, RunningPlanOnRecord
    <2>5. CallerHolds' /\ CallerKnows' /\ PlanIsKnown'
      BY <2>1, <2>2, <2>3 DEF CallerHolds, CallerKnows, PlanIsKnown
    <2> QED
      BY <1>t, <2>4, <2>5 DEF RecordInv
  \* WO goes on: only the last stage's end is the plan's.
  <1>11. ASSUME NEW p \in Plan, WOAdvance(p) PROVE RecordInv'
    <2>1. /\ wo[p] \in Stage /\ \A q \in Plan \ {p} : wo'[q] = wo[q] /\ wo[q] \notin Stage
          /\ UNCHANGED <<eng, lock, web, pos>>
      BY <1>11, <1>t, <1>i DEF WOAdvance, Stage, OnePlan
    <2>2. \A i \in (pos + 1)..Len(log) : log[i] \notin Ending
      BY <1>i, <2>1 DEF OnePlan
    <2>3. /\ Len(log') > Len(log) /\ \A i \in 1..Len(log) : log'[i] = log[i]
          /\ \A i \in (Len(log) + 1)..Len(log') : log'[i] \in Ending =>
                i = Len(log') /\ wo'[p] \notin Stage
      <3>1. CASE wo[p] = "reporting"
        BY <1>11, <1>t, <3>1 DEF WOAdvance, Ending, Stage
      <3>2. CASE wo[p] # "reporting"
        <4>1. PICK n \in {"start_fieldwork", "start_reporting"} : log' = Append(log, n)
          BY <1>11, <3>2 DEF WOAdvance
        <4> QED
          BY <1>t, <4>1 DEF Ending
      <3> QED
        BY <3>1, <3>2
    <2>4. OnePlan'
      <3>1. Len(log') \in Nat /\ pos \in Nat
        BY <1>t DEF TypeOK
      <3>2. ASSUME NEW i \in (pos + 1)..Len(log'), log'[i] \in Ending
            PROVE  i = Len(log') /\ \A q \in Plan : wo'[q] \notin Stage
        <4>1. CASE i <= Len(log)
          <5>1. i \in (pos + 1)..Len(log) /\ log'[i] = log[i]
            BY <1>t, <2>3, <3>1, <4>1
          <5> QED
            BY <2>2, <3>2, <5>1
        <4>2. CASE i > Len(log)
          <5>1. i \in (Len(log) + 1)..Len(log')
            BY <1>t, <3>1, <4>2
          <5> QED
            BY <2>1, <2>3, <3>2, <5>1
        <4> QED
          BY <1>t, <3>1, <4>1, <4>2
      <3>3. \A q, r \in Plan : wo'[q] \in Stage /\ wo'[r] \in Stage => q = r
        BY <2>1
      <3> QED
        BY <2>1, <3>2, <3>3 DEF OnePlan
    <2>5. UnderWay /\ UnderWay'
      BY <1>t, <2>1, <2>3 DEF UnderWay
    <2>6. CallerHolds' /\ CallerKnows' /\ PlanIsKnown' /\ RunningPlanOnRecord'
      BY <1>i, <2>1, <2>5 DEF CallerHolds, CallerKnows, PlanIsKnown, RunningPlanOnRecord
    <2> QED
      BY <1>t, <2>4, <2>6 DEF RecordInv
  <1>12. ASSUME NEW p \in Plan, NEW d \in {"rejected", "cancelled"}, WOStop(p, d)
         PROVE  RecordInv'
    <2>1. /\ wo[p] \in Stage /\ wo'[p] \notin Stage
          /\ \A q \in Plan \ {p} : wo'[q] = wo[q] /\ wo[q] \notin Stage
          /\ UNCHANGED <<eng, lock, web, pos>>
      BY <1>12, <1>t, <1>i DEF WOStop, Stage, OnePlan
    <2>2. \A i \in (pos + 1)..Len(log) : log[i] \notin Ending
      BY <1>i, <2>1 DEF OnePlan
    <2>3. Len(log') = Len(log) + 1 /\ \A i \in 1..Len(log) : log'[i] = log[i]
      BY <1>12, <1>t DEF WOStop
    <2>4. OnePlan'
      <3>1. \A q \in Plan : wo'[q] \notin Stage
        BY <2>1
      <3>2. \A i \in (pos + 1)..Len(log') : log'[i] \in Ending => i = Len(log')
        BY <1>t, <2>2, <2>3
      <3> QED
        BY <2>1, <3>1, <3>2 DEF OnePlan
    <2>5. UnderWay /\ UnderWay'
      BY <1>t, <2>1, <2>3 DEF UnderWay
    <2>6. CallerHolds' /\ CallerKnows' /\ PlanIsKnown' /\ RunningPlanOnRecord'
      BY <1>i, <2>1, <2>5 DEF CallerHolds, CallerKnows, PlanIsKnown, RunningPlanOnRecord
    <2> QED
      BY <1>t, <2>4, <2>6 DEF RecordInv
  \* The plan leaves the row with the last event only.
  <1>13. CASE Consume
    <2> PICK n \in News : n = log[pos + 1]
      BY <1>13, <1>t DEF Consume
    <2>1. /\ pos < Len(log) /\ lock = None /\ pos' = pos + 1
          /\ eng' = OnEngagementNews(eng, n)
          /\ UNCHANGED <<lock, web, wo, log>>
      BY <1>13 DEF Consume
    <2>2. \A w \in Worker : web[w].pc \notin {"calling", "created"}
      BY <1>t, <1>i, <2>1 DEF CallerHolds
    <2>3. UnderWay /\ eng.plan # None
      BY <1>i, <2>1, <2>2 DEF UnderWay, PlanIsKnown
    <2>4. OnePlan'
      <3>1. (pos' + 1)..Len(log) \subseteq (pos + 1)..Len(log)
        BY <1>t, <2>1
      <3> QED
        BY <1>i, <2>1, <3>1 DEF OnePlan
    <2>5. CASE n \in {"rejected", "cancelled"}
      <3>1. pos + 1 = Len(log) /\ \A p \in Plan : wo[p] \notin Stage
        BY <1>t, <1>i, <2>1, <2>5 DEF OnePlan, Ending
      <3>2. ~UnderWay'
        BY <2>1, <3>1 DEF UnderWay
      <3>3. eng' = NewEngagement
        BY <2>1, <2>5 DEF OnEngagementNews, Ending
      <3>4. CallerHolds' /\ CallerKnows' /\ PlanIsKnown' /\ RunningPlanOnRecord'
        BY <2>1, <2>2, <3>2, <3>3
           DEF CallerHolds, CallerKnows, PlanIsKnown, RunningPlanOnRecord, NewEngagement
      <3> QED
        BY <1>t, <2>4, <3>4 DEF RecordInv
    <2>6. CASE n \notin {"rejected", "cancelled"}
      <3>1. eng'.plan = eng.plan
        <4>1. eng \in Engagement
          BY <1>t DEF TypeOK
        <4>2. n \in {"start_fieldwork", "start_reporting", "complete", "approved"}
          BY <2>6 DEF News, Ending
        <4> QED
          BY <2>1, <4>1, <4>2 DEF OnEngagementNews, Engagement
      <3>2. CallerHolds' /\ CallerKnows' /\ PlanIsKnown' /\ RunningPlanOnRecord'
        BY <2>1, <2>2, <2>3, <3>1
           DEF CallerHolds, CallerKnows, PlanIsKnown, RunningPlanOnRecord
      <3> QED
        BY <1>t, <2>4, <3>2 DEF RecordInv
    <2> QED
      BY <2>5, <2>6
  <1>14. CASE Declaring
    BY <1>6, <1>14 DEF Declaring, Declare
  <1>15. CASE UNCHANGED vars
    BY <1>6, <1>15 DEF vars
  <1> QED
    BY <1>2, <1>3, <1>4, <1>5, <1>7, <1>8, <1>9, <1>10, <1>11, <1>12, <1>13, <1>14, <1>15
       DEF ReliableNext, Core, Signing, Stamping, StartStep, WOStep, DeclarationEdits

LEMMA RecordInit == Init => RecordInv
  <1> SUFFICES ASSUME Init PROVE RecordInv
    OBVIOUS
  <1>1. /\ \A w \in Worker : web[w].pc = "idle"
        /\ \A p \in Plan : wo[p] = "unused"
        /\ eng.status = "planning" /\ Len(log) = 0 /\ pos = 0
    BY DEF Init, Idle, NewEngagement
  <1>2. ~UnderWay
    BY <1>1 DEF UnderWay, Stage
  <1> QED
    BY <1>1, <1>2, TypeInit
       DEF RecordInv, OnePlan, CallerHolds, CallerKnows, PlanIsKnown, RunningPlanOnRecord, Stage

\* An engagement that has left planning shows its plan: start_workflow()
\* holds the row while it calls WO, the consumer waits for the row, and a
\* plan is taken off with its last event only (ReliableSpec: nothing fails).
THEOREM PlanIsOnRecord == ReliableSpec => []RunningPlanOnRecord
  <1>1. RecordInv => RunningPlanOnRecord
    BY DEF RecordInv
  <1> QED
    BY <1>1, RecordInit, RecordStep, PTL DEF ReliableSpec, ReliableNext

---------------------------------------------------------------------------
(* The phases come in the contract's order.                                *)

\* The events between the consumer and WO, in the order that WO's stages
\* give them ...
Pending == (pos + 1)..Len(log)

NewsInOrder ==
    \A i \in Pending :
        /\ log[i] = "start_fieldwork" => i = pos + 1 /\ eng.status # "reporting"
        /\ log[i] = "start_reporting" =>
               /\ eng.status # "reporting"
               /\ \A j \in Pending : log[j] = "start_reporting" => j = i
        /\ log[i] = "approved" =>
               \/ eng.status = "reporting"
               \/ \E j \in Pending : j < i /\ log[j] = "start_reporting"

\* ... and what they make of the row in the end is where WO is.
StageFollowed ==
    \A p \in Plan :
        /\ wo[p] = "planning" => pos = Len(log) /\ eng.status # "reporting"
        /\ wo[p] = "fieldwork" =>
               eng.status # "reporting" /\ \A j \in Pending : log[j] # "start_reporting"
        /\ wo[p] = "reporting" =>
               eng.status = "reporting" \/ \E j \in Pending : log[j] = "start_reporting"

PlanMeansStarted == eng.plan # None => eng.status # "planning"
CompletedIsOver == eng.status = "completed" => ~UnderWay

PhaseInv == RecordInv /\ PlanMeansStarted /\ CompletedIsOver /\ NewsInOrder /\ StageFollowed

\* The steps that WO's stages, the topic and the row have no part in.
LEMMA AsideKeepsPhase ==
    ASSUME PhaseInv, RecordInv', UNCHANGED <<eng, wo, log, pos>>
    PROVE  PhaseInv'
  BY DEF PhaseInv, PlanMeansStarted, CompletedIsOver, UnderWay, NewsInOrder, StageFollowed, Pending

\* Only the end of a start, WO and the consumer have.
LEMMA OthersAreAside ==
    ASSUME [ReliableNext]_vars, ~Consume, ~WOStep,
           \A w \in Worker : ~StartSave(w) /\ \A p \in Plan : ~CreatePlan(w, p)
    PROVE  UNCHANGED <<eng, wo, log, pos>>
  <1>1. CASE Signing
    BY <1>1 DEF Signing, Sign, Stamped
  <1>2. CASE Stamping
    BY <1>2 DEF Stamping, StampCheck
  <1>3. ASSUME NEW w \in Worker, StartStep(w) PROVE UNCHANGED <<eng, wo, log, pos>>
    BY <1>3 DEF StartStep, StartRead, StartCheck, StartLock, CallFails
  <1>4. CASE Declaring
    BY <1>4 DEF Declaring, Declare
  <1>5. CASE DeclarationEdits
    BY <1>5 DEF DeclarationEdits, DeclarationRead, DeclarationSave
  <1>6. CASE UNCHANGED vars
    BY <1>6 DEF vars
  <1> QED
    BY <1>1, <1>2, <1>3, <1>4, <1>5, <1>6 DEF ReliableNext, Core

\* A start is saved over an engagement in planning ...
LEMMA StartSaveKeepsPhase ==
    ASSUME PhaseInv, RecordInv', NEW w \in Worker, StartSave(w)
    PROVE  PhaseInv' /\ eng.status = "planning" /\ eng'.status = "fieldwork"
  <1>1. /\ eng' = [status |-> "fieldwork", plan |-> web[w].plan] /\ web[w].pc = "created"
        /\ UNCHANGED <<wo, log, pos>>
    BY DEF StartSave
  <1>2. eng.status = "planning"
    BY <1>1 DEF PhaseInv, RecordInv, CallerHolds, RunningPlanOnRecord
  <1>3. eng'.status = "fieldwork"
    BY <1>1
  <1>4. PlanMeansStarted' /\ CompletedIsOver'
    BY <1>3 DEF PlanMeansStarted, CompletedIsOver
  <1>5. NewsInOrder'
    BY <1>1, <1>2, <1>3 DEF PhaseInv, NewsInOrder, Pending
  <1>6. StageFollowed'
    BY <1>1, <1>2, <1>3 DEF PhaseInv, StageFollowed, Pending
  <1> QED
    BY <1>2, <1>3, <1>4, <1>5, <1>6 DEF PhaseInv

\* ... and a plan is created when no event is left of another.
LEMMA CreatePlanKeepsPhase ==
    ASSUME PhaseInv, RecordInv', NEW w \in Worker, NEW p \in Plan, CreatePlan(w, p)
    PROVE  PhaseInv'
  <1>1. /\ web[w].pc = "calling" /\ UNCHANGED <<eng, log, pos>>
        /\ wo' = [wo EXCEPT ![p] = "planning"]
    BY DEF CreatePlan
  <1>2. eng.plan = None /\ lock = w
    BY <1>1 DEF PhaseInv, RecordInv, CallerHolds
  <1>3. eng.status = "planning"
    BY <1>2 DEF PhaseInv, RecordInv, RunningPlanOnRecord
  <1>4. ~UnderWay
    BY <1>1, <1>2 DEF PhaseInv, RecordInv, CallerHolds, PlanIsKnown
  <1>5. pos = Len(log)
    BY <1>4 DEF UnderWay, PhaseInv, RecordInv, TypeOK
  <1>6. \A q \in Plan : wo[q] \notin Stage
    BY <1>4 DEF UnderWay
  <1>7. \A q \in Plan : wo'[q] # "fieldwork" /\ wo'[q] # "reporting"
    BY <1>1, <1>6 DEF Stage, PhaseInv, RecordInv, TypeOK
  <1>8. StageFollowed'
    BY <1>1, <1>3, <1>5, <1>7 DEF StageFollowed
  <1>9. NewsInOrder' /\ PlanMeansStarted' /\ CompletedIsOver'
    BY <1>1, <1>3 DEF PhaseInv, NewsInOrder, Pending, PlanMeansStarted, CompletedIsOver
  <1> QED
    BY <1>8, <1>9 DEF PhaseInv

\* WO's only running plan goes on or stops.
LEMMA WOKeepsPhase ==
    ASSUME PhaseInv, RecordInv', NEW p \in Plan,
           WOAdvance(p) \/ \E d \in {"rejected", "cancelled"} : WOStop(p, d)
    PROVE  PhaseInv' /\ eng' = eng
  <1>t. /\ log \in Seq(News) /\ Len(log) \in Nat /\ pos \in 0..Len(log)
        /\ wo \in [Plan -> {"unused"} \union Stage \union Ending]
    BY DEF PhaseInv, RecordInv, TypeOK
  <1>1. /\ wo[p] \in Stage /\ \A q \in Plan \ {p} : wo'[q] = wo[q] /\ wo[q] \notin Stage
        /\ UNCHANGED <<eng, pos>>
    BY <1>t DEF WOAdvance, WOStop, Stage, PhaseInv, RecordInv, OnePlan
  <1>2. UnderWay
    BY <1>1 DEF UnderWay
  <1>3. PlanMeansStarted' /\ CompletedIsOver'
    BY <1>1, <1>2 DEF PhaseInv, PlanMeansStarted, CompletedIsOver
  <1>n. NewsInOrder
    BY DEF PhaseInv
  <1>s. /\ wo[p] = "planning" => pos = Len(log) /\ eng.status # "reporting"
        /\ wo[p] = "fieldwork" =>
               eng.status # "reporting" /\ \A j \in Pending : log[j] # "start_reporting"
        /\ wo[p] = "reporting" =>
               eng.status = "reporting" \/ \E j \in Pending : log[j] = "start_reporting"
    BY DEF PhaseInv, StageFollowed
  <1>4. ASSUME NEW n \in {"start_fieldwork", "start_reporting", "rejected", "cancelled"},
               log' = Append(log, n),
               n = "start_fieldwork" => pos = Len(log) /\ eng.status # "reporting",
               n = "start_reporting" =>
                   eng.status # "reporting" /\ \A j \in Pending : log[j] # "start_reporting"
        PROVE  NewsInOrder'
    <2>1. /\ Len(log') = Len(log) + 1 /\ log'[Len(log) + 1] = n
          /\ \A i \in 1..Len(log) : log'[i] = log[i]
      BY <1>4, <1>t
    <2>2. /\ Pending' = Pending \union {Len(log) + 1}
          /\ \A i \in Pending : i \in 1..Len(log) /\ log'[i] = log[i] /\ i < Len(log) + 1
      BY <1>1, <1>t, <2>1 DEF Pending
    <2>3. pos' = pos /\ eng' = eng
      BY <1>1
    <2> SUFFICES ASSUME NEW i \in Pending'
                 PROVE  /\ log'[i] = "start_fieldwork" => i = pos + 1 /\ eng.status # "reporting"
                        /\ log'[i] = "start_reporting" =>
                               /\ eng.status # "reporting"
                               /\ \A j \in Pending' : log'[j] = "start_reporting" => j = i
                        /\ log'[i] = "approved" =>
                               \/ eng.status = "reporting"
                               \/ \E j \in Pending' : j < i /\ log'[j] = "start_reporting"
      BY <2>3 DEF NewsInOrder
    <2>4. CASE i = Len(log) + 1
      BY <1>4, <2>1, <2>2, <2>4
    <2>5. CASE i \in Pending
      <3>1. log'[i] = log[i]
        BY <2>2, <2>5
      <3>2. log[i] = "start_reporting" => n # "start_reporting"
        BY <1>4, <2>5
      <3>3. log[i] = "start_fieldwork" => i = pos + 1 /\ eng.status # "reporting"
        BY <1>n, <2>5 DEF NewsInOrder
      <3>4. log[i] = "start_reporting" =>
                /\ eng.status # "reporting"
                /\ \A j \in Pending : log[j] = "start_reporting" => j = i
        BY <1>n, <2>5 DEF NewsInOrder
      <3>5. log[i] = "approved" =>
                eng.status = "reporting" \/ \E j \in Pending : j < i /\ log[j] = "start_reporting"
        BY <1>n, <2>5 DEF NewsInOrder
      <3> QED
        BY <2>1, <2>2, <3>1, <3>2, <3>3, <3>4, <3>5
    <2> QED
      BY <2>2, <2>4, <2>5
  <1>5. CASE wo[p] = "planning" /\ WOAdvance(p)
    <2>1. wo'[p] = "fieldwork" /\ log' = Append(log, "start_fieldwork")
      BY <1>5, <1>t DEF WOAdvance
    <2>2. NewsInOrder'
      BY <1>4, <1>5, <1>s, <2>1
    <2>3. \A j \in Pending' : log'[j] # "start_reporting"
      BY <1>1, <1>5, <1>s, <1>t, <2>1 DEF Pending
    <2>4. StageFollowed'
      BY <1>1, <1>5, <1>s, <2>1, <2>3 DEF StageFollowed, Stage
    <2> QED
      BY <1>1, <1>3, <2>2, <2>4 DEF PhaseInv
  <1>6. CASE wo[p] = "fieldwork" /\ WOAdvance(p)
    <2>1. wo'[p] = "reporting" /\ log' = Append(log, "start_reporting")
      BY <1>6, <1>t DEF WOAdvance
    <2>2. NewsInOrder'
      BY <1>4, <1>6, <1>s, <2>1
    <2>3. \E j \in Pending' : log'[j] = "start_reporting"
      <3>1. Len(log) + 1 \in Pending' /\ log'[Len(log) + 1] = "start_reporting"
        BY <1>1, <1>t, <2>1 DEF Pending
      <3> QED
        BY <3>1
    <2>4. StageFollowed'
      BY <1>1, <2>1, <2>3 DEF StageFollowed, Stage
    <2> QED
      BY <1>1, <1>3, <2>2, <2>4 DEF PhaseInv
  <1>7. CASE wo[p] = "reporting" /\ WOAdvance(p)
    <2>1. wo'[p] = "approved" /\ log' = log \o <<"complete", "approved">>
      BY <1>7, <1>t DEF WOAdvance
    <2>2. /\ Len(log') = Len(log) + 2
          /\ log'[Len(log) + 1] = "complete" /\ log'[Len(log) + 2] = "approved"
          /\ \A i \in 1..Len(log) : log'[i] = log[i]
      BY <1>t, <2>1
    <2>3. /\ Pending' = Pending \union {Len(log) + 1, Len(log) + 2}
          /\ \A i \in Pending : i \in 1..Len(log) /\ log'[i] = log[i] /\ i < Len(log) + 2
      BY <1>1, <1>t, <2>2 DEF Pending
    <2>4. pos' = pos /\ eng' = eng
      BY <1>1
    <2>5. NewsInOrder'
      <3> SUFFICES ASSUME NEW i \in Pending'
                   PROVE  /\ log'[i] = "start_fieldwork" => i = pos + 1 /\ eng.status # "reporting"
                          /\ log'[i] = "start_reporting" =>
                                 /\ eng.status # "reporting"
                                 /\ \A j \in Pending' : log'[j] = "start_reporting" => j = i
                          /\ log'[i] = "approved" =>
                                 \/ eng.status = "reporting"
                                 \/ \E j \in Pending' : j < i /\ log'[j] = "start_reporting"
        BY <2>4 DEF NewsInOrder
      <3>1. CASE i = Len(log) + 1
        BY <2>2, <3>1
      <3>2. CASE i = Len(log) + 2
        BY <1>7, <1>s, <2>2, <2>3, <3>2
      <3>3. CASE i \in Pending
        <4>1. log'[i] = log[i]
          BY <2>3, <3>3
        <4>2. log[i] = "start_fieldwork" => i = pos + 1 /\ eng.status # "reporting"
          BY <1>n, <3>3 DEF NewsInOrder
        <4>3. log[i] = "start_reporting" =>
                  /\ eng.status # "reporting"
                  /\ \A j \in Pending : log[j] = "start_reporting" => j = i
          BY <1>n, <3>3 DEF NewsInOrder
        <4>4. log[i] = "approved" =>
                  eng.status = "reporting" \/ \E j \in Pending : j < i /\ log[j] = "start_reporting"
          BY <1>n, <3>3 DEF NewsInOrder
        <4> QED
          BY <2>2, <2>3, <4>1, <4>2, <4>3, <4>4
      <3> QED
        BY <2>3, <3>1, <3>2, <3>3
    <2>6. StageFollowed'
      BY <1>1, <2>1 DEF StageFollowed, Stage
    <2> QED
      BY <1>1, <1>3, <2>5, <2>6 DEF PhaseInv
  <1>8. ASSUME NEW d \in {"rejected", "cancelled"}, WOStop(p, d) PROVE PhaseInv' /\ eng' = eng
    <2>1. wo'[p] = d /\ log' = Append(log, d)
      BY <1>8, <1>t DEF WOStop
    <2>2. NewsInOrder'
      BY <1>4, <2>1
    <2>3. StageFollowed'
      BY <1>1, <2>1 DEF StageFollowed, Stage
    <2> QED
      BY <1>1, <1>3, <2>2, <2>3 DEF PhaseInv
  <1>9. wo[p] \in {"planning", "fieldwork", "reporting"}
    BY <1>1 DEF Stage
  <1> QED
    BY <1>5, <1>6, <1>7, <1>8, <1>9

\* The consumer takes the row a phase on, or back, as the contract says.
LEMMA ConsumeKeepsPhase ==
    ASSUME PhaseInv, RecordInv', Consume
    PROVE  PhaseInv' /\ [Contract!Next]_(eng.status)
  <1>t. /\ log \in Seq(News) /\ Len(log) \in Nat /\ pos \in 0..Len(log) /\ eng \in Engagement
        /\ wo \in [Plan -> {"unused"} \union Stage \union Ending]
        /\ eng.status \in {"planning", "fieldwork", "reporting", "completed"}
    BY DEF PhaseInv, RecordInv, TypeOK, Engagement, Phase
  <1> PICK n \in News : n = log[pos + 1]
    BY <1>t DEF Consume
  <1>1. /\ pos < Len(log) /\ lock = None /\ pos' = pos + 1
        /\ eng' = OnEngagementNews(eng, n) /\ UNCHANGED <<wo, log>>
    BY DEF Consume
  <1>2. /\ pos + 1 \in Pending /\ Pending' = Pending \ {pos + 1}
        /\ \A i \in Pending' : i \in Pending /\ i > pos + 1
    BY <1>1, <1>t DEF Pending
  <1>3. UnderWay
    BY <1>1 DEF UnderWay
  <1>4. \A w \in Worker : web[w].pc # "created"
    BY <1>1, ConstantsAssumption DEF PhaseInv, RecordInv, CallerHolds
  <1>5. eng.plan # None
    BY <1>3, <1>4 DEF PhaseInv, RecordInv, PlanIsKnown
  <1>6. eng.status \in {"fieldwork", "reporting"}
    BY <1>3, <1>5, <1>t DEF PhaseInv, PlanMeansStarted, CompletedIsOver
  <1>n. NewsInOrder
    BY DEF PhaseInv
  <1>s. StageFollowed
    BY DEF PhaseInv
  <1>p. \A q \in Plan : wo[q] # "planning"
    BY <1>1, <1>s, <1>t DEF StageFollowed
  <1>7. CASE n \in {"start_fieldwork", "complete"}
    <2>1. n = "start_fieldwork" => eng.status = "fieldwork"
      BY <1>2, <1>6, <1>n DEF NewsInOrder
    <2>2. eng'.status = eng.status
      BY <1>1, <1>7, <2>1, <1>t DEF OnEngagementNews, Engagement
    <2>3. \A j \in Pending : log[j] = "start_reporting" => j \in Pending'
      BY <1>2, <1>7
    <2>4. NewsInOrder'
      <3> SUFFICES ASSUME NEW i \in Pending'
                   PROVE  /\ log[i] = "start_fieldwork" => i = pos' + 1 /\ eng.status # "reporting"
                          /\ log[i] = "start_reporting" =>
                                 /\ eng.status # "reporting"
                                 /\ \A j \in Pending' : log[j] = "start_reporting" => j = i
                          /\ log[i] = "approved" =>
                                 \/ eng.status = "reporting"
                                 \/ \E j \in Pending' : j < i /\ log[j] = "start_reporting"
        BY <1>1, <2>2 DEF NewsInOrder
      <3>1. i \in Pending /\ i # pos + 1
        BY <1>2, <1>t
      <3>2. log[i] # "start_fieldwork"
        BY <1>n, <3>1 DEF NewsInOrder
      <3>3. log[i] = "start_reporting" =>
                /\ eng.status # "reporting"
                /\ \A j \in Pending : log[j] = "start_reporting" => j = i
        BY <1>n, <3>1 DEF NewsInOrder
      <3>4. log[i] = "approved" =>
                eng.status = "reporting" \/ \E j \in Pending : j < i /\ log[j] = "start_reporting"
        BY <1>n, <3>1 DEF NewsInOrder
      <3> QED
        BY <1>2, <2>3, <3>2, <3>3, <3>4
    <2>5. StageFollowed'
      BY <1>1, <1>2, <1>p, <1>s, <2>2, <2>3 DEF StageFollowed
    <2>6. PlanMeansStarted' /\ CompletedIsOver'
      BY <1>6, <2>2 DEF PlanMeansStarted, CompletedIsOver
    <2> QED
      BY <2>2, <2>4, <2>5, <2>6 DEF PhaseInv
  <1>8. CASE n = "start_reporting"
    <2>1. /\ eng.status = "fieldwork"
          /\ \A j \in Pending : log[j] = "start_reporting" => j = pos + 1
      BY <1>2, <1>6, <1>8, <1>n DEF NewsInOrder
    <2>2. eng'.status = "reporting"
      BY <1>1, <1>8, <1>t DEF OnEngagementNews, Engagement
    <2>3. \A i \in Pending' : log[i] # "start_fieldwork" /\ log[i] # "start_reporting"
      <3>1. ASSUME NEW i \in Pending' PROVE i \in Pending /\ i # pos + 1
        BY <1>2, <1>t
      <3> QED
        BY <1>n, <2>1, <3>1 DEF NewsInOrder
    <2>4. NewsInOrder'
      BY <1>1, <2>2, <2>3 DEF NewsInOrder
    <2>5. \A q \in Plan : wo[q] # "fieldwork"
      BY <1>2, <1>8, <1>s DEF StageFollowed
    <2>6. StageFollowed'
      BY <1>1, <1>p, <2>2, <2>5 DEF StageFollowed
    <2>7. PlanMeansStarted' /\ CompletedIsOver'
      BY <2>2 DEF PlanMeansStarted, CompletedIsOver
    <2>8. Contract!Next
      BY <2>1, <2>2 DEF Contract!Next, Contract!Advance
    <2> QED
      BY <2>4, <2>6, <2>7, <2>8 DEF PhaseInv
  <1>9. CASE n \in Ending
    <2>1. pos + 1 = Len(log) /\ \A p \in Plan : wo[p] \notin Stage
      BY <1>2, <1>9 DEF PhaseInv, RecordInv, OnePlan, Pending
    <2>2. Pending' = {}
      BY <1>1, <1>t, <2>1 DEF Pending
    <2>3. NewsInOrder'
      BY <2>2 DEF NewsInOrder
    <2>4. StageFollowed'
      BY <1>1, <2>1 DEF StageFollowed, Stage
    <2>5. ~UnderWay'
      BY <1>1, <1>t, <2>1 DEF UnderWay
    <2>6. CASE n = "approved"
      <3>1. eng.status = "reporting"
        <4>1. eng.status = "reporting" \/ \E j \in Pending : j < pos + 1
          BY <1>2, <1>n, <2>6 DEF NewsInOrder
        <4>2. \A j \in Pending : ~ j < pos + 1
          BY <1>t DEF Pending
        <4> QED
          BY <4>1, <4>2
      <3>2. eng'.status = "completed"
        BY <1>1, <2>6, <1>t DEF OnEngagementNews, Engagement
      <3>3. Contract!Next
        BY <3>1, <3>2 DEF Contract!Next, Contract!Advance
      <3> QED
        BY <2>3, <2>4, <2>5, <3>2, <3>3 DEF PhaseInv, PlanMeansStarted, CompletedIsOver
    <2>7. CASE n \in {"rejected", "cancelled"}
      <3>1. eng' = NewEngagement
        BY <1>1, <2>7 DEF OnEngagementNews
      <3>2. eng'.status = "planning" /\ eng'.plan = None
        BY <3>1 DEF NewEngagement
      <3>3. Contract!Next
        BY <1>6, <3>2 DEF Contract!Next, Contract!StartAgain
      <3> QED
        BY <2>3, <2>4, <3>2, <3>3 DEF PhaseInv, PlanMeansStarted, CompletedIsOver
    <2> QED
      BY <1>9, <2>6, <2>7 DEF Ending
  <1> QED
    BY <1>7, <1>8, <1>9 DEF News

LEMMA PhaseStep == PhaseInv /\ [ReliableNext]_vars => PhaseInv' /\ [Contract!Next]_(eng.status)
  <1> SUFFICES ASSUME PhaseInv, [ReliableNext]_vars PROVE PhaseInv' /\ [Contract!Next]_(eng.status)
    OBVIOUS
  <1>1. RecordInv'
    BY RecordStep DEF PhaseInv
  <1>2. CASE Consume
    BY <1>1, <1>2, ConsumeKeepsPhase
  <1>3. CASE WOStep
    <2>1. PICK p \in Plan : WOAdvance(p) \/ \E d \in {"rejected", "cancelled"} : WOStop(p, d)
      BY <1>3 DEF WOStep
    <2>2. PhaseInv' /\ eng' = eng
      BY <1>1, <2>1, WOKeepsPhase
    <2> QED
      BY <2>2
  <1>4. ASSUME NEW w \in Worker, StartSave(w) PROVE PhaseInv' /\ Contract!Next
    <2>1. PhaseInv' /\ eng.status = "planning" /\ eng'.status = "fieldwork"
      BY <1>1, <1>4, StartSaveKeepsPhase
    <2> QED
      BY <2>1 DEF Contract!Next, Contract!Advance
  <1>5. ASSUME NEW w \in Worker, NEW p \in Plan, CreatePlan(w, p) PROVE PhaseInv' /\ eng' = eng
    <2>1. eng' = eng
      BY <1>5 DEF CreatePlan
    <2> QED
      BY <1>1, <1>5, <2>1, CreatePlanKeepsPhase
  <1>6. CASE UNCHANGED <<eng, wo, log, pos>>
    BY <1>1, <1>6, AsideKeepsPhase
  <1> QED
    BY <1>2, <1>3, <1>4, <1>5, <1>6, OthersAreAside

LEMMA PhaseInit == Init => PhaseInv
  <1> SUFFICES ASSUME Init PROVE PhaseInv
    OBVIOUS
  <1>1. /\ \A p \in Plan : wo[p] = "unused"
        /\ eng.status = "planning" /\ eng.plan = None /\ Len(log) = 0 /\ pos = 0
    BY DEF Init, NewEngagement
  <1>2. Pending = {}
    BY <1>1 DEF Pending
  <1> QED
    BY <1>1, <1>2, RecordInit
       DEF PhaseInv, PlanMeansStarted, CompletedIsOver, NewsInOrder, StageFollowed

\* While nothing fails the row goes through its phases in the contract's
\* order: the events of WO are applied without a look at the row, and still
\* none of them skips a phase or takes one back (STAGE_STATUS_MAP).
THEOREM PhasesKeepTheContract == ReliableSpec => ImplementsContract
  <1>1. Init => PhaseInv /\ Contract!Init
    BY PhaseInit DEF Init, NewEngagement, Contract!Init
  <1> QED
    BY <1>1, PhaseStep, PTL DEF ReliableSpec, ReliableNext, ImplementsContract, Contract!Spec

---------------------------------------------------------------------------
(* The row follows WO.                                                     *)

AtWork == Stage \union {"approved"}

\* GRC knows of a plan from the row or from the worker that is to save it.
Known(p) == eng.plan = p \/ \E w \in Worker : web[w].pc = "created" /\ web[w].plan = p

\* The plans that are known are those at work, and one stopped since whose
\* last event the consumer has still to take.
PlanAtWork ==
    \A p \in Plan :
        /\ wo[p] \in AtWork => Known(p)
        /\ Known(p) => \/ wo[p] \in AtWork
                       \/ pos < Len(log) /\ log[Len(log)] \in {"rejected", "cancelled"}
        /\ wo[p] = "approved" => \/ eng.status = "completed"
                                 \/ pos < Len(log) /\ log[Len(log)] = "approved"

\* WO's first event waits for the save.
CreatedIsNew ==
    \A w \in Worker : web[w].pc = "created" => wo[web[w].plan] = "planning" \/ pos < Len(log)

FollowInv == PhaseInv /\ PlanAtWork /\ CreatedIsNew

\* A worker comes to hold a plan by creating it and gives it up by saving it.
LEMMA CreatedStays ==
    ASSUME TypeOK, [ReliableNext]_vars, NEW w \in Worker,
           \A v \in Worker : ~StartSave(v) /\ \A p \in Plan : ~CreatePlan(v, p),
           web[w].pc = "created" \/ web'[w].pc = "created"
    PROVE  web'[w] = web[w]
  <1>t. web \in [Worker -> Request]
    BY DEF TypeOK
  <1>1. ASSUME NEW v \in Worker, NEW m \in Member, NEW a \in BOOLEAN,
               Sign(v, m) \/ Stamped(v, m, a)
        PROVE  web'[w] = web[w]
    <2>1. [web[v] EXCEPT !.todo = @ \ {m}].pc = web[v].pc
      BY <1>t DEF Request
    <2> QED
      BY <1>1, <1>t, <2>1 DEF Sign, Stamped, Idle, Request
  <1>2. ASSUME NEW v \in Worker, StampCheck(v) PROVE web'[w] = web[w]
    BY <1>2, <1>t DEF StampCheck, Idle, Request
  <1>3. ASSUME NEW v \in Worker, StartRead(v) \/ StartCheck(v) PROVE web'[w] = web[w]
    BY <1>3, <1>t DEF StartRead, StartCheck, Idle, Request
  <1>4. ASSUME NEW v \in Worker, StartLock(v) \/ CallFails(v) PROVE web'[w] = web[w]
    BY <1>4, <1>t DEF StartLock, CallFails, Finish, Idle, Request
  <1>5. ASSUME NEW v \in Worker, DeclarationSave(v) PROVE web'[w] = web[w]
    BY <1>5, <1>t DEF DeclarationSave, Finish, Idle
  <1>6. ASSUME NEW v \in Worker, NEW m \in Member, DeclarationRead(v, m)
        PROVE  web'[w] = web[w]
    BY <1>6, <1>t DEF DeclarationRead, Idle
  <1>7. WOStep \/ Consume \/ Declaring \/ UNCHANGED vars => web' = web
    BY DEF WOStep, WOAdvance, WOStop, Consume, Declaring, Declare, vars
  <1> QED
    BY <1>1, <1>2, <1>3, <1>4, <1>5, <1>6, <1>7
       DEF ReliableNext, Core, Signing, Stamping, StartStep, DeclarationEdits

\* The save of a start puts the worker's plan on a row without one.
LEMMA SaveFollows ==
    ASSUME FollowInv, NEW w \in Worker, StartSave(w)
    PROVE  PlanAtWork' /\ CreatedIsNew'
  <1>1. /\ web[w].pc = "created" /\ eng'.plan = web[w].plan
        /\ web'[w].pc = "idle" /\ \A v \in Worker \ {w} : web'[v] = web[v]
        /\ UNCHANGED <<wo, log, pos>>
    BY DEF StartSave, Finish, Idle, FollowInv, PhaseInv, RecordInv, TypeOK
  <1>2. /\ eng.plan = None /\ eng.status = "planning"
        /\ \A v \in Worker \ {w} : web[v].pc # "created"
    BY <1>1 DEF FollowInv, PhaseInv, RecordInv, CallerHolds, RunningPlanOnRecord
  <1>3. \A p \in Plan : Known(p)' <=> Known(p)
    BY <1>1, <1>2, ConstantsAssumption DEF Known
  <1>4. PlanAtWork'
    BY <1>1, <1>2, <1>3 DEF FollowInv, PlanAtWork
  <1> QED
    BY <1>1, <1>2, <1>4 DEF CreatedIsNew

\* A plan is created when none is known, so none is at work.
LEMMA CreateFollows ==
    ASSUME FollowInv, NEW w \in Worker, NEW q \in Plan, CreatePlan(w, q)
    PROVE  PlanAtWork' /\ CreatedIsNew'
  <1>t. /\ web \in [Worker -> Request] /\ None \notin Plan
        /\ wo \in [Plan -> {"unused"} \union Stage \union Ending]
    BY ConstantsAssumption DEF FollowInv, PhaseInv, RecordInv, TypeOK
  <1>1. /\ web[w].pc = "calling" /\ web'[w].pc = "created" /\ web'[w].plan = q
        /\ wo'[q] = "planning" /\ \A p \in Plan \ {q} : wo'[p] = wo[p]
        /\ \A v \in Worker \ {w} : web'[v] = web[v]
        /\ UNCHANGED <<eng, lock, log, pos>>
    BY <1>t DEF CreatePlan, Request
  <1>2. eng.plan = None /\ \A v \in Worker : web[v].pc # "created"
    BY <1>1 DEF FollowInv, PhaseInv, RecordInv, CallerHolds
  <1>3. \A p \in Plan : ~Known(p) /\ wo[p] \notin AtWork
    BY <1>t, <1>2 DEF FollowInv, PlanAtWork, Known
  <1>4. \A p \in Plan : Known(p)' <=> p = q
    BY <1>t, <1>1, <1>2 DEF Known
  <1>5. PlanAtWork'
    BY <1>1, <1>3, <1>4 DEF PlanAtWork, AtWork, Stage
  <1> QED
    BY <1>1, <1>2, <1>5 DEF CreatedIsNew

\* WO's only running plan goes on or stops, and says so.
LEMMA WOFollows ==
    ASSUME FollowInv, NEW q \in Plan,
           WOAdvance(q) \/ \E d \in {"rejected", "cancelled"} : WOStop(q, d)
    PROVE  PlanAtWork' /\ CreatedIsNew'
  <1>t. /\ log \in Seq(News) /\ Len(log) \in Nat /\ pos \in 0..Len(log)
        /\ wo \in [Plan -> {"unused"} \union Stage \union Ending]
    BY DEF FollowInv, PhaseInv, RecordInv, TypeOK
  <1>1. /\ wo[q] \in Stage /\ \A p \in Plan \ {q} : wo'[p] = wo[p] /\ wo[p] \notin Stage
        /\ UNCHANGED <<eng, web, pos>>
    BY <1>t DEF WOAdvance, WOStop, Stage, FollowInv, PhaseInv, RecordInv, OnePlan
  <1>2. /\ pos < Len(log')
        /\ \/ wo'[q] \in Stage
           \/ wo'[q] = "approved" /\ log'[Len(log')] = "approved"
           \/ wo'[q] \in {"rejected", "cancelled"} /\ log'[Len(log')] \in {"rejected", "cancelled"}
    <2>1. CASE wo[q] = "reporting" /\ WOAdvance(q)
      BY <1>t, <2>1 DEF WOAdvance
    <2>2. CASE wo[q] # "reporting" /\ WOAdvance(q)
      BY <1>t, <2>2 DEF WOAdvance, Stage
    <2>3. ASSUME NEW d \in {"rejected", "cancelled"}, WOStop(q, d)
          PROVE  /\ pos < Len(log') /\ wo'[q] = d /\ log'[Len(log')] = d
      BY <1>t, <2>3 DEF WOStop
    <2> QED
      BY <2>1, <2>2, <2>3
  <1>3. UnderWay /\ \A i \in (pos + 1)..Len(log) : log[i] \notin Ending
    BY <1>1 DEF UnderWay, FollowInv, PhaseInv, RecordInv, OnePlan
  <1>4. pos < Len(log) => log[Len(log)] \notin Ending
    BY <1>t, <1>3
  <1>5. \A p \in Plan : wo[p] # "approved" /\ (Known(p) => wo[p] \in AtWork)
    BY <1>3, <1>4 DEF FollowInv, PhaseInv, CompletedIsOver, PlanAtWork, Ending
  <1>6. \A p \in Plan : Known(p)' <=> Known(p)
    BY <1>1 DEF Known
  <1>7. PlanAtWork'
    <2>1. \A p \in Plan : wo[p] \in AtWork => Known(p)
      BY DEF FollowInv, PlanAtWork
    <2>2. Known(q)
      BY <1>1, <2>1 DEF AtWork
    <2> QED
      BY <1>1, <1>2, <1>5, <1>6, <2>1, <2>2 DEF PlanAtWork, AtWork, Stage
  <1> QED
    BY <1>1, <1>2, <1>7 DEF CreatedIsNew

\* The last event of a stopped plan takes it off, that of a finished one
\* completes the row; the others leave the plan and the last event.
LEMMA ConsumeFollows ==
    ASSUME FollowInv, Consume
    PROVE  PlanAtWork' /\ CreatedIsNew'
  <1>t. /\ log \in Seq(News) /\ Len(log) \in Nat /\ pos \in 0..Len(log) /\ eng \in Engagement
        /\ None \notin Worker \union Plan
    BY ConstantsAssumption DEF FollowInv, PhaseInv, RecordInv, TypeOK
  <1> PICK n \in News : n = log[pos + 1]
    BY <1>t DEF Consume
  <1>1. /\ pos < Len(log) /\ lock = None /\ pos' = pos + 1
        /\ eng' = OnEngagementNews(eng, n) /\ UNCHANGED <<wo, log, web>>
    BY DEF Consume
  <1>2. \A w \in Worker : web[w].pc # "created"
    BY <1>t, <1>1 DEF FollowInv, PhaseInv, RecordInv, CallerHolds
  <1>3. eng.status # "completed"
    BY <1>1 DEF FollowInv, PhaseInv, CompletedIsOver, UnderWay
  <1>4. CreatedIsNew'
    BY <1>1, <1>2 DEF CreatedIsNew
  <1>5. CASE n \in Ending
    <2>1. pos + 1 = Len(log) /\ \A p \in Plan : wo[p] \notin Stage
      <3>1. pos + 1 \in (pos + 1)..Len(log)
        BY <1>t, <1>1
      <3> QED
        BY <1>5, <3>1 DEF FollowInv, PhaseInv, RecordInv, OnePlan
    <2>2. CASE n = "approved"
      <3>1. eng'.plan = eng.plan /\ eng'.status = "completed"
        BY <1>t, <1>1, <2>2 DEF OnEngagementNews, Engagement
      <3>2. \A p \in Plan : Known(p)' <=> Known(p)
        BY <1>1, <3>1 DEF Known
      <3>3. \A p \in Plan : Known(p) <=> wo[p] \in AtWork
        BY <2>1, <2>2 DEF FollowInv, PlanAtWork
      <3> QED
        BY <1>1, <1>4, <3>1, <3>2, <3>3 DEF PlanAtWork
    <2>3. CASE n \in {"rejected", "cancelled"}
      <3>1. \A p \in Plan : wo[p] \notin AtWork
        BY <1>3, <2>1, <2>3 DEF FollowInv, PlanAtWork, AtWork
      <3>2. \A p \in Plan : ~Known(p)'
        BY <1>t, <1>1, <1>2, <2>3 DEF Known, OnEngagementNews, NewEngagement
      <3> QED
        BY <1>1, <1>4, <3>1, <3>2 DEF PlanAtWork, AtWork
    <2> QED
      BY <1>5, <2>2, <2>3 DEF Ending
  <1>6. CASE n \notin Ending
    <2>1. n \in {"start_fieldwork", "start_reporting", "complete"}
      BY <1>6 DEF News
    <2>2. eng'.plan = eng.plan
      BY <1>t, <1>1, <2>1 DEF OnEngagementNews, Engagement
    <2>3. \A p \in Plan : Known(p)' <=> Known(p)
      BY <1>1, <2>2 DEF Known
    <2>4. log[Len(log)] \in Ending => pos' < Len(log)
      BY <1>t, <1>1, <1>6
    <2>5. PlanAtWork'
      BY <1>1, <1>3, <2>3, <2>4 DEF FollowInv, PlanAtWork, Ending
    <2> QED
      BY <1>4, <2>5
  <1> QED
    BY <1>5, <1>6

LEMMA FollowStep == FollowInv /\ [ReliableNext]_vars => FollowInv'
  <1> SUFFICES ASSUME FollowInv, [ReliableNext]_vars PROVE PlanAtWork' /\ CreatedIsNew'
    BY PhaseStep DEF FollowInv
  <1>1. ASSUME UNCHANGED <<eng, wo, log, pos>>,
               \A w \in Worker : ~StartSave(w) /\ \A p \in Plan : ~CreatePlan(w, p)
        PROVE  PlanAtWork' /\ CreatedIsNew'
    <2>1. \A w \in Worker : web[w].pc = "created" \/ web'[w].pc = "created" => web'[w] = web[w]
      BY <1>1, CreatedStays DEF FollowInv, PhaseInv, RecordInv
    <2>2. \A p \in Plan : Known(p)' <=> Known(p)
      BY <1>1, <2>1 DEF Known
    <2>3. PlanAtWork'
      BY <1>1, <2>2 DEF FollowInv, PlanAtWork
    <2>4. CreatedIsNew'
      BY <1>1, <2>1 DEF FollowInv, CreatedIsNew
    <2> QED
      BY <2>3, <2>4
  <1> QED
    BY <1>1, SaveFollows, CreateFollows, WOFollows, ConsumeFollows, OthersAreAside DEF WOStep

\* When the consumer has read the topic, the row shows WO's plan in the
\* phase of its stage, for every number of workers and plans: the updates
\* wait for the save of the start, and no start finds a plan at work
\* (start_workflow, _handle_workflow_event; nothing fails).
THEOREM RowIsWhereWOIs == ReliableSpec => []RowFollowsWO
  <1>1. Init => FollowInv
    <2> SUFFICES ASSUME Init PROVE FollowInv
      OBVIOUS
    <2>1. /\ \A p \in Plan : wo[p] = "unused"
          /\ \A w \in Worker : web[w].pc = "idle"
          /\ eng.plan = None
      BY DEF Init, NewEngagement, Idle
    <2>2. PlanAtWork /\ CreatedIsNew
      BY <2>1, ConstantsAssumption DEF PlanAtWork, CreatedIsNew, Known, AtWork, Stage
    <2> QED
      BY <2>2, PhaseInit DEF FollowInv
  <1>2. FollowInv => RowFollowsWO
    <2> SUFFICES ASSUME FollowInv, pos = Len(log) PROVE RowFollowsWO
      BY DEF RowFollowsWO
    <2>t. /\ eng \in Engagement /\ pos \in Nat
          /\ eng = [status |-> eng.status, plan |-> eng.plan]
          /\ eng.status \in {"planning", "fieldwork", "reporting", "completed"}
      BY DEF FollowInv, PhaseInv, RecordInv, TypeOK, Engagement, Phase
    <2>1. \A p \in Plan : /\ Known(p) <=> wo[p] \in AtWork
                          /\ wo[p] = "approved" => eng.status = "completed"
      BY <2>t DEF FollowInv, PlanAtWork
    <2>2. DOMAIN RowPhase = AtWork
      BY DEF RowPhase, AtWork, Stage
    <2>3. eng.plan # None => wo[eng.plan] \in AtWork
      BY <2>t, <2>1 DEF Known, Engagement
    <2>4. ASSUME NEW p \in Plan, eng.plan = p, wo[p] \in AtWork
          PROVE  eng = [status |-> RowPhase[wo[p]], plan |-> p]
      <3>1. CASE wo[p] = "approved"
        BY <2>t, <2>1, <2>4, <3>1 DEF RowPhase
      <3>2. CASE wo[p] \in Stage
        <4>1. eng.status \notin {"planning", "completed"}
          BY <2>4, <3>2, ConstantsAssumption
             DEF FollowInv, PhaseInv, PlanMeansStarted, CompletedIsOver, UnderWay
        <4>2. eng.status = "reporting" <=> wo[p] = "reporting"
          BY <2>t, <3>2 DEF FollowInv, PhaseInv, StageFollowed, Pending, Stage
        <4> QED
          BY <2>t, <2>4, <3>2, <4>1, <4>2 DEF RowPhase, Stage
      <3> QED
        BY <2>4, <3>1, <3>2 DEF AtWork
    <2>5. ASSUME NEW p \in Plan, NEW w \in Worker, web[w].pc = "created", web[w].plan = p
          PROVE  wo[p] = "planning"
      BY <2>5, <2>t DEF FollowInv, CreatedIsNew
    <2> QED
      BY <2>1, <2>2, <2>3, <2>4, <2>5 DEF RowFollowsWO, Known
  <1> QED
    BY <1>1, <1>2, FollowStep, PTL DEF ReliableSpec, ReliableNext

---------------------------------------------------------------------------
(* The last signature has every document stamped.                          *)

\* No body declares somebody signed (Bodies is a constant of the model).
BodiesDoNotSign == \A b \in Bodies : b.status # "signed"

\* The copy a PUT of a declaration will save is of an unsigned one.
FormsAreUnsigned ==
    \A w \in Worker : web[w].pc = "declaring" =>
        web[w].member \in Member /\ web[w].form.status \in {"pending", "waived"}

\* What is not stamped is on the list of a request that stamps, unless some
\* request has yet to look at the team.
StampIsOnItsWay ==
    TeamSigned /\ (\A w \in Worker : web[w].pc # "signed")
    => \A m \in Declared \intersect Documented :
           decl[m].stamped \/ \E w \in Worker : web[w].pc = "stamping" /\ m \in web[w].todo

StampInv == TypeOK /\ FormsAreUnsigned /\ StampIsOnItsWay

\* A request neither stamps nor declares, before or after its step, and the
\* declarations are as they were.
LEMMA AsideKeepsStamps ==
    ASSUME StampInv, TypeOK', UNCHANGED decl, NEW w \in Worker,
           web[w].pc \notin {"signed", "stamping"},
           web'[w].pc \notin {"signed", "stamping", "declaring"},
           \A v \in Worker \ {w} : web'[v] = web[v]
    PROVE  StampInv'
  <1>1. (Declared' = Declared) /\ (TeamSigned' <=> TeamSigned)
    BY DEF Declared, TeamSigned
  <1>2. FormsAreUnsigned'
    BY DEF StampInv, FormsAreUnsigned
  <1>3. \A v \in Worker : web[v].pc \in {"signed", "stamping"} => web'[v] = web[v]
    OBVIOUS
  <1>4. \A v \in Worker : web'[v].pc # "signed" => web[v].pc # "signed"
    BY <1>3
  <1>5. StampIsOnItsWay'
    BY <1>1, <1>3, <1>4 DEF StampInv, StampIsOnItsWay
  <1> QED
    BY <1>2, <1>5 DEF StampInv

\* A declaration that is not signed is on its row: nothing to stamp yet.
LEMMA UnsignedKeepsStamps ==
    ASSUME TypeOK', FormsAreUnsigned', NEW m \in Member, decl'[m].status \in {"pending", "waived"}
    PROVE  StampInv'
  <1>1. ~TeamSigned'
    BY DEF TeamSigned, Declared
  <1> QED
    BY <1>1 DEF StampInv, StampIsOnItsWay

LEMMA StampStep ==
    ASSUME BodiesDoNotSign
    PROVE  StampInv /\ [Core \/ Declaring \/ DeclarationEdits]_vars => StampInv'
  <1> SUFFICES ASSUME StampInv, [Core \/ Declaring \/ DeclarationEdits]_vars PROVE StampInv'
    OBVIOUS
  <1>t. TypeOK /\ TypeOK'
    BY TypeStep DEF StampInv, Next
  <1>1. ASSUME NEW w \in Worker, NEW m \in Member, Sign(w, m) PROVE StampInv'
    <2>1. web'[w].pc = "signed" /\ \A v \in Worker \ {w} : web'[v] = web[v]
      BY <1>1, <1>t DEF Sign, TypeOK, Request
    <2>2. FormsAreUnsigned'
      BY <2>1 DEF StampInv, FormsAreUnsigned
    <2> QED
      BY <1>t, <2>1, <2>2 DEF StampInv, StampIsOnItsWay
  <1>2. ASSUME NEW w \in Worker, NEW m \in Member, Stamped(w, m, TRUE) PROVE StampInv'
    <2>1. decl' = [decl EXCEPT ![m].stamped = TRUE]
      BY <1>2 DEF Stamped
    <2>2. /\ decl'[m].stamped
          /\ \A n \in Member : decl'[n].status = decl[n].status /\ (decl[n].stamped => decl'[n].stamped)
      BY <2>1, <1>t DEF TypeOK, Declaration
    <2>3. (Declared' = Declared) /\ (TeamSigned' <=> TeamSigned)
      BY <2>2 DEF Declared, TeamSigned
    <2>4. \A v \in Worker \ {w} : web'[v] = web[v]
      BY <1>2, <1>t DEF Stamped, TypeOK
    <2>5. /\ web[w].pc = "stamping"
          /\ \/ web[w].todo = {m} /\ web'[w].pc = "idle"
             \/ /\ web[w].todo # {m} /\ web'[w].pc = "stamping"
                /\ web'[w].todo = web[w].todo \ {m}
      <3>1. [web[w] EXCEPT !.todo = @ \ {m}].pc = web[w].pc
        BY <1>t DEF TypeOK, Request
      <3>2. [web[w] EXCEPT !.todo = @ \ {m}].todo = web[w].todo \ {m}
        BY <1>t DEF TypeOK, Request
      <3> QED
        BY <1>2, <1>t, <3>1, <3>2 DEF Stamped, TypeOK, Idle
    <2>6. FormsAreUnsigned'
      BY <2>4, <2>5 DEF StampInv, FormsAreUnsigned
    <2>7. ASSUME TeamSigned', \A v \in Worker : web'[v].pc # "signed",
                 NEW n \in Declared' \intersect Documented, ~decl'[n].stamped
          PROVE  \E v \in Worker : web'[v].pc = "stamping" /\ n \in web'[v].todo
      <3>1. n \in Member /\ n # m /\ ~decl[n].stamped
        BY <2>2, <2>7 DEF Declared
      <3>2. \A v \in Worker : web[v].pc # "signed"
        BY <2>4, <2>5, <2>7
      <3>3. PICK v \in Worker : web[v].pc = "stamping" /\ n \in web[v].todo
        BY <2>3, <2>7, <3>1, <3>2 DEF StampInv, StampIsOnItsWay
      <3> QED
        BY <2>4, <2>5, <3>1, <3>3
    <2> QED
      BY <1>t, <2>6, <2>7 DEF StampInv, StampIsOnItsWay
  <1>3. ASSUME NEW w \in Worker, StampCheck(w) PROVE StampInv'
    <2>1. (Declared' = Declared) /\ (TeamSigned' <=> TeamSigned)
      BY <1>3 DEF StampCheck, Declared, TeamSigned
    <2>2. \A v \in Worker \ {w} : web'[v] = web[v]
      BY <1>3, <1>t DEF StampCheck, TypeOK
    <2>3. /\ web'[w].pc # "declaring"
          /\ TeamSigned /\ Declared \intersect Documented # {}
             => web'[w].pc = "stamping" /\ web'[w].todo = Declared \intersect Documented
      BY <1>3, <1>t DEF StampCheck, TypeOK, Request, Idle
    <2>4. FormsAreUnsigned'
      BY <2>2, <2>3 DEF StampInv, FormsAreUnsigned
    <2> QED
      BY <1>t, <2>1, <2>3, <2>4 DEF StampInv, StampIsOnItsWay
  <1>4. ASSUME NEW w \in Worker, StartStep(w) PROVE StampInv'
    <2>1. /\ UNCHANGED decl
          /\ web[w].pc \in {"idle", "checking", "waiting", "calling", "created"}
          /\ web'[w].pc \in {"idle", "checking", "waiting", "calling", "created"}
          /\ \A v \in Worker \ {w} : web'[v] = web[v]
      <3>1. CASE StartRead(w)
        BY <3>1, <1>t DEF StartRead, TypeOK, Request
      <3>2. CASE StartCheck(w)
        BY <3>2, <1>t DEF StartCheck, TypeOK, Request, Idle
      <3>3. CASE StartLock(w)
        BY <3>3, <1>t DEF StartLock, Finish, TypeOK, Request, Idle
      <3>4. CASE \E p \in Plan : CreatePlan(w, p)
        <4>1. PICK p \in Plan : CreatePlan(w, p)
          BY <3>4
        <4>2. web' = [web EXCEPT ![w] = [[@ EXCEPT !.pc = "created"] EXCEPT !.plan = p]]
          BY <4>1, <1>t DEF CreatePlan, TypeOK, Request
        <4>3. [[web[w] EXCEPT !.pc = "created"] EXCEPT !.plan = p].pc = "created"
          BY <1>t DEF TypeOK, Request
        <4> QED
          BY <4>1, <4>2, <4>3, <1>t DEF CreatePlan, TypeOK
      <3>5. CASE CallFails(w)
        BY <3>5, <1>t DEF CallFails, Finish, TypeOK, Idle
      <3>6. CASE StartSave(w)
        BY <3>6, <1>t DEF StartSave, Finish, TypeOK, Idle
      <3> QED
        BY <1>4, <3>1, <3>2, <3>3, <3>4, <3>5, <3>6 DEF StartStep
    <2> QED
      BY <1>t, <2>1, AsideKeepsStamps
  <1>5. ASSUME NEW w \in Worker, NEW m \in Member, DeclarationRead(w, m) PROVE StampInv'
    <2> DEFINE form == [Idle EXCEPT !.pc = "declaring", !.member = m, !.form = decl[m]]
    <2>1. form.pc = "declaring" /\ form.member = m /\ form.form = decl[m]
      BY DEF Idle
    <2> HIDE DEF form
    <2>2. web' = [web EXCEPT ![w] = form] /\ UNCHANGED decl /\ web[w].pc = "idle"
      BY <1>5 DEF DeclarationRead, form
    <2>3. web'[w] = form /\ \A v \in Worker \ {w} : web'[v] = web[v]
      BY <2>2, <1>t DEF TypeOK
    <2>4. decl[m].status \in {"pending", "waived"}
      BY <1>5 DEF DeclarationRead
    <2>5. FormsAreUnsigned'
      BY <2>1, <2>3, <2>4 DEF StampInv, FormsAreUnsigned
    <2> QED
      BY <1>t, <2>2, <2>4, <2>5, UnsignedKeepsStamps
  <1>6. ASSUME NEW w \in Worker, DeclarationSave(w) PROVE StampInv'
    <2> DEFINE n == web[w].member
    <2>1. n \in Member /\ web[w].form.status \in {"pending", "waived"} /\ web[w].form \in Declaration
      BY <1>6, <1>t DEF DeclarationSave, StampInv, FormsAreUnsigned, TypeOK, Request
    <2>2. \A b \in Bodies : Written(web[w].form, b).status = b.status
      BY <2>1, ConstantsAssumption DEF Written, Declaration
    <2>3. \A b \in Bodies : b.status \in {"pending", "waived"}
      BY ConstantsAssumption, BodiesDoNotSign DEF BodiesDoNotSign
    <2>4. PICK d \in {web[w].form} \union {Written(web[w].form, b) : b \in Bodies} :
              decl' = [decl EXCEPT ![n] = d]
      BY <1>6 DEF DeclarationSave
    <2>5. decl'[n].status \in {"pending", "waived"}
      BY <2>1, <2>2, <2>3, <2>4, <1>t DEF TypeOK
    <2>6. FormsAreUnsigned'
      BY <1>6, <1>t DEF DeclarationSave, Finish, Idle, StampInv, FormsAreUnsigned, TypeOK
    <2> QED
      BY <1>t, <2>1, <2>5, <2>6, UnsignedKeepsStamps
  <1>7. ASSUME NEW S \in SUBSET Member, NEW b \in {Unsigned} \union Bodies, Declare(S, b)
        PROVE  StampInv'
    <2>1. PICK m \in S : m \notin Declared
      BY <1>7 DEF Declare
    <2>2. b.status \in {"pending", "waived"}
      BY ConstantsAssumption, BodiesDoNotSign DEF BodiesDoNotSign, Unsigned
    <2>3. Written(decl[m], b).status = b.status
      BY <2>1, <1>t DEF Written, TypeOK, Declaration
    <2>4. decl'[m].status \in {"pending", "waived"}
      BY <1>7, <2>1, <2>2, <2>3 DEF Declare
    <2>5. FormsAreUnsigned'
      BY <1>7 DEF Declare, StampInv, FormsAreUnsigned
    <2> QED
      BY <1>t, <2>1, <2>4, <2>5, UnsignedKeepsStamps
  <1>8. ASSUME UNCHANGED <<decl, web>> PROVE StampInv'
    BY <1>8, <1>t DEF StampInv, FormsAreUnsigned, StampIsOnItsWay, TeamSigned, Declared
  <1>9. ASSUME WOStep \/ Consume \/ UNCHANGED vars PROVE UNCHANGED <<decl, web>>
    BY <1>9 DEF WOStep, WOAdvance, WOStop, Consume, vars
  <1>10. CASE Core
    BY <1>10, <1>1, <1>2, <1>3, <1>4, <1>8, <1>9 DEF Core, Signing, Stamping
  <1>11. CASE Declaring
    BY <1>11, <1>7 DEF Declaring
  <1>12. CASE DeclarationEdits
    BY <1>12, <1>5, <1>6 DEF DeclarationEdits
  <1> QED
    BY <1>8, <1>9, <1>10, <1>11, <1>12

\* Two people who sign last at the same time do not each leave the stamps to
\* the other, provided no body of a PUT says "signed" (DeclarationSignView).
THEOREM SignedTeamIsStamped ==
    ASSUME BodiesDoNotSign
    PROVE  ReliableSpec => []TeamIsStamped
  <1>1. Init => StampInv
    <2> SUFFICES ASSUME Init PROVE StampInv
      OBVIOUS
    <2>1. \A w \in Worker : web[w].pc = "idle"
      BY DEF Init, Idle
    <2>2. \A m \in Member : decl[m].status \in {"none", "pending"}
      <3>1. NoDeclaration.status = "none" /\ NoDeclaration \in Declaration
        BY DEF NoDeclaration, Declaration
      <3>2. Written(NoDeclaration, Unsigned).status = "pending"
        BY <3>1 DEF Written, Declaration, Unsigned
      <3> QED
        BY <3>1, <3>2 DEF Init
    <2>3. TeamSigned => Declared = {}
      BY <2>2 DEF TeamSigned, Declared
    <2> QED
      BY <2>1, <2>3, TypeInit DEF StampInv, FormsAreUnsigned, StampIsOnItsWay
  <1>2. StampInv => TeamIsStamped
    BY DEF StampInv, StampIsOnItsWay, TeamIsStamped
  <1> QED
    BY <1>1, <1>2, StampStep, PTL DEF ReliableSpec
=============================================================================
