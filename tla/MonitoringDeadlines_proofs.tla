---------------------- MODULE MonitoringDeadlines_proofs ----------------------
(***************************************************************************)
(* Theorems about MonitoringDeadlines, for every set of records, workers   *)
(* and Celery processes and for any length of time.                        *)
(***************************************************************************)
EXTENDS MonitoringDeadlines, TLAPS

---------------------------------------------------------------------------
(* Five business days.                                                     *)

\* What AddBusinessDays is defined by, and a function without recursion that
\* satisfies it: the weeks, and the day of the week.
Walk(f) ==
    [day \in Nat |->
        [n \in Nat |->
            IF n = 0 THEN day
            ELSE f[day + 1][IF IsWeekday(day + 1) THEN n - 1 ELSE n]]]

After(day, n) ==
    LET w == day % 7
        p == (IF w < 5 THEN w ELSE 4) + n
    IN  IF n = 0 THEN day ELSE (day - w) + 7 * (p \div 5) + (p % 5)
ByWeeks == [day \in Nat |-> [n \in Nat |-> After(day, n)]]

LEMMA OneDayOn ==
    ASSUME NEW day \in Nat, NEW n \in Nat, n # 0
    PROVE  After(day, n) = After(day + 1, IF IsWeekday(day + 1) THEN n - 1 ELSE n)
  <1>1. /\ day % 7 \in 0..6
        /\ (day + 1) % 7 = IF day % 7 = 6 THEN 0 ELSE (day % 7) + 1
    OBVIOUS
  <1> QED
    BY <1>1 DEF After, IsWeekday

LEMMA ByWeeksWalks == ByWeeks = Walk(ByWeeks)
  <1> SUFFICES ASSUME NEW day \in Nat, NEW n \in Nat
               PROVE  After(day, n) =
                        IF n = 0 THEN day
                        ELSE ByWeeks[day + 1][IF IsWeekday(day + 1) THEN n - 1 ELSE n]
    BY DEF ByWeeks, Walk
  <1>1. CASE n = 0
    BY <1>1 DEF After
  <1>2. CASE n # 0
    <2>1. ByWeeks[day + 1][IF IsWeekday(day + 1) THEN n - 1 ELSE n] =
            After(day + 1, IF IsWeekday(day + 1) THEN n - 1 ELSE n)
      BY <1>2 DEF ByWeeks
    <2> QED
      BY <1>2, <2>1, OneDayOn
  <1> QED
    BY <1>1, <1>2

\* The recursion has a solution, so what is defined by it satisfies it.
LEMMA AddBusinessDaysStep ==
    ASSUME NEW day \in Nat, NEW n \in Nat
    PROVE  AddBusinessDays[day][n] =
             IF n = 0 THEN day
             ELSE AddBusinessDays[day + 1][IF IsWeekday(day + 1) THEN n - 1 ELSE n]
  <1> DEFINE f == AddBusinessDays
  <1>1. f = CHOOSE g : g = Walk(g)
    BY Zenon DEF AddBusinessDays, Walk
  <1>2. f = Walk(f)
    BY <1>1, ByWeeksWalks
  <1> HIDE DEF f
  <1>3. Walk(f)[day][n] =
          IF n = 0 THEN day
          ELSE f[day + 1][IF IsWeekday(day + 1) THEN n - 1 ELSE n]
    BY DEF Walk
  <1>4. f[day][n] =
          IF n = 0 THEN day
          ELSE f[day + 1][IF IsWeekday(day + 1) THEN n - 1 ELSE n]
    BY <1>2, <1>3
  <1> QED
    BY <1>4 DEF f

\* The response window: five business days are a week from a weekday, and
\* end on the next Friday from a Saturday or Sunday (_add_business_days).
THEOREM FiveBusinessDays ==
    ASSUME NEW day \in Nat
    PROVE  AddBusinessDays[day][5] =
             IF day % 7 < 5 THEN day + 7 ELSE day + 11 - (day % 7)
  <1> DEFINE D(n) == day + n
             f == AddBusinessDays
  <1>1. \A n \in Nat : D(n) \in Nat /\ D(n) + 1 = D(n + 1)
    OBVIOUS
  <1>2. \A n, m \in Nat :
           /\ f[D(n)][0] = D(n)
           /\ m # 0 => f[D(n)][m] = f[D(n + 1)][IF IsWeekday(D(n + 1)) THEN m - 1 ELSE m]
    BY <1>1, AddBusinessDaysStep
  <1>3. \A n \in 1..7 : IsWeekday(D(n)) <=> ((day % 7) + n) % 7 < 5
    BY DEF IsWeekday
  <1>4. f[day][5] = f[D(0)][5]
    OBVIOUS
  <1>5. day % 7 \in 0..6
    OBVIOUS
  <1> HIDE DEF D, f
  <1> DEFINE W(n) == IsWeekday(D(n))
             to(n, m) == f[D(n)][m]
  <1>6. \A n \in 0..6, m \in 1..5 : to(n, m) = IF W(n + 1) THEN to(n + 1, m - 1) ELSE to(n + 1, m)
    BY <1>2
  <1>7. \A n \in 0..7 : to(n, 0) = D(n)
    BY <1>2
  <1>8. \A n \in 1..7 : W(n) <=> ((day % 7) + n) % 7 < 5
    BY <1>3
  <1> HIDE DEF W, to
  <1>9. to(0, 5) = IF day % 7 < 5 THEN D(7) ELSE IF day % 7 = 5 THEN D(6) ELSE D(5)
    <2>1. CASE day % 7 = 0
      BY <2>1, <1>6, <1>7, <1>8
    <2>2. CASE day % 7 = 1
      BY <2>2, <1>6, <1>7, <1>8
    <2>3. CASE day % 7 = 2
      BY <2>3, <1>6, <1>7, <1>8
    <2>4. CASE day % 7 = 3
      BY <2>4, <1>6, <1>7, <1>8
    <2>5. CASE day % 7 = 4
      BY <2>5, <1>6, <1>7, <1>8
    <2>6. CASE day % 7 = 5
      BY <2>6, <1>6, <1>7, <1>8
    <2>7. CASE day % 7 = 6
      BY <2>7, <1>6, <1>7, <1>8
    <2> QED
      BY <1>5, <2>1, <2>2, <2>3, <2>4, <2>5, <2>6, <2>7
  <1> QED
    BY <1>4, <1>5, <1>9 DEF D, to, f

\* The deadline is on the same time of day, five to seven days on.
LEMMA DeadlineBounds ==
    ASSUME NEW t \in Nat
    PROVE  Deadline(t) \in Nat /\ t + Days(5) <= Deadline(t) /\ Deadline(t) <= t + Days(7)
  <1> DEFINE d == t \div 2
  <1>1. d \in Nat /\ t = 2 * d + (t % 2) /\ t % 2 \in 0..1
    OBVIOUS
  <1>2. d % 7 \in 0..6
    BY <1>1
  <1>3. AddBusinessDays[d][5] = IF d % 7 < 5 THEN d + 7 ELSE d + 11 - (d % 7)
    BY <1>1, FiveBusinessDays
  <1> HIDE DEF d
  <1>4. Deadline(t) = 2 * AddBusinessDays[d][5] + (t % 2)
    BY DEF Deadline, Days, d
  <1> QED
    BY <1>1, <1>2, <1>3, <1>4 DEF Days

---------------------------------------------------------------------------
(* The invariants.                                                         *)

\* A request and a run that is saving are about a record.
Pending ==
    /\ \A w \in Worker : web[w].pc # "idle" => web[w].record \in Record
    /\ \A k \in Runner : run[k].pc = "saving" => run[k].record \in Record

TypeInv == TypeOK /\ Pending

\* Notified more than seven days before t.
Due(m, t) == m.sent # None /\ m.sent + Days(7) < t

\* A row, or a copy of one, that at the time t says nothing too early.
Sound(m, t) ==
    /\ m.sent # None => m.sent <= t /\ m.deadline = Deadline(m.sent)
    /\ m.overdue => m.sent # None /\ m.deadline < t
    /\ m.escalated => Due(m, t)

EditingOf(w, r) == web[w].pc = "editing" /\ web[w].record = r
NotifyingOf(w, r) == web[w].pc = "notifying" /\ web[w].record = r

\* A record is notified within a half day at most: whoever has read it in
\* this half day saw it not notified, or notified now ...
Fresh(r) ==
    /\ mon[r].sent \in {None, now}
    /\ \A w \in Worker : EditingOf(w, r) => web[w].copy.sent \in {None, now}

\* ... or it was notified before, and whoever reads it sees just that.
Notified(r) ==
    /\ mon[r].sent \notin {None, now}
    /\ \A w \in Worker : /\ EditingOf(w, r) => web[w].copy.sent = mon[r].sent
                         /\ ~NotifyingOf(w, r)

RowsAreSound == \A r \in Record : Sound(mon[r], now) /\ (Fresh(r) \/ Notified(r))
CopiesAreSound == \A w \in Worker : web[w].pc = "editing" => Sound(web[w].copy, now)
RunsAreSound ==
    \A k \in Runner :
        /\ run[k].pc # "idle" => run[k].at <= now
        /\ run[k].pc \in {"escalating", "saving"} =>
              \A r \in run[k].todo : Due(mon[r], now)
        /\ run[k].pc = "saving" => Due(mon[run[k].record], now)

FlagInv == RowsAreSound /\ CopiesAreSound /\ RunsAreSound

\* A flag, in a row, in a copy that is to be saved, or about to be set, is of
\* a record that was announced.
Heard(r) == told[r].escalation > 0
HeardInv ==
    /\ \A r \in Record : mon[r].escalated => Heard(r)
    /\ \A w \in Worker : web[w].pc = "editing" /\ web[w].copy.escalated => Heard(web[w].record)
    /\ \A k \in Runner : run[k].pc = "saving" => Heard(run[k].record)

\* Nobody takes the task from its queue: nothing is marked or announced, and
\* only on the first evening is there no message that waits.
Unserved ==
    /\ \A k \in Runner : run[k].pc = "idle"
    /\ \A r \in Record : /\ ~mon[r].overdue /\ ~mon[r].escalated
                          /\ told[r].reminder = 0 /\ told[r].escalation = 0
    /\ beaten => queue > 0
    /\ now % 2 = 1 /\ queue = 0 =>
          \A r \in Record : mon[r].sent # None =>
              mon[r].sent = now /\ mon[r].deadline = Deadline(now)

\* On time: nobody edits; one run a day, in its half day, after beat.
Calm ==
    /\ \A r \in Record : mon[r].active
    /\ \A w \in Worker : web[w].pc # "editing"

Serial ==
    /\ queue > 0 => queue = 1 /\ beaten /\ now % 2 = 0
    /\ \A k \in Runner : run[k].pc # "idle" =>
          /\ queue = 0 /\ beaten /\ now % 2 = 0 /\ run[k].at = now
          /\ \A l \in Runner : run[l].pc # "idle" => l = k

\* A run has first marked what is late.
Marked ==
    \A k \in Runner : run[k].pc # "idle" =>
        \A r \in Record : mon[r].sent # None /\ mon[r].deadline < now => mon[r].overdue

OverdueInv == Marked /\ EscalatedIsOverdue

\* The runs of the reminder and of the escalation of a record notified at t.
ReminderAt(t) == IF t % 2 = 0 THEN t + 6 ELSE t + 7
EscalationAt(t) == IF t % 2 = 0 THEN t + 16 ELSE t + 15

\* The run of this half day has not come to the reminder, the escalation of r.
BeforeReminder(r) ==
    \/ ~beaten
    \/ queue > 0
    \/ \E k \in Runner : \/ run[k].pc = "marked"
                         \/ run[k].pc = "reminding" /\ r \in run[k].todo
BeforeEscalation(r) ==
    \/ ~beaten
    \/ queue > 0
    \/ \E k \in Runner : \/ run[k].pc \in {"marked", "reminding"}
                         \/ run[k].pc \in {"escalating", "saving"} /\ r \in run[k].todo
SavingEscalation(r) == \E k \in Runner : run[k].pc = "saving" /\ run[k].record = r

ReminderPassed(r) ==
    /\ mon[r].sent # None
    /\ LET e == ReminderAt(mon[r].sent) IN now > e \/ (now = e /\ ~BeforeReminder(r))
EscalationPassed(r) ==
    /\ mon[r].sent # None
    /\ LET e == EscalationAt(mon[r].sent) IN now > e \/ (now = e /\ ~BeforeEscalation(r))

\* Those that a run is about to remind of or to escalate have their turn now.
ToRemind(r) == mon[r].sent # None /\ now = ReminderAt(mon[r].sent)
ToEscalateNow(r) == mon[r].sent # None /\ now = EscalationAt(mon[r].sent)

ReminderInv ==
    /\ \A r \in Record : told[r].reminder = IF ReminderPassed(r) THEN 1 ELSE 0
    /\ \A k \in Runner : run[k].pc = "reminding" => \A r \in run[k].todo : ToRemind(r)

EscalationInv ==
    /\ \A r \in Record :
          /\ told[r].escalation = IF EscalationPassed(r) THEN 1 ELSE 0
          /\ mon[r].escalated <=> EscalationPassed(r) /\ ~SavingEscalation(r)
    /\ \A k \in Runner :
          /\ run[k].pc \in {"escalating", "saving"} => \A r \in run[k].todo : ToEscalateNow(r)
          /\ run[k].pc = "saving" =>
                ToEscalateNow(run[k].record) /\ run[k].record \notin run[k].todo

---------------------------------------------------------------------------
(* Types.                                                                  *)

LEMMA Values ==
    /\ Idle \in Request /\ NoRun \in Run
    /\ Idle.pc = "idle" /\ Idle.record = None /\ NoRun.pc = "idle" /\ NoRun.todo = {}
    BY ConstantsAssumption DEF Idle, NoRun, Request, Run, NewMonitoring, Monitoring, Time

LEMMA TypeInit == Init => TypeInv
  <1> SUFFICES ASSUME Init PROVE TypeInv
    OBVIOUS
  <1>1. NewMonitoring \in Monitoring
    BY DEF NewMonitoring, Monitoring
  <1>2. [reminder |-> 0, escalation |-> 0] \in [reminder : 0..2, escalation : 0..2]
    OBVIOUS
  <1>3. now \in Time /\ queue \in 0..Backlog /\ beaten \in BOOLEAN
    <2>1. now \in Time /\ beaten \in BOOLEAN
      BY DEF Init
    <2>2. queue \in 0..Backlog
      BY ConstantsAssumption DEF Init
    <2> QED
      BY <2>1, <2>2
  <1>4. mon \in [Record -> Monitoring] /\ reco \in [Record -> RecoStatus]
    BY <1>1 DEF Init, RecoStatus
  <1>5. web \in [Worker -> Request] /\ run \in [Runner -> Run] /\ Pending
    BY Values DEF Init, Pending
  <1>6. told \in [Record -> [reminder : 0..2, escalation : 0..2]]
    BY <1>2 DEF Init
  <1> QED
    BY <1>3, <1>4, <1>5, <1>6 DEF TypeInv, TypeOK

\* Every action of a request keeps the types.
LEMMA TypeRequests ==
    TypeInv /\ (Notifying \/ Edits) => TypeInv'
  <1> SUFFICES ASSUME TypeInv, Notifying \/ Edits PROVE TypeInv'
    OBVIOUS
  <1> USE DEF TypeInv, TypeOK, Pending
  <1>1. ASSUME NEW w \in Worker, NEW r \in Record, NotifyRead(w, r) PROVE TypeInv'
    <2>1. [Idle EXCEPT !.pc = "notifying", !.record = r] \in Request
      BY DEF Idle, Request, NewMonitoring, Monitoring
    <2>2. [Idle EXCEPT !.pc = "notifying", !.record = r].record = r
      BY DEF Idle
    <2> QED
      BY <1>1, <2>1, <2>2 DEF NotifyRead
  <1>2. ASSUME NEW w \in Worker, NotifySave(w) PROVE TypeInv'
    <2>1. Deadline(now) \in Nat /\ now \in Time
      BY DeadlineBounds DEF Time
    <2>2. mon' \in [Record -> Monitoring]
      BY <1>2, <2>1 DEF NotifySave, Monitoring
    <2> QED
      BY <1>2, <2>2, Values DEF NotifySave
  <1>3. ASSUME NEW w \in Worker, NEW r \in Record, EditRead(w, r) PROVE TypeInv'
    <2>1. [pc |-> "editing", record |-> r, copy |-> mon[r]] \in Request
      BY DEF Request
    <2> QED
      BY <1>3, <2>1 DEF EditRead
  <1>4. ASSUME NEW w \in Worker, EditSave(w) PROVE TypeInv'
    <2>1. web[w].copy \in Monitoring
      BY DEF Request
    <2>2. \A a \in BOOLEAN : [web[w].copy EXCEPT !.active = a] \in Monitoring
      BY <2>1 DEF Monitoring
    <2>3. mon' \in [Record -> Monitoring]
      BY <1>4, <2>2 DEF EditSave
    <2> QED
      BY <1>4, <2>3, Values DEF EditSave
  <1>5. ASSUME NEW r \in Record, Delete(r) PROVE TypeInv'
    <2>1. mon' \in [Record -> Monitoring]
      BY <1>5 DEF Delete, Monitoring
    <2> QED
      BY <1>5, <2>1 DEF Delete
  <1>6. ASSUME NEW r \in Record, MoveRecommendation(r) PROVE TypeInv'
    BY <1>6 DEF MoveRecommendation, RecoStatus
  <1> QED
    BY <1>1, <1>2, <1>3, <1>4, <1>5, <1>6 DEF Notifying, Edits

\* Every action of the task and of the clock keeps them.
LEMMA TypeTask ==
    TypeInv /\ (Beat \/ Tick \/ \E k \in Runner : RunStep(k) \/ RunDies(k)) => TypeInv'
  <1> SUFFICES ASSUME TypeInv, Beat \/ Tick \/ \E k \in Runner : RunStep(k) \/ RunDies(k)
               PROVE  TypeInv'
    OBVIOUS
  <1> USE DEF TypeInv, TypeOK, Pending
  <1>1. CASE Beat
    BY <1>1, ConstantsAssumption DEF Beat
  <1>2. CASE Tick
    <2>1. beaten' \in BOOLEAN
      BY <1>2 DEF Tick
    <2>3. now \in Time /\ now < Last /\ now' = now + 1
      BY <1>2 DEF Tick
    <2>4. now' \in Time
      BY <2>3, ConstantsAssumption DEF Time
    <2>2. UNCHANGED <<mon, reco, web, queue, run, told>>
      BY <1>2 DEF Tick
    <2> QED
      BY <2>1, <2>2, <2>4
  <1>3. ASSUME NEW k \in Runner, RunStart(k) PROVE TypeInv'
    <2>1. mon' \in [Record -> Monitoring]
      BY <1>3 DEF RunStart, Monitoring
    <2>2. [NoRun EXCEPT !.pc = "marked", !.at = now] \in Run
      BY ConstantsAssumption DEF NoRun, Run, Time
    <2>3. [NoRun EXCEPT !.pc = "marked", !.at = now].pc = "marked"
      BY DEF NoRun
    <2>4. \A l \in Runner : run'[l].pc = "saving" => run[l].pc = "saving" /\ run'[l] = run[l]
      BY <1>3, <2>3 DEF RunStart
    <2>5. run' \in [Runner -> Run] /\ queue' \in 0..Backlog
      BY <1>3, <2>2, ConstantsAssumption DEF RunStart
    <2>6. UNCHANGED <<reco, web, now, beaten, told>>
      BY <1>3 DEF RunStart
    <2> QED
      BY <2>1, <2>4, <2>5, <2>6
  <1>4. ASSUME NEW k \in Runner, RemindQuery(k) PROVE TypeInv'
    <2>1. run' \in [Runner -> Run]
      <3> DEFINE T == {r \in Record : InReminderWindow(mon[r], run[k].at)}
      <3>1. [run[k] EXCEPT !.pc = "reminding", !.todo = T] \in Run
        BY DEF Run
      <3> HIDE DEF T
      <3>2. run' = [run EXCEPT ![k].pc = "reminding", ![k].todo = T]
        BY <1>4 DEF RemindQuery, T
      <3> QED
        BY <3>1, <3>2
    <2>2. \A l \in Runner : run'[l].pc = "saving" => run[l].pc = "saving" /\ run'[l] = run[l]
      BY <1>4 DEF RemindQuery, Run
    <2>3. UNCHANGED <<mon, reco, web, now, beaten, queue, told>>
      BY <1>4 DEF RemindQuery
    <2> QED
      BY <2>1, <2>2, <2>3
  <1>5. ASSUME NEW k \in Runner, NEW r \in Record, Remind(k, r) PROVE TypeInv'
    <2>1. run' \in [Runner -> Run]
      <3>1. [run[k] EXCEPT !.todo = run[k].todo \ {r}] \in Run
        BY DEF Run
      <3> QED
        BY <1>5, <3>1 DEF Remind
    <2>2. told' \in [Record -> [reminder : 0..2, escalation : 0..2]]
      BY <1>5 DEF Remind, Once
    <2>3. \A l \in Runner : run'[l].pc = "saving" => run[l].pc = "saving" /\ run'[l] = run[l]
      BY <1>5 DEF Remind, Run
    <2>4. UNCHANGED <<mon, reco, web, now, beaten, queue>>
      BY <1>5 DEF Remind
    <2> QED
      BY <2>1, <2>2, <2>3, <2>4
  <1>6. ASSUME NEW k \in Runner, EscalateQuery(k) PROVE TypeInv'
    <2>1. run' \in [Runner -> Run]
      <3> DEFINE T == {r \in Record : ToEscalate(mon[r], run[k].at)}
      <3>1. [run[k] EXCEPT !.pc = "escalating", !.todo = T] \in Run
        BY DEF Run
      <3> HIDE DEF T
      <3>2. run' = [run EXCEPT ![k].pc = "escalating", ![k].todo = T]
        BY <1>6 DEF EscalateQuery, T
      <3> QED
        BY <3>1, <3>2
    <2>2. \A l \in Runner : run'[l].pc = "saving" => run[l].pc = "saving" /\ run'[l] = run[l]
      BY <1>6 DEF EscalateQuery, Run
    <2>3. UNCHANGED <<mon, reco, web, now, beaten, queue, told>>
      BY <1>6 DEF EscalateQuery
    <2> QED
      BY <2>1, <2>2, <2>3
  <1>7. ASSUME NEW k \in Runner, NEW r \in Record, Escalate(k, r) PROVE TypeInv'
    <2>1. run' \in [Runner -> Run]
      <3>1. [run[k] EXCEPT !.pc = "saving", !.record = r, !.todo = run[k].todo \ {r}] \in Run
        BY DEF Run
      <3> QED
        BY <1>7, <3>1 DEF Escalate
    <2>2. told' \in [Record -> [reminder : 0..2, escalation : 0..2]]
      BY <1>7 DEF Escalate, Once
    <2> QED
      BY <1>7, <2>1, <2>2 DEF Escalate, Run
  <1>8. ASSUME NEW k \in Runner, EscalateSave(k) PROVE TypeInv'
    <2>1. run' \in [Runner -> Run]
      <3>1. [run[k] EXCEPT !.pc = "escalating", !.record = None] \in Run
        BY DEF Run
      <3> QED
        BY <1>8, <3>1 DEF EscalateSave
    <2>2. mon' \in [Record -> Monitoring]
      BY <1>8 DEF EscalateSave, Monitoring
    <2> QED
      BY <1>8, <2>1, <2>2 DEF EscalateSave, Run
  <1>9. ASSUME NEW k \in Runner, RunEnd(k) \/ RunDies(k) PROVE TypeInv'
    BY <1>9, Values DEF RunEnd, RunDies
  <1> QED
    BY <1>1, <1>2, <1>3, <1>4, <1>5, <1>6, <1>7, <1>8, <1>9 DEF RunStep

LEMMA TypeStep == TypeInv /\ [Next]_vars => TypeInv'
  <1> SUFFICES ASSUME TypeInv, [Next]_vars PROVE TypeInv'
    OBVIOUS
  <1>1. CASE Next
    BY <1>1, TypeRequests, TypeTask DEF Next, Core
  <1>2. CASE UNCHANGED vars
    BY <1>2 DEF vars, TypeInv, TypeOK, Pending
  <1> QED
    BY <1>1, <1>2

\* The model's variables keep their types, whatever the interleaving.
THEOREM TypeCorrect == Spec => []TypeOK
  <1>1. TypeInv => TypeOK
    BY DEF TypeInv
  <1> QED
    BY <1>1, TypeInit, TypeStep, PTL DEF Spec

---------------------------------------------------------------------------
(* Flags are timely.                                                       *)

LEMMA SoundLater ==
    ASSUME NEW m \in Monitoring, NEW t \in Nat, NEW u \in Nat, t <= u
    PROVE  /\ Sound(m, t) => Sound(m, u)
           /\ Due(m, t) => Due(m, u)
  <1>1. m.sent \in Nat \union {None} /\ m.deadline \in Nat \union {None}
    BY DEF Monitoring, Time
  <1>2. m.sent # None => m.sent \in Nat
    BY <1>1
  <1>3. Due(m, t) => Due(m, u)
    BY <1>2 DEF Due, Days
  <1>4. m.sent # None /\ Sound(m, t) => m.deadline \in Nat
    BY <1>2, DeadlineBounds DEF Sound
  <1> QED
    BY <1>2, <1>3, <1>4 DEF Sound

\* Nothing is late or due in the half day it was notified in.
LEMMA NotYet ==
    ASSUME NEW m \in Monitoring, NEW t \in Time, Sound(m, t), m.sent \in {None, t}
    PROVE  ~m.overdue /\ ~m.escalated /\ ~Due(m, t)
  <1>1. t \in Nat
    BY DEF Time
  <1>2. ~Due(m, t)
    BY <1>1 DEF Due, Days
  <1> QED
    BY <1>1, <1>2, DeadlineBounds DEF Sound, Days

\* A step that leaves the notifications and the requests alone.
LEMMA SentKept ==
    ASSUME TypeInv, RowsAreSound, UNCHANGED <<web, now>>,
           \A r \in Record : mon'[r].sent = mon[r].sent /\ Sound(mon'[r], now)
    PROVE  RowsAreSound'
    BY DEF RowsAreSound, Fresh, Notified, EditingOf, NotifyingOf

LEMMA CopiesKept ==
    ASSUME CopiesAreSound, UNCHANGED <<web, now>>
    PROVE  CopiesAreSound'
    BY DEF CopiesAreSound

\* A step that changes no notification that a run relies on.
LEMMA DueKept ==
    ASSUME TypeInv, RunsAreSound, UNCHANGED <<run, now>>,
           \A r \in Record : Due(mon[r], now) => mon'[r].sent = mon[r].sent
    PROVE  RunsAreSound'
  <1>1. \A k \in Runner : run[k].todo \subseteq Record
    BY DEF TypeInv, TypeOK, Run
  <1> QED
    BY <1>1 DEF RunsAreSound, Due, TypeInv, Pending

LEMMA FlagInit == Init => FlagInv
  <1> SUFFICES ASSUME Init PROVE FlagInv
    OBVIOUS
  <1>1. NewMonitoring.sent = None /\ ~NewMonitoring.overdue /\ ~NewMonitoring.escalated
    BY DEF NewMonitoring
  <1>2. RowsAreSound
    BY <1>1, Values DEF Init, RowsAreSound, Sound, Fresh, EditingOf
  <1>3. CopiesAreSound /\ RunsAreSound
    BY Values DEF Init, CopiesAreSound, RunsAreSound
  <1> QED
    BY <1>2, <1>3 DEF FlagInv

LEMMA FlagRequests == TypeInv /\ FlagInv /\ (Notifying \/ Edits) => FlagInv'
  <1> SUFFICES ASSUME TypeInv, FlagInv, Notifying \/ Edits PROVE FlagInv'
    OBVIOUS
  <1>0. /\ RowsAreSound /\ CopiesAreSound /\ RunsAreSound
        /\ mon \in [Record -> Monitoring] /\ web \in [Worker -> Request] /\ now \in Time
        /\ \A w \in Worker : web[w].pc # "idle" => web[w].record \in Record
    BY DEF FlagInv, TypeInv, TypeOK, Pending
  <1>1. ASSUME NEW w \in Worker, NEW r \in Record, NotifyRead(w, r) PROVE FlagInv'
    <2>1. /\ web[w].pc = "idle" /\ mon[r].sent = None
          /\ web'[w].pc = "notifying" /\ web'[w].record = r
          /\ \A v \in Worker \ {w} : web'[v] = web[v]
          /\ UNCHANGED <<mon, now, run>>
      BY <1>1, <1>0 DEF NotifyRead, Idle
    <2>2. RowsAreSound'
      BY <2>1, <1>0 DEF RowsAreSound, Fresh, Notified, EditingOf, NotifyingOf
    <2>3. CopiesAreSound'
      BY <2>1, <1>0 DEF CopiesAreSound
    <2>4. RunsAreSound'
      BY <2>1, <1>0, DueKept
    <2> QED
      BY <2>2, <2>3, <2>4 DEF FlagInv
  <1>2. ASSUME NEW w \in Worker, NotifySave(w) PROVE FlagInv'
    <2> DEFINE r == web[w].record
               m == [mon[r] EXCEPT !.sent = now, !.deadline = Deadline(now)]
    <2>1. /\ web[w].pc = "notifying" /\ r \in Record
          /\ mon' = [mon EXCEPT ![r] = m]
          /\ web'[w].pc = "idle"
          /\ \A v \in Worker \ {w} : web'[v] = web[v]
          /\ UNCHANGED <<now, run>>
      BY <1>2, <1>0, Values DEF NotifySave
    <2>2. Fresh(r)
      BY <2>1, <1>0 DEF RowsAreSound, Notified, NotifyingOf
    <2>3. Sound(mon[r], now) /\ mon[r] \in Monitoring
      BY <2>1, <1>0 DEF RowsAreSound
    <2>4. ~mon[r].overdue /\ ~mon[r].escalated /\ ~Due(mon[r], now)
      BY <2>2, <2>3, <1>0, NotYet DEF Fresh
    <2>5. /\ m.sent = now /\ m.deadline = Deadline(now)
          /\ m.overdue = mon[r].overdue /\ m.escalated = mon[r].escalated
      BY <2>3 DEF Monitoring
    <2> HIDE DEF m
    <2>6. Sound(m, now)
      BY <2>4, <2>5, <1>0 DEF Sound, Time
    <2>7. \A s \in Record : mon'[s] = IF s = r THEN m ELSE mon[s]
      BY <2>1, <1>0
    <2>8. \A v \in Worker, s \in Record :
             /\ EditingOf(v, s)' => EditingOf(v, s) /\ web'[v].copy = web[v].copy
             /\ NotifyingOf(v, s)' => NotifyingOf(v, s)
      BY <2>1 DEF EditingOf, NotifyingOf
    <2> HIDE DEF r
    <2>9. RowsAreSound'
      <3> SUFFICES ASSUME NEW s \in Record
                   PROVE  Sound(mon'[s], now) /\ (Fresh(s)' \/ Notified(s)')
        BY <2>1 DEF RowsAreSound
      <3>1. CASE s = r
        BY <3>1, <2>1, <2>2, <2>5, <2>6, <2>7, <2>8 DEF Fresh
      <3>2. CASE s # r
        BY <3>2, <2>1, <2>7, <2>8, <1>0 DEF RowsAreSound, Fresh, Notified
      <3> QED
        BY <3>1, <3>2
    <2>10. CopiesAreSound'
      BY <2>1, <1>0 DEF CopiesAreSound
    <2>11. RunsAreSound'
      BY <2>1, <2>4, <2>7, <1>0, DueKept
    <2> QED
      BY <2>9, <2>10, <2>11 DEF FlagInv
  <1>3. ASSUME NEW w \in Worker, NEW r \in Record, EditRead(w, r) PROVE FlagInv'
    <2>1. /\ web[w].pc = "idle"
          /\ web'[w].pc = "editing" /\ web'[w].record = r /\ web'[w].copy = mon[r]
          /\ \A v \in Worker \ {w} : web'[v] = web[v]
          /\ UNCHANGED <<mon, now, run>>
      BY <1>3, <1>0 DEF EditRead
    <2>2. RowsAreSound'
      BY <2>1, <1>0 DEF RowsAreSound, Fresh, Notified, EditingOf, NotifyingOf
    <2>3. CopiesAreSound'
      BY <2>1, <1>0 DEF CopiesAreSound, RowsAreSound
    <2>4. RunsAreSound'
      BY <2>1, <1>0, DueKept
    <2> QED
      BY <2>2, <2>3, <2>4 DEF FlagInv
  <1>4. ASSUME NEW w \in Worker, EditSave(w) PROVE FlagInv'
    <2> DEFINE r == web[w].record
               c == web[w].copy
    <2>1. PICK a \in BOOLEAN : mon' = [mon EXCEPT ![r] = [c EXCEPT !.active = a]]
      BY <1>4 DEF EditSave
    <2> DEFINE m == [c EXCEPT !.active = a]
    <2>2. /\ web[w].pc = "editing" /\ r \in Record
          /\ web'[w].pc = "idle"
          /\ \A v \in Worker \ {w} : web'[v] = web[v]
          /\ UNCHANGED <<now, run>>
      BY <1>4, <1>0, Values DEF EditSave
    <2>3. c \in Monitoring /\ Sound(c, now)
      BY <2>2, <1>0 DEF CopiesAreSound, Request
    <2>4. /\ m.sent = c.sent /\ m.deadline = c.deadline
          /\ m.overdue = c.overdue /\ m.escalated = c.escalated
      BY <2>3 DEF Monitoring
    <2>5. \A s \in Record : mon'[s] = IF s = r THEN m ELSE mon[s]
      BY <2>1, <2>2, <1>0
    <2> HIDE DEF m
    <2>6. Sound(m, now)
      BY <2>3, <2>4 DEF Sound, Due
    <2>7. Fresh(r) => c.sent \in {None, now}
      BY <2>2 DEF Fresh, EditingOf
    <2>8. Notified(r) => c.sent = mon[r].sent
      BY <2>2 DEF Notified, EditingOf
    <2>9. \A v \in Worker, s \in Record :
             /\ EditingOf(v, s)' => EditingOf(v, s) /\ web'[v].copy = web[v].copy
             /\ NotifyingOf(v, s)' => NotifyingOf(v, s)
      BY <2>2 DEF EditingOf, NotifyingOf
    <2>10. (Fresh(r) \/ Notified(r)) /\ Sound(mon[r], now) /\ mon[r] \in Monitoring
      BY <2>2, <1>0 DEF RowsAreSound
    <2>11. Fresh(r) => ~Due(mon[r], now)
      BY <2>10, <1>0, NotYet DEF Fresh
    <2> HIDE DEF r, c
    <2>12. RowsAreSound'
      <3> SUFFICES ASSUME NEW s \in Record
                   PROVE  Sound(mon'[s], now) /\ (Fresh(s)' \/ Notified(s)')
        BY <2>2 DEF RowsAreSound
      <3>1. CASE s = r
        <4>1. mon'[s] = m
          BY <3>1, <2>5
        <4>2. CASE Fresh(r)
          BY <3>1, <4>1, <4>2, <2>2, <2>4, <2>6, <2>7, <2>9 DEF Fresh
        <4>3. CASE Notified(r)
          BY <3>1, <4>1, <4>3, <2>2, <2>4, <2>6, <2>8, <2>9 DEF Notified
        <4> QED
          BY <4>2, <4>3, <2>10
      <3>2. CASE s # r
        BY <3>2, <2>2, <2>5, <2>9, <1>0 DEF RowsAreSound, Fresh, Notified
      <3> QED
        BY <3>1, <3>2
    <2>13. CopiesAreSound'
      BY <2>2, <1>0 DEF CopiesAreSound
    <2>14. \A s \in Record : Due(mon[s], now) => mon'[s].sent = mon[s].sent
      BY <2>4, <2>5, <2>8, <2>10, <2>11
    <2>15. RunsAreSound'
      BY <2>2, <2>14, <1>0, DueKept
    <2> QED
      BY <2>12, <2>13, <2>15 DEF FlagInv
  <1>5. ASSUME NEW r \in Record, Delete(r) PROVE FlagInv'
    <2>1. mon' = [mon EXCEPT ![r].active = FALSE] /\ UNCHANGED <<web, now, run>>
      BY <1>5 DEF Delete
    <2>2. \A s \in Record :
             /\ mon'[s].sent = mon[s].sent /\ mon'[s].deadline = mon[s].deadline
             /\ mon'[s].overdue = mon[s].overdue /\ mon'[s].escalated = mon[s].escalated
      BY <2>1, <1>0 DEF Monitoring
    <2>3. \A s \in Record : Sound(mon'[s], now)
      BY <2>2, <1>0 DEF RowsAreSound, Sound, Due
    <2> QED
      BY <2>1, <2>2, <2>3, <1>0, SentKept, CopiesKept, DueKept DEF FlagInv
  <1>6. ASSUME NEW r \in Record, MoveRecommendation(r) PROVE FlagInv'
    <2>1. UNCHANGED <<mon, web, now, run>>
      BY <1>6 DEF MoveRecommendation
    <2> QED
      BY <2>1, <1>0, SentKept, CopiesKept, DueKept DEF FlagInv, RowsAreSound
  <1> QED
    BY <1>1, <1>2, <1>3, <1>4, <1>5, <1>6 DEF Notifying, Edits

LEMMA FlagTick == TypeInv /\ FlagInv /\ Tick => FlagInv'
  <1> SUFFICES ASSUME TypeInv, FlagInv, Tick PROVE FlagInv'
    OBVIOUS
  <1>1. /\ RowsAreSound /\ RunsAreSound
        /\ mon \in [Record -> Monitoring] /\ run \in [Runner -> Run]
        /\ \A k \in Runner : run[k].pc = "saving" => run[k].record \in Record
    BY DEF FlagInv, TypeInv, TypeOK, Pending
  <1>2. /\ \A w \in Worker : web[w].pc = "idle"
        /\ now' = now + 1
        /\ UNCHANGED <<mon, web, run>>
    BY DEF Tick
  <1>3. now \in Nat /\ now' \in Nat /\ now <= now' /\ now # now'
    BY <1>2 DEF TypeInv, TypeOK, Time
  <1>4. \A r \in Record : /\ Sound(mon[r], now) /\ Sound(mon[r], now')
                          /\ Due(mon[r], now) => Due(mon[r], now')
    BY <1>1, <1>3, SoundLater DEF RowsAreSound
  <1>5. RowsAreSound'
    <2> SUFFICES ASSUME NEW r \in Record PROVE Fresh(r)' \/ Notified(r)'
      BY <1>2, <1>4 DEF RowsAreSound
    <2>1. CASE mon[r].sent = None
      BY <1>2, <2>1 DEF Fresh, EditingOf
    <2>2. CASE mon[r].sent # None
      <3>1. mon[r].sent <= now /\ mon[r].sent \in Time
        BY <1>1, <1>4, <2>2 DEF Sound, Monitoring
      <3>2. mon[r].sent # now'
        BY <3>1, <1>2 DEF TypeInv, TypeOK, Time
      <3> QED
        BY <1>2, <2>2, <3>2 DEF Notified, EditingOf, NotifyingOf
    <2> QED
      BY <2>1, <2>2
  <1>6. CopiesAreSound'
    BY <1>2 DEF CopiesAreSound
  <1>7. RunsAreSound'
    <2>1. \A k \in Runner : run[k].at \in Nat /\ run[k].todo \subseteq Record
      BY <1>1 DEF Run, Time
    <2>2. \A k \in Runner : run[k].at <= now => run[k].at <= now'
      BY <2>1, <1>3, <1>2
    <2> QED
      BY <1>1, <1>2, <1>4, <2>1, <2>2 DEF RunsAreSound
  <1> QED
    BY <1>5, <1>6, <1>7 DEF FlagInv

LEMMA FlagTask ==
    TypeInv /\ FlagInv /\ (Beat \/ \E k \in Runner : RunStep(k) \/ RunDies(k)) => FlagInv'
  <1> SUFFICES ASSUME TypeInv, FlagInv, Beat \/ \E k \in Runner : RunStep(k) \/ RunDies(k)
               PROVE  FlagInv'
    OBVIOUS
  <1>0. /\ RowsAreSound /\ CopiesAreSound /\ RunsAreSound
        /\ mon \in [Record -> Monitoring] /\ run \in [Runner -> Run] /\ now \in Nat
        /\ \A k \in Runner : run[k].pc = "saving" => run[k].record \in Record
    BY DEF FlagInv, TypeInv, TypeOK, Pending, Time
  <1>1. CASE Beat
    <2>1. UNCHANGED <<mon, web, now, run>>
      BY <1>1 DEF Beat
    <2> QED
      BY <2>1, <1>0, SentKept, CopiesKept, DueKept DEF FlagInv, RowsAreSound
  \* Steps of a run that leave the rows alone.
  <1>2. ASSUME UNCHANGED <<mon, web, now>>, RunsAreSound' PROVE FlagInv'
    BY <1>2, <1>0, SentKept, CopiesKept DEF FlagInv, RowsAreSound
  <1>3. ASSUME NEW k \in Runner, RunStart(k) PROVE FlagInv'
    <2>1. /\ mon' = [r \in Record |-> IF Late(mon[r], now) THEN [mon[r] EXCEPT !.overdue = TRUE]
                                                           ELSE mon[r]]
          /\ UNCHANGED <<web, now>>
      BY <1>3 DEF RunStart
    <2>2. \A r \in Record :
             /\ mon'[r].sent = mon[r].sent /\ mon'[r].deadline = mon[r].deadline
             /\ mon'[r].overdue => mon[r].overdue \/ Late(mon[r], now)
             /\ mon'[r].escalated = mon[r].escalated
      BY <2>1, <1>0 DEF Monitoring
    <2>3. \A r \in Record : Sound(mon'[r], now)
      BY <2>2, <1>0 DEF RowsAreSound, Sound, Due, Late
    <2>4. /\ run'[k].pc = "marked" /\ run'[k].at = now
          /\ \A l \in Runner \ {k} : run'[l] = run[l]
      BY <1>3, <1>0, Values DEF RunStart, NoRun
    <2>5. \A r \in Record : Due(mon[r], now) => Due(mon'[r], now)
      BY <2>2 DEF Due
    <2>6. RunsAreSound'
      <3>1. \A l \in Runner : run[l].todo \subseteq Record
        BY <1>0 DEF Run
      <3> QED
        BY <2>1, <2>4, <2>5, <3>1, <1>0 DEF RunsAreSound
    <2> QED
      BY <2>1, <2>2, <2>3, <2>6, <1>0, SentKept, CopiesKept DEF FlagInv
  <1>4. ASSUME NEW k \in Runner, RemindQuery(k) PROVE FlagInv'
    <2>1. /\ run[k].pc = "marked" /\ run'[k].pc = "reminding" /\ run'[k].at = run[k].at
          /\ \A l \in Runner \ {k} : run'[l] = run[l]
          /\ UNCHANGED <<mon, web, now>>
      BY <1>4, <1>0 DEF RemindQuery, Run
    <2>2. RunsAreSound'
      BY <2>1, <1>0 DEF RunsAreSound
    <2> QED
      BY <1>2, <2>1, <2>2
  <1>5. ASSUME NEW k \in Runner, NEW r \in Record, Remind(k, r) PROVE FlagInv'
    <2>1. /\ run[k].pc = "reminding" /\ run'[k].pc = "reminding" /\ run'[k].at = run[k].at
          /\ \A l \in Runner \ {k} : run'[l] = run[l]
          /\ UNCHANGED <<mon, web, now>>
      BY <1>5, <1>0 DEF Remind, Run
    <2>2. RunsAreSound'
      BY <2>1, <1>0 DEF RunsAreSound
    <2> QED
      BY <1>2, <2>1, <2>2
  <1>6. ASSUME NEW k \in Runner, EscalateQuery(k) PROVE FlagInv'
    <2>1. /\ run[k].pc = "reminding" /\ run'[k].pc = "escalating" /\ run'[k].at = run[k].at
          /\ run'[k].todo = {r \in Record : ToEscalate(mon[r], run[k].at)}
          /\ \A l \in Runner \ {k} : run'[l] = run[l]
          /\ UNCHANGED <<mon, web, now>>
      BY <1>6, <1>0 DEF EscalateQuery, Run
    <2>2. run[k].at <= now /\ run[k].at \in Nat
      BY <2>1, <1>0 DEF RunsAreSound, Run, Time
    <2>3. \A r \in run'[k].todo : Due(mon[r], now)
      <3> SUFFICES ASSUME NEW r \in Record, ToEscalate(mon[r], run[k].at)
                   PROVE  Due(mon[r], now)
        BY <2>1
      <3>1. Due(mon[r], run[k].at)
        BY DEF ToEscalate, Due
      <3> QED
        BY <3>1, <2>2, <1>0, SoundLater
    <2>4. RunsAreSound'
      BY <2>1, <2>3, <1>0 DEF RunsAreSound
    <2> QED
      BY <1>2, <2>1, <2>4
  <1>7. ASSUME NEW k \in Runner, NEW r \in Record, Escalate(k, r) PROVE FlagInv'
    <2>1. /\ run[k].pc = "escalating" /\ r \in run[k].todo
          /\ run'[k].pc = "saving" /\ run'[k].at = run[k].at /\ run'[k].record = r
          /\ run'[k].todo = run[k].todo \ {r}
          /\ \A l \in Runner \ {k} : run'[l] = run[l]
          /\ UNCHANGED <<mon, web, now>>
      BY <1>7, <1>0 DEF Escalate, Run
    <2>2. RunsAreSound'
      BY <2>1, <1>0 DEF RunsAreSound
    <2> QED
      BY <1>2, <2>1, <2>2
  <1>8. ASSUME NEW k \in Runner, EscalateSave(k) PROVE FlagInv'
    <2> DEFINE r == run[k].record
    <2>1. /\ run[k].pc = "saving" /\ r \in Record
          /\ mon' = [mon EXCEPT ![r].escalated = TRUE]
          /\ UNCHANGED <<web, now>>
      BY <1>8, <1>0 DEF EscalateSave
    <2>2. /\ run'[k].pc = "escalating" /\ run'[k].at = run[k].at
          /\ run'[k].todo = run[k].todo
          /\ \A l \in Runner \ {k} : run'[l] = run[l]
      BY <1>8, <1>0 DEF EscalateSave, Run
    <2>3. Due(mon[r], now)
      BY <2>1, <1>0 DEF RunsAreSound
    <2> HIDE DEF r
    <2>4. \A s \in Record :
             /\ mon'[s].sent = mon[s].sent /\ mon'[s].deadline = mon[s].deadline
             /\ mon'[s].overdue = mon[s].overdue
             /\ mon'[s].escalated => mon[s].escalated \/ s = r
      BY <2>1, <1>0 DEF Monitoring
    <2>5. \A s \in Record : Sound(mon'[s], now)
      BY <2>3, <2>4, <1>0 DEF RowsAreSound, Sound, Due
    <2>6. \A s \in Record : Due(mon[s], now) => Due(mon'[s], now)
      BY <2>4 DEF Due
    <2>7. \A l \in Runner : run[l].todo \subseteq Record
      BY <1>0 DEF Run
    <2>8. RunsAreSound'
      BY <2>1, <2>2, <2>6, <2>7, <1>0 DEF RunsAreSound
    <2> QED
      BY <2>1, <2>4, <2>5, <2>8, <1>0, SentKept, CopiesKept DEF FlagInv
  <1>9. ASSUME NEW k \in Runner, RunEnd(k) \/ RunDies(k) PROVE FlagInv'
    <2>1. /\ run'[k].pc = "idle"
          /\ \A l \in Runner \ {k} : run'[l] = run[l]
          /\ UNCHANGED <<mon, web, now>>
      BY <1>9, <1>0, Values DEF RunEnd, RunDies
    <2>2. RunsAreSound'
      BY <2>1, <1>0 DEF RunsAreSound
    <2> QED
      BY <1>2, <2>1, <2>2
  <1> QED
    BY <1>1, <1>3, <1>4, <1>5, <1>6, <1>7, <1>8, <1>9 DEF RunStep

LEMMA FlagStep == TypeInv /\ FlagInv /\ [Next]_vars => FlagInv'
  <1> SUFFICES ASSUME TypeInv, FlagInv, [Next]_vars PROVE FlagInv'
    OBVIOUS
  <1>1. CASE Next
    BY <1>1, FlagRequests, FlagTick, FlagTask DEF Next, Core
  <1>2. CASE UNCHANGED vars
    BY <1>2 DEF vars, FlagInv, RowsAreSound, CopiesAreSound, RunsAreSound, Fresh, Notified,
                EditingOf, NotifyingOf
  <1> QED
    BY <1>1, <1>2

\* No stale save, double notification or late run marks a record overdue
\* before its deadline or escalates it before day 7: whoever could write a
\* flag has seen the notification that stands (check_monitoring_deadlines,
\* update, notify_auditee).
THEOREM FlagsTimely == Spec => []FlagsAreTimely
  <1>1. FlagInv => FlagsAreTimely
    BY DEF FlagInv, RowsAreSound, Sound, Due, FlagsAreTimely
  <1> QED
    BY <1>1, TypeInit, TypeStep, FlagInit, FlagStep, PTL DEF Spec

---------------------------------------------------------------------------
(* No flag without an announcement.                                        *)

LEMMA HeardInit == Init => HeardInv
  BY Values DEF Init, HeardInv, Heard, NewMonitoring

\* A step that flags no row that was not announced.
LEMMA HeardKept ==
    ASSUME HeardInv, UNCHANGED <<web, run, told>>,
           \A r \in Record : mon'[r].escalated => mon[r].escalated
    PROVE  HeardInv'
  BY DEF HeardInv, Heard

LEMMA HeardRequests == TypeInv /\ HeardInv /\ (Notifying \/ Edits) => HeardInv'
  <1> SUFFICES ASSUME TypeInv, HeardInv, Notifying \/ Edits PROVE HeardInv'
    OBVIOUS
  <1>0. /\ mon \in [Record -> Monitoring] /\ web \in [Worker -> Request]
        /\ \A w \in Worker : web[w].pc # "idle" => web[w].record \in Record
    BY DEF TypeInv, TypeOK, Pending
  <1>1. ASSUME NEW w \in Worker, NEW r \in Record, NotifyRead(w, r) PROVE HeardInv'
    BY <1>1, <1>0 DEF NotifyRead, Idle, HeardInv, Heard
  <1>2. ASSUME NEW w \in Worker, NotifySave(w) PROVE HeardInv'
    <2>1. \A r \in Record : mon'[r].escalated = mon[r].escalated
      BY <1>2, <1>0 DEF NotifySave, Monitoring
    <2>2. /\ web'[w].pc = "idle" /\ \A v \in Worker \ {w} : web'[v] = web[v]
          /\ UNCHANGED <<run, told>>
      BY <1>2, <1>0, Values DEF NotifySave
    <2> QED
      BY <2>1, <2>2 DEF HeardInv, Heard
  <1>3. ASSUME NEW w \in Worker, NEW r \in Record, EditRead(w, r) PROVE HeardInv'
    BY <1>3, <1>0 DEF EditRead, HeardInv, Heard
  <1>4. ASSUME NEW w \in Worker, EditSave(w) PROVE HeardInv'
    <2>1. /\ web[w].pc = "editing" /\ web[w].record \in Record /\ web[w].copy \in Monitoring
          /\ web'[w].pc = "idle" /\ \A v \in Worker \ {w} : web'[v] = web[v]
          /\ UNCHANGED <<run, told>>
      BY <1>4, <1>0, Values DEF EditSave, Request
    <2>2. \A r \in Record : mon'[r].escalated =
             IF r = web[w].record THEN web[w].copy.escalated ELSE mon[r].escalated
      BY <1>4, <2>1, <1>0 DEF EditSave, Monitoring
    <2> QED
      BY <2>1, <2>2 DEF HeardInv, Heard
  <1>5. ASSUME NEW r \in Record, Delete(r) PROVE HeardInv'
    <2>1. \A s \in Record : mon'[s].escalated = mon[s].escalated
      BY <1>5, <1>0 DEF Delete, Monitoring
    <2> QED
      BY <1>5, <2>1, HeardKept DEF Delete
  <1>6. ASSUME NEW r \in Record, MoveRecommendation(r) PROVE HeardInv'
    BY <1>6, HeardKept DEF MoveRecommendation
  <1> QED
    BY <1>1, <1>2, <1>3, <1>4, <1>5, <1>6 DEF Notifying, Edits

LEMMA HeardTask ==
    TypeInv /\ HeardInv /\ (Beat \/ Tick \/ \E k \in Runner : RunStep(k) \/ RunDies(k))
        => HeardInv'
  <1> SUFFICES ASSUME TypeInv, HeardInv,
                      Beat \/ Tick \/ \E k \in Runner : RunStep(k) \/ RunDies(k)
               PROVE  HeardInv'
    OBVIOUS
  <1>0. /\ mon \in [Record -> Monitoring] /\ run \in [Runner -> Run]
        /\ told \in [Record -> [reminder : 0..2, escalation : 0..2]]
        /\ \A k \in Runner : run[k].pc = "saving" => run[k].record \in Record
    BY DEF TypeInv, TypeOK, Pending
  <1>1. CASE Beat \/ Tick
    BY <1>1 DEF Beat, Tick, HeardInv, Heard
  <1>2. ASSUME NEW k \in Runner, RunStart(k) PROVE HeardInv'
    <2>1. \A r \in Record : mon'[r].escalated = mon[r].escalated
      BY <1>2, <1>0 DEF RunStart, Monitoring
    <2>2. /\ run'[k].pc = "marked" /\ \A l \in Runner \ {k} : run'[l] = run[l]
          /\ UNCHANGED <<web, told>>
      BY <1>2, <1>0 DEF RunStart, NoRun
    <2> QED
      BY <2>1, <2>2 DEF HeardInv, Heard
  <1>3. ASSUME NEW k \in Runner, RemindQuery(k) \/ EscalateQuery(k) \/ RunEnd(k) \/ RunDies(k)
        PROVE  HeardInv'
    <2>1. /\ run'[k].pc # "saving" /\ \A l \in Runner \ {k} : run'[l] = run[l]
          /\ UNCHANGED <<mon, web, told>>
      BY <1>3, <1>0, Values DEF RemindQuery, EscalateQuery, RunEnd, RunDies, Run
    <2> QED
      BY <2>1 DEF HeardInv, Heard
  <1>4. ASSUME NEW k \in Runner, NEW r \in Record, Remind(k, r) PROVE HeardInv'
    <2>1. /\ run'[k].pc # "saving" /\ \A l \in Runner \ {k} : run'[l] = run[l]
          /\ UNCHANGED <<mon, web>>
      BY <1>4, <1>0 DEF Remind, Run
    <2>2. \A s \in Record : told'[s].escalation = told[s].escalation
      BY <1>4, <1>0 DEF Remind
    <2> QED
      BY <2>1, <2>2, <1>0 DEF HeardInv, Heard, TypeInv, TypeOK, Pending
  <1>5. ASSUME NEW k \in Runner, NEW r \in Record, Escalate(k, r) PROVE HeardInv'
    <2>1. /\ run'[k].record = r /\ \A l \in Runner \ {k} : run'[l] = run[l]
          /\ UNCHANGED <<mon, web>>
      BY <1>5, <1>0 DEF Escalate, Run
    <2>2. told[r].escalation \in 0..2 /\ Once(told[r].escalation) > 0
      BY <1>0 DEF Once
    <2>3. \A s \in Record : told'[s].escalation =
             IF s = r THEN Once(told[r].escalation) ELSE told[s].escalation
      BY <1>5, <1>0 DEF Escalate
    <2>4. \A s \in Record : Heard(s) => Heard(s)'
      BY <2>2, <2>3 DEF Heard
    <2>5. Heard(r)'
      BY <2>2, <2>3 DEF Heard
    <2> QED
      BY <2>1, <2>4, <2>5, <1>0 DEF HeardInv, TypeInv, TypeOK, Pending
  <1>6. ASSUME NEW k \in Runner, EscalateSave(k) PROVE HeardInv'
    <2>1. /\ run[k].pc = "saving" /\ run[k].record \in Record
          /\ run'[k].pc = "escalating" /\ \A l \in Runner \ {k} : run'[l] = run[l]
          /\ UNCHANGED <<web, told>>
      BY <1>6, <1>0 DEF EscalateSave, Run
    <2>2. \A s \in Record : mon'[s].escalated => mon[s].escalated \/ s = run[k].record
      BY <1>6, <2>1, <1>0 DEF EscalateSave, Monitoring
    <2> QED
      BY <2>1, <2>2 DEF HeardInv, Heard
  <1> QED
    BY <1>1, <1>2, <1>3, <1>4, <1>5, <1>6 DEF RunStep

\* However runs overlap, come late or die, and whatever stale saves put
\* back, no record is flagged as escalated that no run has announced: the
\* next run announces it again rather than not at all
\* (check_monitoring_deadlines, section 3).
THEOREM EscalationsAnnounced == Spec => []EscalatedIsAnnounced
  <1>1. Init => TypeInv /\ HeardInv
    BY TypeInit, HeardInit
  <1>2. TypeInv /\ HeardInv /\ [Next]_vars => (TypeInv /\ HeardInv)'
    <2> SUFFICES ASSUME TypeInv, HeardInv, [Next]_vars PROVE HeardInv'
      BY TypeStep
    <2>1. CASE UNCHANGED vars
      BY <2>1 DEF vars, HeardInv, Heard
    <2> QED
      BY <2>1, HeardRequests, HeardTask DEF Next, Core
  <1>3. HeardInv => EscalatedIsAnnounced
    BY DEF HeardInv, Heard, EscalatedIsAnnounced
  <1> QED
    BY <1>1, <1>2, <1>3, PTL DEF Spec

---------------------------------------------------------------------------
(* The task once a day, on time.                                           *)

PunctualNext == Core \/ PunctualTick
OnTime == TypeInv /\ FlagInv /\ Calm /\ Serial

RunGoesOn(k) ==
    \/ RemindQuery(k) \/ EscalateQuery(k) \/ EscalateSave(k) \/ RunEnd(k)
    \/ \E r \in Record : Remind(k, r) \/ Escalate(k, r)

\* A run that goes on is the only one, and on time; it changes no date.
LEMMA GoesOn ==
    ASSUME OnTime, NEW k \in Runner, RunGoesOn(k)
    PROVE  /\ beaten /\ queue = 0 /\ now % 2 = 0 /\ now \in Nat
           /\ run[k].pc # "idle" /\ run[k].at = now
           /\ \A l \in Runner \ {k} : run[l].pc = "idle" /\ run'[l] = run[l]
           /\ UNCHANGED <<web, now, beaten, queue>>
           /\ \A r \in Record : /\ mon'[r].sent = mon[r].sent
                                /\ mon'[r].deadline = mon[r].deadline
                                /\ mon'[r].overdue = mon[r].overdue
                                /\ mon'[r].active = mon[r].active
  <1>1. /\ run[k].pc # "idle" /\ UNCHANGED <<web, now, beaten, queue>>
        /\ \A l \in Runner \ {k} : run'[l] = run[l]
        /\ mon' = mon \/ mon' = [mon EXCEPT ![run[k].record].escalated = TRUE]
    BY DEF OnTime, TypeInv, TypeOK, RunGoesOn, RemindQuery, Remind, EscalateQuery, Escalate,
           EscalateSave, RunEnd
  <1>2. /\ beaten /\ queue = 0 /\ now % 2 = 0 /\ run[k].at = now
        /\ \A l \in Runner \ {k} : run[l].pc = "idle"
    BY <1>1 DEF OnTime, Serial
  <1>3. \A r \in Record : /\ mon'[r].sent = mon[r].sent
                          /\ mon'[r].deadline = mon[r].deadline
                          /\ mon'[r].overdue = mon[r].overdue
                          /\ mon'[r].active = mon[r].active
    BY <1>1 DEF OnTime, TypeInv, TypeOK, Monitoring
  <1>4. now \in Nat
    BY DEF OnTime, TypeInv, TypeOK, Time
  <1> QED
    BY <1>1, <1>2, <1>3, <1>4

\* What a run does next.
LEMMA Moves ==
    ASSUME TypeInv, NEW k \in Runner
    PROVE  /\ RemindQuery(k) =>
                /\ run[k].pc = "marked" /\ run'[k].pc = "reminding" /\ run'[k].at = run[k].at
                /\ run'[k].todo = {r \in Record : InReminderWindow(mon[r], run[k].at)}
           /\ EscalateQuery(k) =>
                /\ run[k].pc = "reminding" /\ run[k].todo = {}
                /\ run'[k].pc = "escalating" /\ run'[k].at = run[k].at
                /\ run'[k].todo = {r \in Record : ToEscalate(mon[r], run[k].at)}
           /\ EscalateSave(k) =>
                /\ run[k].pc = "saving" /\ run'[k].pc = "escalating" /\ run'[k].at = run[k].at
                /\ run'[k].todo = run[k].todo
           /\ RunEnd(k) =>
                run[k].pc = "escalating" /\ run[k].todo = {} /\ run'[k].pc = "idle"
           /\ \A r \in Record :
                /\ Remind(k, r) =>
                     /\ run[k].pc = "reminding" /\ run'[k].pc = "reminding"
                     /\ run'[k].at = run[k].at /\ run'[k].todo = run[k].todo \ {r}
                /\ Escalate(k, r) =>
                     /\ run[k].pc = "escalating" /\ run'[k].pc = "saving"
                     /\ run'[k].at = run[k].at /\ run'[k].todo = run[k].todo \ {r}
                     /\ run'[k].record = r
  <1>1. run \in [Runner -> Run]
    BY DEF TypeInv, TypeOK
  <1>2. \A r \in Record : Remind(k, r) =>
          /\ run[k].pc = "reminding" /\ run'[k].pc = "reminding"
          /\ run'[k].at = run[k].at /\ run'[k].todo = run[k].todo \ {r}
    BY <1>1 DEF Remind, Run
  <1>3. \A r \in Record : Escalate(k, r) =>
          /\ run[k].pc = "escalating" /\ run'[k].pc = "saving"
          /\ run'[k].at = run[k].at /\ run'[k].todo = run[k].todo \ {r}
          /\ run'[k].record = r
    BY <1>1 DEF Escalate, Run
  <1>4. EscalateSave(k) =>
          /\ run[k].pc = "saving" /\ run'[k].pc = "escalating" /\ run'[k].at = run[k].at
          /\ run'[k].todo = run[k].todo
    BY <1>1 DEF EscalateSave, Run
  <1>5. RunEnd(k) => run[k].pc = "escalating" /\ run[k].todo = {} /\ run'[k].pc = "idle"
    BY <1>1, Values DEF RunEnd
  <1>6. RemindQuery(k) =>
          /\ run[k].pc = "marked" /\ run'[k].pc = "reminding" /\ run'[k].at = run[k].at
          /\ run'[k].todo = {r \in Record : InReminderWindow(mon[r], run[k].at)}
    BY <1>1 DEF RemindQuery, Run
  <1>7. EscalateQuery(k) =>
          /\ run[k].pc = "reminding" /\ run[k].todo = {}
          /\ run'[k].pc = "escalating" /\ run'[k].at = run[k].at
          /\ run'[k].todo = {r \in Record : ToEscalate(mon[r], run[k].at)}
    BY <1>1 DEF EscalateQuery, Run
  <1> QED
    BY <1>2, <1>3, <1>4, <1>5, <1>6, <1>7

LEMMA Starts ==
    ASSUME OnTime, NEW k \in Runner, RunStart(k)
    PROVE  /\ queue = 1 /\ beaten /\ now % 2 = 0 /\ now \in Nat
           /\ queue' = 0 /\ beaten' = beaten /\ now' = now /\ web' = web /\ told' = told
           /\ \A l \in Runner : run[l].pc = "idle"
           /\ run'[k].pc = "marked" /\ run'[k].at = now
           /\ \A l \in Runner \ {k} : run'[l] = run[l]
           /\ \A r \in Record : /\ mon'[r].sent = mon[r].sent
                                /\ mon'[r].deadline = mon[r].deadline
                                /\ mon'[r].overdue <=> mon[r].overdue \/ Late(mon[r], now)
                                /\ mon'[r].escalated = mon[r].escalated
                                /\ mon'[r].active = mon[r].active
  <1>1. queue = 1 /\ beaten /\ now % 2 = 0 /\ \A l \in Runner : run[l].pc = "idle"
    BY DEF RunStart, OnTime, Serial, TypeInv, TypeOK
  <1>2. /\ run'[k].pc = "marked" /\ run'[k].at = now
        /\ \A l \in Runner \ {k} : run'[l] = run[l]
    BY DEF RunStart, NoRun, OnTime, TypeInv, TypeOK
  <1>3. \A r \in Record : /\ mon'[r].sent = mon[r].sent
                          /\ mon'[r].deadline = mon[r].deadline
                          /\ mon'[r].overdue <=> mon[r].overdue \/ Late(mon[r], now)
                          /\ mon'[r].escalated = mon[r].escalated
                          /\ mon'[r].active = mon[r].active
    BY DEF RunStart, Late, Monitoring, OnTime, TypeInv, TypeOK
  <1>4. queue' = 0 /\ beaten' = beaten /\ now' = now /\ web' = web /\ told' = told
    BY <1>1 DEF RunStart
  <1>5. now \in Nat
    BY DEF OnTime, TypeInv, TypeOK, Time
  <1> QED
    BY <1>1, <1>2, <1>3, <1>4, <1>5

\* Only a record that nobody has been told of is notified.
LEMMA Notifies ==
    ASSUME OnTime, NEW w \in Worker, NotifySave(w)
    PROVE  \E r \in Record :
             /\ mon[r].sent \in {None, now} /\ ~mon[r].overdue /\ ~mon[r].escalated
             /\ mon'[r].sent = now /\ mon'[r].deadline = Deadline(now)
             /\ ~mon'[r].overdue /\ ~mon'[r].escalated /\ mon'[r].active = mon[r].active
             /\ \A s \in Record \ {r} : mon'[s] = mon[s]
             /\ UNCHANGED <<reco, now, beaten, queue, run, told>>
  <1> DEFINE r == web[w].record
  <1>1. /\ web[w].pc = "notifying" /\ r \in Record /\ mon \in [Record -> Monitoring]
        /\ now \in Time
    BY DEF OnTime, TypeInv, TypeOK, Pending, NotifySave
  <1>2. mon[r].sent \in {None, now} /\ Sound(mon[r], now)
    BY <1>1 DEF OnTime, FlagInv, RowsAreSound, Fresh, Notified, NotifyingOf
  <1>3. ~mon[r].overdue /\ ~mon[r].escalated
    BY <1>1, <1>2, NotYet
  <1>4. mon' = [mon EXCEPT ![r].sent = now, ![r].deadline = Deadline(now)]
    BY DEF NotifySave
  <1> HIDE DEF r
  <1>5. /\ mon'[r].sent = now /\ mon'[r].deadline = Deadline(now)
        /\ mon'[r].overdue = mon[r].overdue /\ mon'[r].escalated = mon[r].escalated
        /\ mon'[r].active = mon[r].active
        /\ \A s \in Record \ {r} : mon'[s] = mon[s]
    BY <1>1, <1>4 DEF Monitoring
  <1> QED
    BY <1>1, <1>2, <1>3, <1>5 DEF NotifySave

LEMMA OnTimeInit == Init => OnTime
  <1>1. ASSUME Init PROVE Calm
    <2>1. NewMonitoring.active
      BY DEF NewMonitoring
    <2> QED
      BY <1>1, <2>1, Values DEF Init, Calm
  <1>2. ASSUME Init PROVE Serial
    <2>1. queue = 0 /\ \A k \in Runner : run[k].pc = "idle"
      BY <1>2, Values DEF Init
    <2> QED
      BY <2>1 DEF Serial
  <1> QED
    BY <1>1, <1>2, TypeInit, FlagInit DEF OnTime

LEMMA OnTimeStep ==
    ASSUME "default" \in WorkerQueues
    PROVE  OnTime /\ [PunctualNext]_vars => OnTime'
  <1> SUFFICES ASSUME OnTime, [PunctualNext]_vars PROVE OnTime'
    OBVIOUS
  <1>1. TypeInv' /\ FlagInv'
    BY TypeStep, FlagStep DEF OnTime, PunctualNext, Next, PunctualTick
  <1>2. ASSUME NEW w \in Worker, NEW r \in Record, NotifyRead(w, r) PROVE Calm' /\ Serial'
    BY <1>2 DEF NotifyRead, Idle, OnTime, Calm, Serial, TypeInv, TypeOK
  <1>3. ASSUME NEW w \in Worker, NotifySave(w) PROVE Calm' /\ Serial'
    <2>1. \A r \in Record : mon'[r].active = mon[r].active
      BY <1>3, Notifies
    <2>2. Calm'
      BY <1>3, <2>1, Values DEF NotifySave, OnTime, Calm, TypeInv, TypeOK
    <2> QED
      BY <1>3, <2>2 DEF NotifySave, OnTime, Serial
  <1>4. CASE Beat
    BY <1>4, <1>1 DEF Beat, OnTime, Calm, Serial, TypeInv, TypeOK
  <1>5. ASSUME NEW k \in Runner, RunStart(k) PROVE Calm' /\ Serial'
    BY <1>5, Starts DEF OnTime, Calm, Serial
  <1>6. ASSUME NEW k \in Runner, RunGoesOn(k) PROVE Calm' /\ Serial'
    <2>1. run'[k].pc # "idle" => run'[k].at = now
      BY <1>6, GoesOn, Moves DEF OnTime, RunGoesOn
    <2> QED
      BY <1>6, <2>1, GoesOn DEF OnTime, Calm, Serial
  <1>7. CASE PunctualTick
    BY <1>1, <1>7 DEF PunctualTick, Tick, OnTime, Calm, Serial
  <1>8. CASE UNCHANGED vars
    BY <1>1, <1>8 DEF vars, OnTime, Calm, Serial
  <1> QED
    BY <1>1, <1>2, <1>3, <1>4, <1>5, <1>6, <1>7, <1>8
    DEF OnTime, PunctualNext, Core, Notifying, RunStep, RunGoesOn

---------------------------------------------------------------------------
(* The worker takes other queues: the task never runs.                     *)

LEMMA UnservedInit == Init => Unserved
  BY Values DEF Init, Unserved, NewMonitoring

LEMMA UnservedStep ==
    ASSUME "default" \notin WorkerQueues, TypeInv, Unserved, [PunctualNext]_vars
    PROVE  Unserved'
  <1>0. /\ mon \in [Record -> Monitoring] /\ web \in [Worker -> Request]
        /\ queue \in Nat /\ now \in Nat /\ beaten \in BOOLEAN
        /\ \A w \in Worker : web[w].pc # "idle" => web[w].record \in Record
    BY DEF TypeInv, TypeOK, Pending, Time
  <1>1. ASSUME NEW w \in Worker, NEW r \in Record, NotifyRead(w, r) PROVE Unserved'
    BY <1>1 DEF NotifyRead, Unserved
  <1>2. ASSUME NEW w \in Worker, NotifySave(w) PROVE Unserved'
    <2> DEFINE r == web[w].record
               m == [mon[r] EXCEPT !.sent = now, !.deadline = Deadline(now)]
    <2>1. r \in Record /\ mon[r] \in Monitoring /\ mon' = [mon EXCEPT ![r] = m]
      BY <1>2, <1>0 DEF NotifySave
    <2>2. /\ m.sent = now /\ m.deadline = Deadline(now)
          /\ m.overdue = mon[r].overdue /\ m.escalated = mon[r].escalated
      BY <2>1 DEF Monitoring
    <2> HIDE DEF m
    <2>3. \A s \in Record :
             /\ mon'[s].overdue = mon[s].overdue /\ mon'[s].escalated = mon[s].escalated
             /\ \/ mon'[s] = mon[s]
                \/ mon'[s].sent = now /\ mon'[s].deadline = Deadline(now)
      <3>1. \A s \in Record : mon'[s] = IF s = r THEN m ELSE mon[s]
        BY <2>1, <1>0
      <3> QED
        BY <3>1, <2>2
    <2>4. UNCHANGED <<now, beaten, queue, run, told>>
      BY <1>2 DEF NotifySave
    <2> QED
      BY <2>3, <2>4 DEF Unserved
  <1>3. CASE Beat
    BY <1>3, <1>0 DEF Beat, Unserved
  <1>4. ASSUME NEW k \in Runner, RunStep(k) PROVE FALSE
    BY <1>4 DEF Unserved, RunStep, RunStart, RemindQuery, Remind, EscalateQuery, Escalate,
                EscalateSave, RunEnd
  <1>5. CASE PunctualTick
    <2>1. /\ now' = now + 1 /\ ~beaten' /\ (now % 2 = 0 => beaten)
          /\ UNCHANGED <<mon, queue, run, told>>
      BY <1>5 DEF PunctualTick, Tick
    <2>2. now' % 2 = 1 => now % 2 = 0
      BY <2>1, <1>0
    <2>3. now' % 2 = 1 => queue' > 0
      BY <2>1, <2>2 DEF Unserved
    <2> QED
      BY <2>1, <2>3, <1>0 DEF Unserved
  <1>6. CASE UNCHANGED vars
    BY <1>6 DEF vars, Unserved
  <1> QED
    BY <1>1, <1>2, <1>3, <1>4, <1>5, <1>6 DEF PunctualNext, Core, Notifying

\* Nothing is late on the day of the first notifications, the only one on
\* which the task has no work left to do.
LEMMA UnservedShows ==
    ASSUME TypeInv, Unserved
    PROVE  RemindedOnce /\ EscalatedOnce /\ EscalatedIsOverdue /\ OverdueOnTime
  <1>0. now \in Nat /\ now % 2 \in 0..1 /\ queue \in Nat
    BY DEF TypeInv, TypeOK, Time
  <1>1. \A r \in Record : /\ ~mon[r].overdue /\ ~mon[r].escalated
                          /\ told[r].reminder = 0 /\ told[r].escalation = 0
    BY DEF Unserved
  <1>2. TaskDone => \A r \in Record : mon[r].sent # None =>
                       mon[r].sent = now /\ mon[r].deadline = Deadline(now)
    <2>1. TaskDone => ~beaten /\ now % 2 = 1 /\ queue = 0
      BY <1>0 DEF TaskDone, Unserved
    <2> QED
      BY <2>1 DEF Unserved
  <1>3. ~(Deadline(now) < now - (now % 2)) /\ ~(now > now + 7) /\ ~(now > now + Days(8))
    BY <1>0, DeadlineBounds DEF Days
  <1>4. RemindedOnce
    BY <1>1, <1>2, <1>3 DEF RemindedOnce
  <1>5. EscalatedOnce
    BY <1>1, <1>2, <1>3 DEF EscalatedOnce
  <1>6. EscalatedIsOverdue
    BY <1>1 DEF EscalatedIsOverdue
  <1>7. OverdueOnTime
    BY <1>1, <1>2, <1>3 DEF OverdueOnTime
  <1> QED
    BY <1>4, <1>5, <1>6, <1>7

LEMMA UnservedRuns ==
    ASSUME "default" \notin WorkerQueues
    PROVE  PunctualSpec => [](RemindedOnce /\ EscalatedOnce /\ EscalatedIsOverdue /\ OverdueOnTime)
  <1>1. Init => TypeInv /\ Unserved
    BY TypeInit, UnservedInit
  <1>2. TypeInv /\ Unserved /\ [PunctualNext]_vars => (TypeInv /\ Unserved)'
    <2>1. [PunctualNext]_vars => [Next]_vars
      BY DEF PunctualNext, PunctualTick, Next
    <2> QED
      BY <2>1, TypeStep, UnservedStep
  <1>3. TypeInv /\ Unserved
           => RemindedOnce /\ EscalatedOnce /\ EscalatedIsOverdue /\ OverdueOnTime
    BY UnservedShows
  <1> QED
    BY <1>1, <1>2, <1>3, PTL DEF PunctualSpec, PunctualNext

---------------------------------------------------------------------------
(* Nothing is escalated before it is overdue.                              *)

LEMMA OverdueInit == Init => OverdueInv
  <1> SUFFICES ASSUME Init PROVE OverdueInv
    OBVIOUS
  <1>1. ~NewMonitoring.escalated
    BY DEF NewMonitoring
  <1>2. \A k \in Runner : run[k].pc = "idle"
    BY Values DEF Init
  <1> QED
    BY <1>1, <1>2 DEF Init, OverdueInv, Marked, EscalatedIsOverdue

LEMMA OverdueStep == OnTime /\ OverdueInv /\ [PunctualNext]_vars => OverdueInv'
  <1> SUFFICES ASSUME OnTime, OverdueInv, [PunctualNext]_vars PROVE OverdueInv'
    OBVIOUS
  <1>1. CASE UNCHANGED <<mon, now, run>>
    BY <1>1 DEF OverdueInv, Marked, EscalatedIsOverdue
  <1>2. ASSUME NEW w \in Worker, NotifySave(w) PROVE OverdueInv'
    <2>1. PICK r \in Record :
             /\ mon'[r].sent = now /\ mon'[r].deadline = Deadline(now) /\ ~mon'[r].escalated
             /\ \A s \in Record \ {r} : mon'[s] = mon[s]
             /\ UNCHANGED <<now, run>>
      BY <1>2, Notifies
    <2>2. ~(Deadline(now) < now)
      <3>1. now \in Nat
        BY DEF OnTime, TypeInv, TypeOK, Time
      <3> QED
        BY <3>1, DeadlineBounds DEF Days
    <2> QED
      BY <2>1, <2>2 DEF OverdueInv, Marked, EscalatedIsOverdue
  <1>3. ASSUME NEW k \in Runner, RunStart(k) PROVE OverdueInv'
    BY <1>3, Starts DEF OnTime, Calm, Late, OverdueInv, Marked, EscalatedIsOverdue
  <1>4. ASSUME NEW k \in Runner, RunGoesOn(k) PROVE OverdueInv'
    <2>1. Marked'
      BY <1>4, GoesOn DEF OverdueInv, Marked
    <2>2. EscalatedIsOverdue'
      <3>1. CASE mon' = mon
        BY <3>1 DEF OverdueInv, EscalatedIsOverdue
      <3>2. CASE EscalateSave(k)
        <4> DEFINE r == run[k].record
        <4>1. /\ run[k].pc = "saving" /\ r \in Record /\ Due(mon[r], now)
              /\ mon' = [mon EXCEPT ![r].escalated = TRUE]
          BY <3>2 DEF EscalateSave, OnTime, TypeInv, Pending, FlagInv, RunsAreSound
        <4>2. mon[r] \in Monitoring /\ Sound(mon[r], now) /\ now \in Nat
          BY <4>1 DEF OnTime, TypeInv, TypeOK, FlagInv, RowsAreSound, Time
        <4>3. mon[r].sent # None /\ mon[r].deadline < now
          BY <4>1, <4>2, DeadlineBounds DEF Due, Sound, Monitoring, Time, Days
        <4>4. mon[r].overdue
          BY <4>1, <4>3 DEF OverdueInv, Marked
        <4> HIDE DEF r
        <4>5. \A s \in Record : mon'[s].escalated => mon[s].escalated \/ s = r
          BY <4>1 DEF OnTime, TypeInv, TypeOK, Monitoring
        <4>6. \A s \in Record : mon'[s].overdue = mon[s].overdue
          BY <1>4, GoesOn
        <4> QED
          BY <4>4, <4>5, <4>6 DEF OverdueInv, EscalatedIsOverdue
      <3> QED
        BY <1>4, <3>1, <3>2 DEF RunGoesOn, RemindQuery, Remind, EscalateQuery, Escalate, RunEnd
    <2> QED
      BY <2>1, <2>2 DEF OverdueInv
  <1>5. CASE PunctualTick
    BY <1>5 DEF PunctualTick, Tick, OverdueInv, Marked, EscalatedIsOverdue
  <1> QED
    BY <1>1, <1>2, <1>3, <1>4, <1>5
    DEF PunctualNext, Core, Notifying, NotifyRead, Beat, RunStep, RunGoesOn, vars

LEMMA EscalatedServed ==
    ASSUME "default" \in WorkerQueues
    PROVE  PunctualSpec => []EscalatedIsOverdue
  <1>1. Init => OnTime /\ OverdueInv
    BY OnTimeInit, OverdueInit
  <1>2. OnTime /\ OverdueInv /\ [PunctualNext]_vars => (OnTime /\ OverdueInv)'
    BY OnTimeStep, OverdueStep
  <1>3. OverdueInv => EscalatedIsOverdue
    BY DEF OverdueInv
  <1> QED
    BY <1>1, <1>2, <1>3, PTL DEF PunctualSpec, PunctualNext

\* When the task runs to its end every day, what is escalated to the CIA
\* is marked overdue: seven calendar days are never less than the five
\* business days of the window (_add_business_days), and a run marks what
\* is late before it escalates (check_monitoring_deadlines).
THEOREM EscalatedAfterOverdue == PunctualSpec => []EscalatedIsOverdue
  <1>1. CASE "default" \in WorkerQueues
    BY <1>1, EscalatedServed
  <1>2. CASE "default" \notin WorkerQueues
    BY <1>2, UnservedRuns, PTL
  <1> QED
    BY <1>1, <1>2

---------------------------------------------------------------------------
(* Overdue on time.                                                        *)

\* The last 07:00 whose task has marked what was late.
LastMark ==
    IF now % 2 = 1 THEN now - 1 ELSE IF beaten /\ queue = 0 THEN now ELSE now - 2

OverdueExact ==
    \A r \in Record : mon[r].sent # None => (mon[r].overdue <=> mon[r].deadline < LastMark)

LEMMA ExactStep ==
    ASSUME "default" \in WorkerQueues, OnTime, OverdueExact, [PunctualNext]_vars
    PROVE  OverdueExact'
  <1>t. now \in Nat /\ now % 2 \in 0..1
    BY DEF OnTime, TypeInv, TypeOK, Time
  <1>d. \A r \in Record : mon[r].sent # None => mon[r].deadline \in Nat
    BY <1>t, DeadlineBounds
       DEF OnTime, TypeInv, TypeOK, FlagInv, RowsAreSound, Sound, Monitoring, Time
  <1>1. ASSUME NEW w \in Worker, NotifySave(w) PROVE OverdueExact'
    <2>1. PICK r \in Record :
             /\ mon'[r].sent = now /\ mon'[r].deadline = Deadline(now) /\ ~mon'[r].overdue
             /\ \A s \in Record \ {r} : mon'[s] = mon[s]
             /\ UNCHANGED <<now, beaten, queue>>
      BY <1>1, Notifies
    <2>2. LastMark' = LastMark /\ ~(Deadline(now) < LastMark)
      BY <1>t, <2>1, DeadlineBounds DEF LastMark, Days
    <2> QED
      BY <2>1, <2>2 DEF OverdueExact
  <1>2. CASE Beat
    <2>1. LastMark' = LastMark /\ mon' = mon
      BY <1>t, <1>2 DEF Beat, LastMark, OnTime, TypeInv, TypeOK
    <2> QED
      BY <2>1 DEF OverdueExact
  <1>3. ASSUME NEW k \in Runner, RunStart(k) PROVE OverdueExact'
    <2>1. LastMark = now - 2 /\ LastMark' = now
      BY <1>3, Starts DEF LastMark
    <2>2. \A r \in Record : /\ mon'[r].sent = mon[r].sent
                            /\ mon'[r].deadline = mon[r].deadline
                            /\ mon'[r].overdue <=> mon[r].overdue \/ Late(mon[r], now)
                            /\ mon[r].active
      BY <1>3, Starts DEF OnTime, Calm
    <2> QED
      BY <1>t, <1>d, <2>1, <2>2 DEF OverdueExact, Late
  <1>4. ASSUME NEW k \in Runner, RunGoesOn(k) PROVE OverdueExact'
    BY <1>4, GoesOn DEF OverdueExact, LastMark
  <1>5. CASE PunctualTick
    <2>1. /\ queue = 0 /\ (now % 2 = 0 => beaten) /\ now' = now + 1 /\ ~beaten'
          /\ mon' = mon /\ queue' = queue
      BY <1>5 DEF PunctualTick, Tick, OnTime, TypeInv, TypeOK
    <2>2. LastMark' = LastMark
      BY <1>t, <2>1 DEF LastMark
    <2> QED
      BY <2>1, <2>2 DEF OverdueExact
  <1>6. CASE UNCHANGED <<mon, now, beaten, queue>>
    BY <1>6 DEF OverdueExact, LastMark
  <1> QED
    BY <1>1, <1>2, <1>3, <1>4, <1>5, <1>6
    DEF PunctualNext, Core, Notifying, NotifyRead, RunStep, RunGoesOn, vars

LEMMA OverdueServed ==
    ASSUME "default" \in WorkerQueues
    PROVE  PunctualSpec => []OverdueOnTime
  <1>1. Init => OnTime /\ OverdueExact
    <2>1. NewMonitoring.sent = None
      BY DEF NewMonitoring
    <2> QED
      BY <2>1, OnTimeInit DEF Init, OverdueExact
  <1>2. OnTime /\ OverdueExact /\ [PunctualNext]_vars => (OnTime /\ OverdueExact)'
    BY OnTimeStep, ExactStep
  <1>3. OnTime /\ OverdueExact => OverdueOnTime
    <2> SUFFICES ASSUME OnTime, OverdueExact, TaskDone PROVE now - (now % 2) = LastMark
      BY DEF OverdueOnTime, OverdueExact
    <2>1. now \in Nat /\ now % 2 \in 0..1
      BY DEF OnTime, TypeInv, TypeOK, Time
    <2> QED
      BY <2>1 DEF TaskDone, LastMark
  <1> QED
    BY <1>1, <1>2, <1>3, PTL DEF PunctualSpec, PunctualNext

\* When the task runs every day, it marks overdue just what is late at that
\* 07:00, however many records, web workers and Celery processes there are:
\* a notification that overlaps a run is caught by a later one in time
\* (check_monitoring_deadlines, NotifyAuditeeView).
THEOREM OverdueWhenLate == PunctualSpec => []OverdueOnTime
  <1>1. CASE "default" \in WorkerQueues
    BY <1>1, OverdueServed
  <1>2. CASE "default" \notin WorkerQueues
    BY <1>2, UnservedRuns, PTL
  <1> QED
    BY <1>1, <1>2

---------------------------------------------------------------------------
(* One reminder.                                                           *)

LEMMA ReminderDay ==
    ASSUME NEW t \in Nat
    PROVE  LET e == ReminderAt(t) IN
           /\ e \in Nat /\ e % 2 = 0 /\ t < e /\ e <= t + 7
           /\ \A n \in Nat : n % 2 = 0 => (t + 5 < n /\ n <= t + 7 <=> n = e)
  <1>1. t % 2 \in 0..1
    OBVIOUS
  <1> QED
    BY <1>1 DEF ReminderAt

LEMMA ReminderInit == Init => ReminderInv
  <1> SUFFICES ASSUME Init PROVE ReminderInv
    OBVIOUS
  <1>1. \A r \in Record : mon[r].sent = None /\ told[r].reminder = 0
    BY DEF Init, NewMonitoring
  <1>2. \A k \in Runner : run[k].pc = "idle"
    BY Values DEF Init
  <1> QED
    BY <1>1, <1>2 DEF ReminderInv, ReminderPassed

LEMMA ReminderStep ==
    ASSUME "default" \in WorkerQueues
    PROVE  OnTime /\ ReminderInv /\ [PunctualNext]_vars => ReminderInv'
  <1> SUFFICES ASSUME OnTime, ReminderInv, [PunctualNext]_vars PROVE ReminderInv'
    OBVIOUS
  <1>0. /\ mon \in [Record -> Monitoring] /\ now \in Nat /\ now \in Time
        /\ told \in [Record -> [reminder : 0..2, escalation : 0..2]]
        /\ \A r \in Record : mon[r].sent # None => mon[r].sent \in Nat
        /\ \A k \in Runner : run[k].todo \subseteq Record
    BY DEF OnTime, TypeInv, TypeOK, Time, Monitoring, Run
  <1>1. CASE UNCHANGED <<mon, now, beaten, queue, run, told>>
    BY <1>1 DEF ReminderInv, ReminderPassed, BeforeReminder, ToRemind
  <1>2. ASSUME NEW w \in Worker, NotifySave(w) PROVE ReminderInv'
    <2>1. PICK r \in Record :
             /\ mon[r].sent \in {None, now} /\ mon'[r].sent = now
             /\ \A s \in Record \ {r} : mon'[s] = mon[s]
             /\ UNCHANGED <<now, beaten, queue, run, told>>
      BY <1>2, Notifies
    <2>2. now < ReminderAt(now) /\ ReminderAt(now) \in Nat
      BY <1>0, ReminderDay
    <2>3. ~ReminderPassed(r) /\ ~ReminderPassed(r)' /\ ~ToRemind(r)
      BY <2>1, <2>2, <1>0 DEF ReminderPassed, ToRemind
    <2>4. \A s \in Record \ {r} : (ReminderPassed(s)' <=> ReminderPassed(s))
                                  /\ (ToRemind(s) => ToRemind(s)')
      BY <2>1 DEF ReminderPassed, BeforeReminder, ToRemind
    <2> QED
      BY <2>1, <2>3, <2>4, <1>0 DEF ReminderInv
  <1>3. CASE Beat
    <2>1. /\ ~beaten /\ beaten' /\ queue' = queue + 1 /\ UNCHANGED <<mon, now, run, told>>
          /\ queue' > 0
      BY <1>3 DEF Beat, OnTime, TypeInv, TypeOK
    <2>2. \A r \in Record : ReminderPassed(r)' <=> ReminderPassed(r)
      BY <2>1 DEF ReminderPassed, BeforeReminder
    <2> QED
      BY <2>1, <2>2 DEF ReminderInv, ToRemind
  <1>4. ASSUME NEW k \in Runner, RunStart(k) PROVE ReminderInv'
    <2>1. \A r \in Record : ReminderPassed(r)' <=> ReminderPassed(r)
      BY <1>4, Starts DEF ReminderPassed, BeforeReminder
    <2>2. \A l \in Runner : run'[l].pc # "reminding"
      BY <1>4, Starts
    <2> QED
      BY <1>4, <2>1, <2>2, Starts DEF ReminderInv
  <1>5. ASSUME NEW k \in Runner, RunGoesOn(k) PROVE ReminderInv'
    <2>1. /\ beaten /\ queue = 0 /\ now % 2 = 0
          /\ run[k].pc # "idle" /\ run[k].at = now
          /\ \A l \in Runner \ {k} : run[l].pc = "idle" /\ run'[l] = run[l]
          /\ UNCHANGED <<now, beaten, queue>>
          /\ \A r \in Record : mon'[r].sent = mon[r].sent
      BY <1>5, GoesOn
    <2>2. \A r \in Record :
             /\ BeforeReminder(r) <=> \/ run[k].pc = "marked"
                                      \/ run[k].pc = "reminding" /\ r \in run[k].todo
             /\ BeforeReminder(r)' <=> \/ run'[k].pc = "marked"
                                       \/ run'[k].pc = "reminding" /\ r \in run'[k].todo
             /\ ToRemind(r)' <=> ToRemind(r)
      BY <2>1, <1>0 DEF BeforeReminder, ToRemind
    \* The only case in which a reminder goes out.
    <2>3. ASSUME NEW r \in Record, Remind(k, r) PROVE ReminderInv'
      <3>1. /\ run[k].pc = "reminding" /\ r \in run[k].todo
            /\ run'[k].pc = "reminding" /\ run'[k].todo = run[k].todo \ {r}
            /\ told' = [told EXCEPT ![r].reminder = Once(told[r].reminder)]
        BY <2>3, Moves DEF Remind, OnTime
      <3>2. ToRemind(r) /\ ~ReminderPassed(r) /\ ReminderPassed(r)'
        BY <3>1, <2>1, <2>2, <1>0, ReminderDay DEF ReminderInv, ReminderPassed, ToRemind
      <3>3. told'[r].reminder = 1
        BY <3>1, <3>2, <1>0 DEF ReminderInv, Once
      <3>4. \A s \in Record \ {r} : /\ told'[s] = told[s]
                                    /\ ReminderPassed(s)' <=> ReminderPassed(s)
        BY <3>1, <2>1, <2>2, <1>0 DEF ReminderPassed
      <3> QED
        BY <3>1, <3>2, <3>3, <3>4, <2>1, <2>2, <1>0 DEF ReminderInv
    <2>4. CASE RemindQuery(k)
      <3>1. /\ run[k].pc = "marked" /\ run'[k].pc = "reminding"
            /\ run'[k].todo = {r \in Record : InReminderWindow(mon[r], now)}
            /\ told' = told
        BY <2>4, <2>1, Moves DEF RemindQuery, OnTime
      <3>2. \A r \in Record : r \in run'[k].todo <=> ToRemind(r)
        BY <3>1, <2>1, <1>0, ReminderDay DEF InReminderWindow, ToRemind, OnTime, Calm
      <3>3. \A r \in Record : ReminderPassed(r)' <=> ReminderPassed(r)
        BY <3>1, <3>2, <2>1, <2>2 DEF ReminderPassed, ToRemind
      <3> QED
        BY <3>1, <3>2, <3>3, <2>1, <2>2 DEF ReminderInv
    <2>5. CASE \/ EscalateQuery(k) \/ EscalateSave(k) \/ RunEnd(k)
               \/ \E r \in Record : Escalate(k, r)
      <3>1. /\ run[k].pc # "marked" /\ (run[k].pc = "reminding" => run[k].todo = {})
            /\ run'[k].pc \notin {"marked", "reminding"}
        BY <2>5, Moves DEF OnTime
      <3>2. \A r \in Record : told'[r].reminder = told[r].reminder
        <4>1. ASSUME NEW s \in Record, Escalate(k, s)
              PROVE  \A r \in Record : told'[r].reminder = told[r].reminder
          BY <4>1, <1>0 DEF Escalate
        <4>2. CASE EscalateQuery(k) \/ EscalateSave(k) \/ RunEnd(k)
          BY <4>2 DEF EscalateQuery, EscalateSave, RunEnd
        <4> QED
          BY <2>5, <4>1, <4>2
      <3>3. \A r \in Record : ReminderPassed(r)' <=> ReminderPassed(r)
        BY <3>1, <2>1, <2>2 DEF ReminderPassed
      <3> QED
        BY <3>1, <3>2, <3>3, <2>1 DEF ReminderInv
    <2> QED
      BY <1>5, <2>3, <2>4, <2>5 DEF RunGoesOn
  <1>6. CASE PunctualTick
    <2>1. /\ now' = now + 1 /\ ~beaten' /\ UNCHANGED <<mon, run, told>>
          /\ \A k \in Runner : run[k].pc = "idle"
          /\ queue = 0 /\ (now % 2 = 0 => beaten)
      BY <1>6 DEF PunctualTick, Tick, OnTime, Serial
    <2>2. \A r \in Record : BeforeReminder(r)'
      BY <2>1 DEF BeforeReminder
    <2>3. \A r \in Record : mon[r].sent # None =>
             LET e == ReminderAt(mon[r].sent) IN
             e \in Nat /\ e % 2 = 0 /\ (now = e => ~BeforeReminder(r))
      <3> SUFFICES ASSUME NEW r \in Record, mon[r].sent # None
                   PROVE  LET e == ReminderAt(mon[r].sent) IN
                          e \in Nat /\ e % 2 = 0 /\ (now = e => ~BeforeReminder(r))
        OBVIOUS
      <3>1. ReminderAt(mon[r].sent) \in Nat /\ ReminderAt(mon[r].sent) % 2 = 0
        BY <1>0, ReminderDay
      <3>2. now % 2 = 0 => ~BeforeReminder(r)
        BY <2>1 DEF BeforeReminder
      <3> QED
        BY <3>1, <3>2
    <2>4. ASSUME NEW r \in Record PROVE ReminderPassed(r)' <=> ReminderPassed(r)
      <3>1. mon'[r] = mon[r] /\ now \in Nat /\ now' = now + 1 /\ BeforeReminder(r)'
        BY <2>1, <2>2, <1>0
      <3>2. CASE mon[r].sent = None
        BY <3>1, <3>2 DEF ReminderPassed
      <3>3. CASE mon[r].sent # None
        <4> DEFINE e == ReminderAt(mon[r].sent)
        <4>1. e \in Nat /\ (now = e => ~BeforeReminder(r))
          BY <2>3, <3>3
        <4>2. ReminderPassed(r) <=> now > e \/ (now = e /\ ~BeforeReminder(r))
          BY <3>3 DEF ReminderPassed
        <4>3. ReminderPassed(r)' <=> now' > e \/ (now' = e /\ ~BeforeReminder(r)')
          BY <3>1, <3>3 DEF ReminderPassed
        <4> HIDE DEF e
        <4> QED
          BY <3>1, <4>1, <4>2, <4>3
      <3> QED
        BY <3>2, <3>3
    <2> QED
      BY <2>1, <2>4 DEF ReminderInv
  <1> QED
    BY <1>1, <1>2, <1>3, <1>4, <1>5, <1>6
    DEF PunctualNext, Core, Notifying, NotifyRead, RunStep, RunGoesOn, vars

LEMMA RemindsServed ==
    ASSUME "default" \in WorkerQueues
    PROVE  PunctualSpec => []RemindedOnce
  <1>1. Init => OnTime /\ ReminderInv
    BY OnTimeInit, ReminderInit
  <1>2. OnTime /\ ReminderInv /\ [PunctualNext]_vars => (OnTime /\ ReminderInv)'
    BY OnTimeStep, ReminderStep
  <1>3. OnTime /\ ReminderInv => RemindedOnce
    <2> SUFFICES ASSUME OnTime, ReminderInv, NEW r \in Record, mon[r].sent # None
                 PROVE  /\ told[r].reminder <= 1
                        /\ now > mon[r].sent + 7 => told[r].reminder = 1
      BY DEF RemindedOnce
    <2>1. mon[r].sent \in Nat /\ now \in Nat
      BY DEF OnTime, TypeInv, TypeOK, Monitoring, Time
    <2>2. now > mon[r].sent + 7 => ReminderPassed(r)
      <3> DEFINE e == ReminderAt(mon[r].sent)
      <3>1. e \in Nat /\ e <= mon[r].sent + 7
        BY <2>1, ReminderDay
      <3> HIDE DEF e
      <3>2. now > mon[r].sent + 7 => now > e
        BY <2>1, <3>1
      <3> QED
        BY <3>2 DEF ReminderPassed, e
    <2> QED
      BY <2>2 DEF ReminderInv
  <1> QED
    BY <1>1, <1>2, <1>3, PTL DEF PunctualSpec, PunctualNext

\* Daily runs remind of every notified record once, on the first 07:00 that
\* is more than two and a half days after the notification: the windows of
\* two runs neither overlap nor leave a gap (check_monitoring_deadlines).
THEOREM RemindsOnce == PunctualSpec => []RemindedOnce
  <1>1. CASE "default" \in WorkerQueues
    BY <1>1, RemindsServed
  <1>2. CASE "default" \notin WorkerQueues
    BY <1>2, UnservedRuns, PTL
  <1> QED
    BY <1>1, <1>2

---------------------------------------------------------------------------
(* One escalation.                                                         *)

LEMMA EscalationDay ==
    ASSUME NEW t \in Nat
    PROVE  LET e == EscalationAt(t) IN
           /\ e \in Nat /\ e % 2 = 0 /\ t < e /\ e <= t + 16
           /\ \A n \in Nat : n % 2 = 0 => (t + 14 < n <=> e <= n)
  <1>1. t % 2 \in 0..1
    OBVIOUS
  <1> QED
    BY <1>1 DEF EscalationAt

LEMMA EscalationInit == Init => EscalationInv
  <1> SUFFICES ASSUME Init PROVE EscalationInv
    OBVIOUS
  <1>1. \A r \in Record : mon[r].sent = None /\ ~mon[r].escalated /\ told[r].escalation = 0
    BY DEF Init, NewMonitoring
  <1>2. \A k \in Runner : run[k].pc = "idle"
    BY Values DEF Init
  <1> QED
    BY <1>1, <1>2 DEF EscalationInv, EscalationPassed

\* The steps of a run.
LEMMA EscalationRun ==
    OnTime /\ EscalationInv /\ (\E k \in Runner : RunGoesOn(k)) => EscalationInv'
  <1> SUFFICES ASSUME OnTime, EscalationInv, NEW k \in Runner, RunGoesOn(k)
               PROVE  EscalationInv'
    OBVIOUS
  <1>0. /\ mon \in [Record -> Monitoring] /\ now \in Nat /\ now \in Time
        /\ told \in [Record -> [reminder : 0..2, escalation : 0..2]]
        /\ \A r \in Record : mon[r].sent # None => mon[r].sent \in Nat
        /\ run[k].todo \subseteq Record
        /\ run[k].pc = "saving" => run[k].record \in Record
    BY DEF OnTime, TypeInv, TypeOK, Pending, Time, Monitoring, Run
  <1>1. /\ beaten /\ queue = 0 /\ now % 2 = 0
        /\ run[k].pc # "idle" /\ run[k].at = now
        /\ \A l \in Runner \ {k} : run[l].pc = "idle" /\ run'[l] = run[l]
        /\ UNCHANGED <<now, beaten, queue>>
        /\ \A r \in Record : mon'[r].sent = mon[r].sent
    BY GoesOn
  <1>2. \A r \in Record :
           /\ BeforeEscalation(r) <=>
                \/ run[k].pc \in {"marked", "reminding"}
                \/ run[k].pc \in {"escalating", "saving"} /\ r \in run[k].todo
           /\ BeforeEscalation(r)' <=>
                \/ run'[k].pc \in {"marked", "reminding"}
                \/ run'[k].pc \in {"escalating", "saving"} /\ r \in run'[k].todo
           /\ SavingEscalation(r) <=> run[k].pc = "saving" /\ run[k].record = r
           /\ SavingEscalation(r)' <=> run'[k].pc = "saving" /\ run'[k].record = r
           /\ ToEscalateNow(r)' <=> ToEscalateNow(r)
    BY <1>1, <1>0 DEF BeforeEscalation, SavingEscalation, ToEscalateNow
  \* Before the query nothing is escalated.
  <1>3. ASSUME RemindQuery(k) \/ \E r \in Record : Remind(k, r) PROVE EscalationInv'
    <2>1. run[k].pc \in {"marked", "reminding"} /\ run'[k].pc = "reminding" /\ mon' = mon
      BY <1>3, Moves DEF RemindQuery, Remind, OnTime
    <2>2. \A r \in Record : told'[r].escalation = told[r].escalation
      <3>1. ASSUME NEW s \in Record, Remind(k, s)
            PROVE  \A r \in Record : told'[r].escalation = told[r].escalation
        BY <3>1, <1>0 DEF Remind
      <3>2. CASE RemindQuery(k)
        BY <3>2 DEF RemindQuery
      <3> QED
        BY <1>3, <3>1, <3>2
    <2>3. \A r \in Record : /\ EscalationPassed(r)' <=> EscalationPassed(r)
                            /\ SavingEscalation(r)' <=> SavingEscalation(r)
      BY <2>1, <1>1, <1>2 DEF EscalationPassed
    <2> QED
      BY <2>1, <2>2, <2>3, <1>1 DEF EscalationInv
  \* The query finds the records whose turn it is.
  <1>4. CASE EscalateQuery(k)
    <2>1. /\ run[k].pc = "reminding" /\ run'[k].pc = "escalating"
          /\ run'[k].todo = {r \in Record : ToEscalate(mon[r], now)}
          /\ mon' = mon /\ told' = told
      BY <1>4, <1>1, Moves DEF EscalateQuery, OnTime
    <2>2. \A r \in Record : r \in run'[k].todo <=> ToEscalateNow(r)
      <3> SUFFICES ASSUME NEW r \in Record, mon[r].sent # None
                   PROVE  ToEscalate(mon[r], now) <=> now = EscalationAt(mon[r].sent)
        BY <2>1 DEF ToEscalate, ToEscalateNow
      <3> DEFINE e == EscalationAt(mon[r].sent)
      <3>1. e \in Nat /\ (mon[r].sent + 14 < now <=> e <= now)
        BY <1>0, <1>1, EscalationDay
      <3>2. EscalationPassed(r) <=> now > e
        BY <2>1, <1>2 DEF EscalationPassed
      <3>3. mon[r].escalated <=> now > e
        BY <2>1, <3>2, <1>2 DEF EscalationInv
      <3>4. ToEscalate(mon[r], now) <=> mon[r].sent + 14 < now /\ ~mon[r].escalated
        BY DEF ToEscalate, Days, OnTime, Calm
      <3> HIDE DEF e
      <3>5. ToEscalate(mon[r], now) <=> now = e
        BY <3>1, <3>3, <3>4, <1>0
      <3> QED
        BY <3>5 DEF e
    <2>3. \A r \in Record : /\ EscalationPassed(r)' <=> EscalationPassed(r)
                            /\ SavingEscalation(r)' <=> SavingEscalation(r)
      BY <2>1, <2>2, <1>1, <1>2 DEF EscalationPassed, ToEscalateNow
    <2> QED
      BY <2>1, <2>2, <2>3, <1>1, <1>2 DEF EscalationInv
  \* Announced, but not flagged yet.
  <1>5. ASSUME NEW r \in Record, Escalate(k, r) PROVE EscalationInv'
    <2>1. /\ run[k].pc = "escalating" /\ r \in run[k].todo
          /\ run'[k].pc = "saving" /\ run'[k].record = r /\ run'[k].todo = run[k].todo \ {r}
          /\ told' = [told EXCEPT ![r].escalation = Once(told[r].escalation)]
          /\ mon' = mon
      BY <1>5, Moves DEF Escalate, OnTime
    <2>2. ToEscalateNow(r) /\ ~EscalationPassed(r) /\ EscalationPassed(r)'
      BY <2>1, <1>1, <1>2, <1>0, EscalationDay
      DEF EscalationInv, EscalationPassed, ToEscalateNow
    <2>3. told'[r].escalation = 1
      BY <2>1, <2>2, <1>0 DEF EscalationInv, Once
    <2>4. \A s \in Record \ {r} : /\ told'[s] = told[s]
                                  /\ EscalationPassed(s)' <=> EscalationPassed(s)
                                  /\ ~SavingEscalation(s) /\ ~SavingEscalation(s)'
      BY <2>1, <1>1, <1>2, <1>0 DEF EscalationPassed
    <2>5. ~mon'[r].escalated /\ SavingEscalation(r)'
      BY <2>1, <2>2, <1>2 DEF EscalationInv
    <2>6. /\ \A s \in run'[k].todo : s \in Record /\ ToEscalateNow(s)'
          /\ ToEscalateNow(r)' /\ r \notin run'[k].todo
      BY <2>1, <2>2, <1>0, <1>2 DEF EscalationInv
    <2> QED
      BY <2>1, <2>2, <2>3, <2>4, <2>5, <2>6, <1>1 DEF EscalationInv
  \* Flagged.
  <1>6. CASE EscalateSave(k)
    <2> DEFINE r == run[k].record
    <2>1. /\ run[k].pc = "saving" /\ r \in Record
          /\ run'[k].pc = "escalating" /\ run'[k].todo = run[k].todo
          /\ mon' = [mon EXCEPT ![r].escalated = TRUE] /\ told' = told
      BY <1>6, <1>0, Moves DEF EscalateSave, OnTime
    <2>2. ToEscalateNow(r) /\ r \notin run[k].todo
      BY <2>1 DEF EscalationInv
    <2>3. \A s \in Record : /\ SavingEscalation(s) <=> s = r
                            /\ ~SavingEscalation(s)'
      BY <2>1, <1>2
    <2> HIDE DEF r
    <2>4. EscalationPassed(r)
      BY <2>1, <2>2, <1>1, <1>2 DEF EscalationPassed, ToEscalateNow
    <2>5. \A s \in Record : EscalationPassed(s)' <=> EscalationPassed(s)
      BY <2>1, <1>1, <1>2 DEF EscalationPassed
    <2>6. mon'[r].escalated /\ \A s \in Record \ {r} : mon'[s] = mon[s]
      BY <2>1, <1>0 DEF Monitoring
    <2>7. \A s \in Record : mon'[s].escalated <=> EscalationPassed(s)'
      BY <2>3, <2>4, <2>5, <2>6 DEF EscalationInv
    <2>8. \A s \in run'[k].todo : s \in Record /\ ToEscalateNow(s)'
      BY <2>1, <1>0, <1>2 DEF EscalationInv
    <2> QED
      BY <2>1, <2>3, <2>5, <2>7, <2>8, <1>1 DEF EscalationInv
  <1>7. CASE RunEnd(k)
    <2>1. /\ run[k].pc = "escalating" /\ run[k].todo = {} /\ run'[k].pc = "idle"
          /\ mon' = mon /\ told' = told
      BY <1>7, Moves DEF RunEnd, OnTime
    <2>2. \A r \in Record : /\ EscalationPassed(r)' <=> EscalationPassed(r)
                            /\ SavingEscalation(r)' <=> SavingEscalation(r)
      BY <2>1, <1>1, <1>2 DEF EscalationPassed
    <2> QED
      BY <2>1, <2>2, <1>1 DEF EscalationInv
  <1> QED
    BY <1>3, <1>4, <1>5, <1>6, <1>7 DEF RunGoesOn

LEMMA EscalationStep ==
    ASSUME "default" \in WorkerQueues
    PROVE  OnTime /\ EscalationInv /\ [PunctualNext]_vars => EscalationInv'
  <1> SUFFICES ASSUME OnTime, EscalationInv, [PunctualNext]_vars PROVE EscalationInv'
    OBVIOUS
  <1>0. /\ mon \in [Record -> Monitoring] /\ now \in Nat /\ now \in Time
        /\ \A r \in Record : mon[r].sent # None => mon[r].sent \in Nat
        /\ \A k \in Runner : run[k].todo \subseteq Record
        /\ \A k \in Runner : run[k].pc = "saving" => run[k].record \in Record
    BY DEF OnTime, TypeInv, TypeOK, Pending, Time, Monitoring, Run
  <1>1. CASE UNCHANGED <<mon, now, beaten, queue, run, told>>
    BY <1>1 DEF EscalationInv, EscalationPassed, BeforeEscalation, SavingEscalation,
                ToEscalateNow
  <1>2. ASSUME NEW w \in Worker, NotifySave(w) PROVE EscalationInv'
    <2>1. PICK r \in Record :
             /\ mon[r].sent \in {None, now} /\ mon'[r].sent = now
             /\ ~mon[r].escalated /\ ~mon'[r].escalated
             /\ \A s \in Record \ {r} : mon'[s] = mon[s]
             /\ UNCHANGED <<now, beaten, queue, run, told>>
      BY <1>2, Notifies
    <2>2. now < EscalationAt(now) /\ EscalationAt(now) \in Nat
      BY <1>0, EscalationDay
    <2>3. ~EscalationPassed(r) /\ ~EscalationPassed(r)' /\ ~ToEscalateNow(r)
      BY <2>1, <2>2, <1>0 DEF EscalationPassed, ToEscalateNow
    <2>4. \A s \in Record \ {r} : /\ EscalationPassed(s)' <=> EscalationPassed(s)
                                  /\ ToEscalateNow(s) => ToEscalateNow(s)'
      BY <2>1 DEF EscalationPassed, BeforeEscalation, ToEscalateNow
    <2>5. \A s \in Record : SavingEscalation(s)' <=> SavingEscalation(s)
      BY <2>1 DEF SavingEscalation
    <2>6. \A s \in Record : /\ told'[s].escalation = IF EscalationPassed(s)' THEN 1 ELSE 0
                            /\ mon'[s].escalated <=> EscalationPassed(s)' /\ ~SavingEscalation(s)'
      BY <2>1, <2>3, <2>4, <2>5 DEF EscalationInv
    <2>7. \A s \in Record : ToEscalateNow(s) => ToEscalateNow(s)'
      BY <2>3, <2>4
    <2> QED
      BY <2>1, <2>6, <2>7, <1>0 DEF EscalationInv
  <1>3. CASE Beat
    <2>1. /\ ~beaten /\ beaten' /\ queue' > 0 /\ UNCHANGED <<mon, now, run, told>>
      BY <1>3 DEF Beat, OnTime, TypeInv, TypeOK
    <2>2. \A r \in Record : EscalationPassed(r)' <=> EscalationPassed(r)
      BY <2>1 DEF EscalationPassed, BeforeEscalation
    <2>3. \A r \in Record : SavingEscalation(r)' <=> SavingEscalation(r)
      BY <2>1 DEF SavingEscalation
    <2> QED
      BY <2>1, <2>2, <2>3 DEF EscalationInv, ToEscalateNow
  <1>4. ASSUME NEW k \in Runner, RunStart(k) PROVE EscalationInv'
    <2>1. \A r \in Record : EscalationPassed(r)' <=> EscalationPassed(r)
      BY <1>4, Starts DEF EscalationPassed, BeforeEscalation
    <2>2. \A l \in Runner : run'[l].pc \notin {"escalating", "saving"}
      BY <1>4, Starts
    <2>3. \A r \in Record : ~SavingEscalation(r) /\ ~SavingEscalation(r)'
      BY <1>4, <2>2, Starts DEF SavingEscalation
    <2> QED
      BY <1>4, <2>1, <2>2, <2>3, Starts DEF EscalationInv
  <1>5. CASE PunctualTick
    <2>1. /\ now' = now + 1 /\ ~beaten' /\ UNCHANGED <<mon, run, told>>
          /\ \A k \in Runner : run[k].pc = "idle"
          /\ queue = 0 /\ (now % 2 = 0 => beaten)
      BY <1>5 DEF PunctualTick, Tick, OnTime, Serial
    <2>2. \A r \in Record : BeforeEscalation(r)'
      BY <2>1 DEF BeforeEscalation
    <2>3. \A r \in Record : mon[r].sent # None =>
             LET e == EscalationAt(mon[r].sent) IN
             e \in Nat /\ e % 2 = 0 /\ (now = e => ~BeforeEscalation(r))
      <3> SUFFICES ASSUME NEW r \in Record, mon[r].sent # None
                   PROVE  LET e == EscalationAt(mon[r].sent) IN
                          e \in Nat /\ e % 2 = 0 /\ (now = e => ~BeforeEscalation(r))
        OBVIOUS
      <3>1. EscalationAt(mon[r].sent) \in Nat /\ EscalationAt(mon[r].sent) % 2 = 0
        BY <1>0, EscalationDay
      <3>2. now % 2 = 0 => ~BeforeEscalation(r)
        BY <2>1 DEF BeforeEscalation
      <3> QED
        BY <3>1, <3>2
    <2>4. \A r \in Record : EscalationPassed(r)' <=> EscalationPassed(r)
      BY <2>1, <2>2, <2>3, <1>0 DEF EscalationPassed
    <2>5. \A r \in Record : ~SavingEscalation(r) /\ ~SavingEscalation(r)'
      BY <2>1 DEF SavingEscalation
    <2> QED
      BY <2>1, <2>4, <2>5 DEF EscalationInv
  <1> QED
    BY <1>1, <1>2, <1>3, <1>4, <1>5, EscalationRun
    DEF PunctualNext, Core, Notifying, NotifyRead, RunStep, RunGoesOn, vars

LEMMA EscalatesServed ==
    ASSUME "default" \in WorkerQueues
    PROVE  PunctualSpec => []EscalatedOnce
  <1>1. Init => OnTime /\ EscalationInv
    BY OnTimeInit, EscalationInit
  <1>2. OnTime /\ EscalationInv /\ [PunctualNext]_vars => (OnTime /\ EscalationInv)'
    BY OnTimeStep, EscalationStep
  <1>3. OnTime /\ EscalationInv => EscalatedOnce
    <2> SUFFICES ASSUME OnTime, EscalationInv, NEW r \in Record, mon[r].sent # None
                 PROVE  /\ told[r].escalation <= 1
                        /\ now > mon[r].sent + 16 => told[r].escalation = 1
      BY DEF EscalatedOnce, Days
    <2>1. mon[r].sent \in Nat /\ now \in Nat
      BY DEF OnTime, TypeInv, TypeOK, Monitoring, Time
    <2>2. now > mon[r].sent + 16 => EscalationPassed(r)
      <3>1. EscalationAt(mon[r].sent) \in Nat /\ EscalationAt(mon[r].sent) <= mon[r].sent + 16
        BY <2>1, EscalationDay
      <3>2. now > mon[r].sent + 16 => now > EscalationAt(mon[r].sent)
        BY <2>1, <3>1
      <3> QED
        BY <3>2 DEF EscalationPassed
    <2> QED
      BY <2>2 DEF EscalationInv
  <1> QED
    BY <1>1, <1>2, <1>3, PTL DEF PunctualSpec, PunctualNext

\* Daily runs announce a record to the CIA once, on the first 07:00 that is
\* more than seven days after the notification, and flag it in the same run
\* (check_monitoring_deadlines).
THEOREM EscalatesOnce == PunctualSpec => []EscalatedOnce
  <1>1. CASE "default" \in WorkerQueues
    BY <1>1, EscalatesServed
  <1>2. CASE "default" \notin WorkerQueues
    BY <1>2, UnservedRuns, PTL
  <1> QED
    BY <1>1, <1>2
==============================================================================
