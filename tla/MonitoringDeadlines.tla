------------------------ MODULE MonitoringDeadlines ------------------------
(***************************************************************************)
(* The follow-up of audit recommendations: notifying the auditee opens a   *)
(* response window, and a Celery task enforces it every day at 07:00: it   *)
(* marks records overdue, sends the reminder of day 3 and escalates to the *)
(* CIA after day 7.                                                        *)
(*                                                                         *)
(* Time is counted in half days from a Monday at 07:00: even times are     *)
(* 07:00, odd ones 19:00 of the same date.  The auditee's answer does not  *)
(* occur: no code sets auditee_responded_at.  Announcing is what the task  *)
(* does, not what Kafka sees: publish_audit_plan_event drops every type    *)
(* that is not of a plan, and its result is not looked at.                 *)
(***************************************************************************)
EXTENDS Integers

CONSTANTS
    Record,        \* implementation monitoring records
    Worker,        \* the web workers
    Runner,        \* the Celery worker's processes
    WorkerQueues,  \* the queues the Celery worker was told to take
    Last,          \* the last half day: bounds the time
    Backlog,       \* messages that wait for a process: bounds the queue
    None

ASSUME ConstantsAssumption ==
    /\ Last \in Nat /\ Backlog \in Nat
    /\ None \notin Nat \union Record \union Worker \union Runner

VARIABLES
    mon,      \* the row of each record
    reco,     \* the status of the recommendation it follows
    web,      \* what each web worker is doing
    now,      \* the time
    beaten,   \* celery beat has sent the task of this 07:00
    queue,    \* messages for the task in the queue "default"
    run,      \* what each Celery process is doing
    told      \* how often each record was announced, up to "twice"

vars == <<mon, reco, web, now, beaten, queue, run, told>>

Time == 0..Last
Days(n) == 2 * n

\* "running" stands for the statuses up to implemented.
RecoStatus == {"running", "verified", "closed"}

Monitoring == [sent : Time \union {None}, deadline : Nat \union {None},
               overdue : BOOLEAN, escalated : BOOLEAN, active : BOOLEAN]
NewMonitoring == [sent |-> None, deadline |-> None,
                  overdue |-> FALSE, escalated |-> FALSE, active |-> TRUE]

Request == [pc : {"idle", "notifying", "editing"}, record : Record \union {None},
            copy : Monitoring]
Idle == [pc |-> "idle", record |-> None, copy |-> NewMonitoring]

Run == [pc : {"idle", "marked", "reminding", "escalating", "saving"}, at : Time,
        todo : SUBSET Record, record : Record \union {None}]
NoRun == [pc |-> "idle", at |-> 0, todo |-> {}, record |-> None]

TypeOK ==
    /\ mon \in [Record -> Monitoring]
    /\ reco \in [Record -> RecoStatus]
    /\ web \in [Worker -> Request]
    /\ now \in Time
    /\ beaten \in BOOLEAN
    /\ queue \in 0..Backlog
    /\ run \in [Runner -> Run]
    /\ told \in [Record -> [reminder : 0..2, escalation : 0..2]]

\* Observation starts on any day of the week.
Init ==
    /\ mon = [r \in Record |-> NewMonitoring]
    /\ reco = [r \in Record |-> "running"]
    /\ web = [w \in Worker |-> Idle]
    /\ now \in (0..13) \intersect Time
    /\ beaten = FALSE
    /\ queue = 0
    /\ run = [k \in Runner |-> NoRun]
    /\ told = [r \in Record |-> [reminder |-> 0, escalation |-> 0]]

Once(n) == IF n = 2 THEN 2 ELSE n + 1

---------------------------------------------------------------------------
(* Notifying the auditee.                                                  *)

IsWeekday(day) == day % 7 < 5

\* Walks on day by day; only a weekday counts.
AddBusinessDays[day \in Nat] ==
    [n \in Nat |->
        IF n = 0 THEN day
        ELSE AddBusinessDays[day + 1][IF IsWeekday(day + 1) THEN n - 1 ELSE n]]

\* Mutant of Deadline: the last day of the window is left out of the count.
DeadlineLate(t) == Days(AddBusinessDays[t \div 2][6]) + (t % 2)

\* The same time of day, five business days on.
Deadline(t) == Days(AddBusinessDays[t \div 2][5]) + (t % 2)

\* The view reads the record, without a lock: not notified yet ...
NotifyRead(w, r) ==
    /\ web[w].pc = "idle"
    /\ mon[r].sent = None
    /\ web' = [web EXCEPT ![w] = [Idle EXCEPT !.pc = "notifying", !.record = r]]
    /\ UNCHANGED <<mon, reco, now, beaten, queue, run, told>>

\* ... and saves the two columns.
NotifySave(w) ==
    LET r == web[w].record IN
    /\ web[w].pc = "notifying"
    /\ mon' = [mon EXCEPT ![r].sent = now, ![r].deadline = Deadline(now)]
    /\ web' = [web EXCEPT ![w] = Idle]
    /\ UNCHANGED <<reco, now, beaten, queue, run, told>>

---------------------------------------------------------------------------
(* The daily task.                                                         *)

\* 07:00: beat sends the task to the queue "default".
Beat ==
    /\ now % 2 = 0
    /\ ~beaten
    /\ queue < Backlog
    /\ beaten' = TRUE
    /\ queue' = queue + 1
    /\ UNCHANGED <<mon, reco, web, now, run, told>>

\* Mutant of Late: only deadlines between the previous run and this one.
LateSinceYesterday(m, t) ==
    m.sent # None /\ m.deadline + Days(1) > t /\ m.deadline < t /\ ~m.overdue /\ m.active

Late(m, t) == m.sent # None /\ m.deadline < t /\ ~m.overdue /\ m.active

\* Mutant of InReminderWindow: both ends belong to the window.
InReminderWindowClosed(m, t) ==
    m.sent # None /\ m.sent + 5 <= t /\ t <= m.sent + 7 /\ m.active

\* Notified within [now - 3.5 days, now - 2.5 days).
InReminderWindow(m, t) ==
    m.sent # None /\ m.sent + 5 < t /\ t <= m.sent + 7 /\ m.active

\* Mutant of ToEscalate: counted in business days, as the deadline is.
ToEscalateEarly(m, t) ==
    m.sent # None /\ m.sent + Days(5) < t /\ ~m.escalated /\ m.active

\* Notified more than seven days ago.
ToEscalate(m, t) == m.sent # None /\ m.sent + Days(7) < t /\ ~m.escalated /\ m.active

\* A process takes the message, notes the time and marks what is late.
RunStart(k) ==
    /\ run[k].pc = "idle"
    /\ queue > 0
    /\ "default" \in WorkerQueues
    /\ queue' = queue - 1
    /\ mon' = [r \in Record |-> IF Late(mon[r], now) THEN [mon[r] EXCEPT !.overdue = TRUE]
                                                     ELSE mon[r]]
    /\ run' = [run EXCEPT ![k] = [NoRun EXCEPT !.pc = "marked", !.at = now]]
    /\ UNCHANGED <<reco, web, now, beaten, told>>

\* The records to remind are read at once, then announced one by one.
RemindQuery(k) ==
    /\ run[k].pc = "marked"
    /\ run' = [run EXCEPT ![k].pc = "reminding",
                          ![k].todo = {r \in Record : InReminderWindow(mon[r], run[k].at)}]
    /\ UNCHANGED <<mon, reco, web, now, beaten, queue, told>>

Remind(k, r) ==
    /\ run[k].pc = "reminding"
    /\ r \in run[k].todo
    /\ told' = [told EXCEPT ![r].reminder = Once(told[r].reminder)]
    /\ run' = [run EXCEPT ![k].todo = run[k].todo \ {r}]
    /\ UNCHANGED <<mon, reco, web, now, beaten, queue>>

\* Mutant of EscalateQuery: what is listed is flagged at once, as what is
\* late is, and announced afterwards.
EscalateQueryFlagging(k) ==
    LET due == {r \in Record : ToEscalate(mon[r], run[k].at)} IN
    /\ run[k].pc = "reminding"
    /\ run[k].todo = {}
    /\ run' = [run EXCEPT ![k].pc = "escalating", ![k].todo = due]
    /\ mon' = [r \in Record |-> IF r \in due THEN [mon[r] EXCEPT !.escalated = TRUE]
                                             ELSE mon[r]]
    /\ UNCHANGED <<reco, web, now, beaten, queue, told>>

\* So are those to escalate; each is announced, then saved.
EscalateQuery(k) ==
    /\ run[k].pc = "reminding"
    /\ run[k].todo = {}
    /\ run' = [run EXCEPT ![k].pc = "escalating",
                          ![k].todo = {r \in Record : ToEscalate(mon[r], run[k].at)}]
    /\ UNCHANGED <<mon, reco, web, now, beaten, queue, told>>

Escalate(k, r) ==
    /\ run[k].pc = "escalating"
    /\ r \in run[k].todo
    /\ told' = [told EXCEPT ![r].escalation = Once(told[r].escalation)]
    /\ run' = [run EXCEPT ![k].pc = "saving", ![k].record = r,
                          ![k].todo = run[k].todo \ {r}]
    /\ UNCHANGED <<mon, reco, web, now, beaten, queue>>

\* Mutant of EscalateSave: the flag is forgotten.
EscalateSaveForgotten(k) ==
    /\ run[k].pc = "saving"
    /\ run' = [run EXCEPT ![k].pc = "escalating", ![k].record = None]
    /\ UNCHANGED <<mon, reco, web, now, beaten, queue, told>>

EscalateSave(k) ==
    /\ run[k].pc = "saving"
    /\ mon' = [mon EXCEPT ![run[k].record].escalated = TRUE]
    /\ run' = [run EXCEPT ![k].pc = "escalating", ![k].record = None]
    /\ UNCHANGED <<reco, web, now, beaten, queue, told>>

RunEnd(k) ==
    /\ run[k].pc = "escalating"
    /\ run[k].todo = {}
    /\ run' = [run EXCEPT ![k] = NoRun]
    /\ UNCHANGED <<mon, reco, web, now, beaten, queue, told>>

RunStep(k) ==
    \/ RunStart(k) \/ RemindQuery(k) \/ EscalateQuery(k) \/ EscalateSave(k) \/ RunEnd(k)
    \/ \E r \in Record : Remind(k, r) \/ Escalate(k, r)

\* The message was acknowledged when it was taken: the run is lost.
RunDies(k) ==
    /\ run[k].pc # "idle"
    /\ run' = [run EXCEPT ![k] = NoRun]
    /\ UNCHANGED <<mon, reco, web, now, beaten, queue, told>>

---------------------------------------------------------------------------
(* The other requests.                                                     *)

\* PUT and PATCH, not of a closed recommendation: the row is read ...
EditRead(w, r) ==
    /\ web[w].pc = "idle"
    /\ reco[r] # "closed"
    /\ web' = [web EXCEPT ![w] = [pc |-> "editing", record |-> r, copy |-> mon[r]]]
    /\ UNCHANGED <<mon, reco, now, beaten, queue, run, told>>

\* ... and all its columns are written back, is_active from the body.
EditSave(w) ==
    /\ web[w].pc = "editing"
    /\ \E a \in BOOLEAN :
           mon' = [mon EXCEPT ![web[w].record] = [web[w].copy EXCEPT !.active = a]]
    /\ web' = [web EXCEPT ![w] = Idle]
    /\ UNCHANGED <<reco, now, beaten, queue, run, told>>

\* The soft DELETE, while the recommendation is not verified.
Delete(r) ==
    /\ reco[r] = "running"
    /\ mon' = [mon EXCEPT ![r].active = FALSE]
    /\ UNCHANGED <<reco, web, now, beaten, queue, run, told>>

\* valid_transitions of a recommendation's status.
MoveRecommendation(r) ==
    /\ \/ reco[r] = "running" /\ reco' = [reco EXCEPT ![r] = "verified"]
       \/ reco[r] = "verified" /\ \E s \in {"closed", "running"} : reco' = [reco EXCEPT ![r] = s]
    /\ UNCHANGED <<mon, web, now, beaten, queue, run, told>>

---------------------------------------------------------------------------
(* Time and specifications.                                                *)

\* Requests are over within the half day (gunicorn's timeout is two
\* minutes); a run may take until the next one.
Tick ==
    /\ now < Last
    /\ \A w \in Worker : web[w].pc = "idle"
    /\ \A k \in Runner : run[k].pc # "idle" => run[k].at = now
    /\ now' = now + 1
    /\ beaten' = FALSE
    /\ UNCHANGED <<mon, reco, web, queue, run, told>>

\* The day goes on only when beat has fired and its task, if any worker
\* takes that queue, has run.
PunctualTick ==
    /\ now % 2 = 0 => beaten
    /\ "default" \in WorkerQueues => queue = 0
    /\ \A k \in Runner : run[k].pc = "idle"
    /\ Tick

Notifying == \E w \in Worker : NotifySave(w) \/ \E r \in Record : NotifyRead(w, r)

Core == Notifying \/ Beat \/ \E k \in Runner : RunStep(k)

Edits ==
    \/ \E w \in Worker : EditSave(w) \/ \E r \in Record : EditRead(w, r)
    \/ \E r \in Record : Delete(r) \/ MoveRecommendation(r)

\* The task runs to its end once a day, on time; records are not edited.
PunctualSpec == Init /\ [][Core \/ PunctualTick]_vars

\* Everything: missed, late, overlapping and dying runs, stale edits.
Next == Core \/ Edits \/ Tick \/ \E k \in Runner : RunDies(k)
Spec == Init /\ [][Next]_vars

\* Beat, the processes and the clock go on: what a deployment must see to
\* before a deadline can be said to be enforced.
FairPunctualSpec ==
    /\ PunctualSpec
    /\ WF_vars(Beat) /\ WF_vars(PunctualTick)
    /\ \A k \in Runner : WF_vars(RunStep(k))
    /\ \A w \in Worker : WF_vars(NotifySave(w))
---------------------------------------------------------------------------
(* Properties.                                                             *)

\* The task has done its work of this half day.
TaskDone ==
    /\ now % 2 = 0 => beaten
    /\ queue = 0
    /\ \A k \in Runner : run[k].pc = "idle"

\* Daily runs remind of every notified record exactly once, at day 3 give
\* or take half a day: the windows of two days neither overlap nor leave a
\* gap, whatever the time of the notification (check_monitoring_deadlines).
RemindedOnce ==
    \A r \in Record : mon[r].sent # None =>
        /\ told[r].reminder <= 1
        /\ TaskDone /\ now > mon[r].sent + 7 => told[r].reminder = 1

\* A record is announced to the CIA once, on the first run after day 7.
EscalatedOnce ==
    \A r \in Record : mon[r].sent # None =>
        /\ told[r].escalation <= 1
        /\ TaskDone /\ now > mon[r].sent + Days(8) => told[r].escalation = 1

\* Once the task of a 07:00 is through, exactly the records whose deadline
\* was over by then are overdue, to the half day: none waits for another
\* day, also one notified twice or while the task ran, and none is marked
\* for a deadline later that day (check_monitoring_deadlines).
OverdueOnTime ==
    \A r \in Record : mon[r].sent # None /\ TaskDone =>
        (mon[r].overdue <=> mon[r].deadline < now - (now % 2))

\* The two clocks of the task - business days for the deadline, calendar
\* days for the escalation - agree: nothing is escalated before it is late.
EscalatedIsOverdue ==
    \A r \in Record : mon[r].escalated => mon[r].overdue

\* No stale save, double notification or late run marks a record overdue
\* before its deadline or escalates it before day 7.
FlagsAreTimely ==
    \A r \in Record :
        /\ mon[r].overdue => mon[r].sent # None /\ mon[r].deadline < now
        /\ mon[r].escalated => mon[r].sent # None /\ mon[r].sent + Days(7) < now

\* No record is escalated that the task has not announced: a run that dies,
\* however runs overlap and stale saves come back, leaves at worst an
\* announcement to be made again, never a flag that makes every later run
\* skip a record before its announcement (check_monitoring_deadlines
\* publishes, then saves; the deadline's update is the other way round).
EscalatedIsAnnounced ==
    \A r \in Record : mon[r].escalated => told[r].escalation > 0

\* The response window is enforced: a notified record becomes overdue
\* (horizon: the longest deadline and the next 07:00 come before Last).  A
\* deployment has this only with a worker on the queue beat sends to: with
\* WorkerQueues = {"celery"}, as docker-compose.yml has it, TLC refutes it,
\* and nothing is ever marked, so it is no property of this deployment.
DeadlineEnforced ==
    \A r \in Record :
        mon[r].sent # None /\ mon[r].sent + Days(9) < Last ~> mon[r].overdue
============================================================================
