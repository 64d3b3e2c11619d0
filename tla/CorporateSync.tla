---------------------------- MODULE CorporateSync ----------------------------
(***************************************************************************)
(* The synchronisation of the organisation - directorates, departments,    *)
(* units, sections - from the Corporate service into rows of GRC.  A run   *)
(* does one level, or all four in order; a level is a request to Corporate *)
(* and, later, one transaction that writes what was answered; a log tells  *)
(* how it went.  Runs are started by a request, by a command or by a task  *)
(* that is tried again when it fails; nothing keeps them apart.            *)
(***************************************************************************)
EXTENDS Naturals, Sequences

CONSTANTS
    Directorate, Department, Unit, Section,   \* the records, by external id
    Code,                                     \* the codes they have
    Runner,      \* web workers, task workers and shells that may run a sync
    MaxRetries,  \* how often a task is tried again
    MaxChanges,  \* bound on the changes in Corporate
    Loads,       \* bound: Corporate's records when GRC's rows were loaded
    None

Records == <<Directorate, Department, Unit, Section>>
Level == 1..Len(Records)
Record == UNION {Records[l] : l \in Level}
LevelOf(r) == CHOOSE l \in Level : r \in Records[l]

\* What a row says of a record: its code, the record it is directly under,
\* and all the rows it refers to.
Content == [code : Code, under : Record \union {None}, parents : SUBSET Record]

ASSUME ConstantsAssumption ==
    /\ MaxRetries \in Nat
    /\ MaxChanges \in Nat
    /\ None \notin Record \union Code \union Content
    /\ \A l, m \in Level : l # m => Records[l] \intersect Records[m] = {}

Above(l) == IF l = 1 THEN {None} ELSE Records[l - 1]
CorpRecord(l) == [code : Code, under : Above(l), active : BOOLEAN]

\* The codes of a level are unique: of all directorates, of the departments
\* of a directorate, the units of a department, the sections of a unit.
Key(content) == <<content.under, content.code>>

\* Corporate, another service, keeps the codes of its active records unique.
WellCoded(c) ==
    \A l \in Level : \A r, s \in Records[l] :
        c[r].active /\ c[s].active /\ Key(c[r]) = Key(c[s]) => r = s

ASSUME LoadsAssumption ==
    \A c \in Loads :
        /\ c \in [Record -> UNION {CorpRecord(l) : l \in Level}]
        /\ \A l \in Level : \A r \in Records[l] : c[r] \in CorpRecord(l)
        /\ WellCoded(c)

VARIABLES
    corp,      \* Corporate's records: code, parent and whether it is active
    changes,   \* how often Corporate has changed
    row,       \* the rows of GRC: code and parents, or None
    run,       \* what each runner is doing
    log,       \* the newest log of a full sync of each runner
    calm       \* history: nothing but this full sync has written, here or in
               \* Corporate, since it began

vars == <<corp, changes, row, run, log, calm>>

\* A unit comes with its department and with that one's directorate.
Parents(r) ==
    LET up == corp[r].under IN
    CASE LevelOf(r) = 1 -> {}
      [] LevelOf(r) = 3 -> {up, corp[up].under}
      [] OTHER          -> {up}
ContentOf(r) == [code |-> corp[r].code, under |-> corp[r].under, parents |-> Parents(r)]

\* What Corporate answers for a level: its active records.
Answer(l) == [r \in {s \in Records[l] : corp[s].active} |-> ContentOf(r)]

LogStatus == {"none", "in_progress", "completed", "failed"}
Idle == [step |-> "idle", full |-> FALSE, level |-> 1, got |-> <<>>, retries |-> 0]
Answers(l) == UNION {[R -> Content] : R \in SUBSET Records[l]}
AnyAnswer == {<<>>} \union UNION {Answers(l) : l \in Level}
Run == [step : {"idle", "fetch", "save", "log", "failed", "close", "waiting"},
        full : BOOLEAN, level : Level, retries : 0..MaxRetries,
        got : AnyAnswer]

TypeOK ==
    /\ corp \in [Record -> UNION {CorpRecord(l) : l \in Level}]
    /\ \A l \in Level : \A r \in Records[l] : corp[r] \in CorpRecord(l)
    /\ changes \in 0..MaxChanges
    /\ row \in [Record -> Content \union {None}]
    /\ run \in [Runner -> Run]
    /\ \A p \in Runner : run[p].step = "save" => run[p].got \in Answers(run[p].level)
    /\ log \in [Runner -> LogStatus]
    /\ calm \in [Runner -> BOOLEAN]

---------------------------------------------------------------------------
(* Rows and their unique codes.                                            *)

Loaded(l) == {r \in Records[l] : row[r] # None}

\* Of an answer: what is skipped, because a parent has no row; what has a
\* row; what would need one.
Placed(got) == {r \in DOMAIN got : \A q \in got[r].parents : row[q] # None}
Updated(got) == {r \in Placed(got) : row[r] # None}
Missing(got) == Placed(got) \ Updated(got)

RowsAfter(got) == [r \in Record |-> IF r \in Updated(got) THEN got[r] ELSE row[r]]
Fit(rows, l) ==
    \A r, s \in Loaded(l) : Key(rows[r]) = Key(rows[s]) => r = s

\* Rows are updated one by one, in the order of the answer.  One may take
\* the code of a row that has not given it up yet ...
Takes(got, l) ==
    \E r \in Updated(got), s \in Loaded(l) : r # s /\ Key(got[r]) = Key(row[s])
\* ... and does so in any order when records have changed codes in a circle.
Circle(got) ==
    \E C \in SUBSET {r \in Updated(got) : Key(got[r]) # Key(row[r])} :
        C # {} /\ {Key(got[r]) : r \in C} = {Key(row[r]) : r \in C}

\* A row cannot be inserted: created_by has no value and no default, so a
\* level that would need a new row fails.
CanSave(got, l) ==
    Missing(got) = {} /\ Fit(RowsAfter(got), l) /\ ~Circle(got)
CanFail(got, l) ==
    Missing(got) # {} \/ ~Fit(RowsAfter(got), l) \/ Takes(got, l)

---------------------------------------------------------------------------
(* Corporate.                                                              *)

Init ==
    /\ corp \in Loads
    /\ changes = 0
    \* rows were put there with what Corporate says of active records
    /\ \E L \in SUBSET {r \in Record : corp[r].active} :
          /\ \A r \in L : Parents(r) \subseteq L
          /\ row = [r \in Record |-> IF r \in L THEN ContentOf(r) ELSE None]
    /\ run = [p \in Runner |-> Idle]
    /\ log = [p \in Runner |-> "none"]
    /\ calm = [p \in Runner |-> FALSE]

\* Records are renamed, moved, deactivated, activated: one at a time, or two
\* of a level that exchange codes or succeed one another.
Change(l) ==
    /\ changes < MaxChanges
    /\ \E r, s \in Records[l], c, d \in CorpRecord(l) :
          corp' = [corp EXCEPT ![r] = c, ![s] = d]
    /\ corp' # corp
    /\ WellCoded(corp')
    /\ changes' = changes + 1
    /\ calm' = [p \in Runner |-> FALSE]
    /\ UNCHANGED <<row, run, log>>

---------------------------------------------------------------------------
(* Runs.                                                                   *)

\* An attempt begins, with its log.  (A level has a log too, which is open
\* until its step is done.)
Attempt(p, full, l, retries) ==
    /\ run' = [run EXCEPT ![p] = [step |-> "fetch", full |-> full, level |-> l,
                                  got |-> <<>>, retries |-> retries]]
    /\ log' = [log EXCEPT ![p] = IF full THEN "in_progress" ELSE "none"]
    /\ calm' = [calm EXCEPT ![p] = full]
    /\ UNCHANGED <<corp, changes, row>>

\* A request or a command is tried once, a task MaxRetries times more.
Start(p, retries) ==
    /\ run[p].step = "idle"
    /\ \/ Attempt(p, TRUE, 1, retries)
       \/ \E l \in Level : Attempt(p, FALSE, l, retries)

Fetch(p) ==
    /\ run[p].step = "fetch"
    /\ run' = [run EXCEPT ![p].step = "save", ![p].got = Answer(run[p].level)]
    /\ UNCHANGED <<corp, changes, row, log, calm>>

\* A level raises: its log is completed as failed.
Raise(p) ==
    /\ run' = [run EXCEPT ![p].step = "failed", ![p].got = <<>>]
    /\ UNCHANGED <<corp, changes, row, log, calm>>

\* Mutant of FetchFails: no answer is taken for an empty one.
FetchFailsEmpty(p) ==
    /\ run[p].step = "fetch"
    /\ run' = [run EXCEPT ![p].step = "save", ![p].got = <<>>]
    /\ UNCHANGED <<corp, changes, row, log, calm>>

FetchFails(p) == run[p].step = "fetch" /\ Raise(p)

Commit(p, rows) ==
    /\ row' = rows
    /\ run' = [run EXCEPT ![p].step = "log", ![p].got = <<>>]
    /\ calm' = [q \in Runner |-> q = p /\ calm[q]]
    /\ UNCHANGED <<corp, changes, log>>

\* Mutant of Save: a unit gets the directorate that its department has here.
SaveByDepartment(p) ==
    LET got == run[p].got
        above(r) == IF run[p].level = 3
                    THEN {got[r].under, row[got[r].under].under}
                    ELSE got[r].parents
    IN  /\ run[p].step = "save"
        /\ CanSave(got, run[p].level)
        /\ Commit(p, [r \in Record |-> IF r \in Updated(got)
                                       THEN [got[r] EXCEPT !.parents = above(r)]
                                       ELSE row[r]])

Save(p) ==
    /\ run[p].step = "save"
    /\ CanSave(run[p].got, run[p].level)
    /\ Commit(p, RowsAfter(run[p].got))

SaveFails(p) ==
    /\ run[p].step = "save"
    /\ CanFail(run[p].got, run[p].level)
    /\ Raise(p)

\* The log of the level is completed.  A full sync goes on with the next one.
Log(p) ==
    LET l == run[p].level IN
    /\ run[p].step = "log"
    /\ run' = [run EXCEPT ![p] =
                  IF ~run[p].full THEN Idle
                  ELSE IF l < Len(Records)
                  THEN [@ EXCEPT !.step = "fetch", !.level = l + 1]
                  ELSE [@ EXCEPT !.step = "close"]]
    /\ UNCHANGED <<corp, changes, row, log, calm>>

\* The log could not be written: it is written again, as failed, although
\* the rows are there.
LogFails(p) == run[p].step = "log" /\ Raise(p)

\* The full sync completes its own log, after the four levels.
Close(p) ==
    /\ run[p].step = "close"
    /\ run' = [run EXCEPT ![p] = Idle]
    /\ log' = [log EXCEPT ![p] = "completed"]
    /\ UNCHANGED <<corp, changes, row, calm>>

\* A level that raised ends the full sync too.  A task that has retries left
\* waits for the next one; a request answers SYNC_FAILED.
GiveUp(p) ==
    /\ run[p].step = "failed"
    /\ run' = [run EXCEPT ![p] =
                  IF run[p].retries > 0
                  THEN [run[p] EXCEPT !.step = "waiting",
                                      !.retries = run[p].retries - 1]
                  ELSE Idle]
    /\ log' = [log EXCEPT ![p] = IF run[p].full THEN "failed" ELSE @]
    /\ calm' = [calm EXCEPT ![p] = FALSE]
    /\ UNCHANGED <<corp, changes, row>>

Retry(p) ==
    /\ run[p].step = "waiting"
    /\ Attempt(p, run[p].full, IF run[p].full THEN 1 ELSE run[p].level,
               run[p].retries)

\* The process dies: its logs stay as they are, and its run is forgotten.
\* (One that waits is kept by the broker.)
Die(p) ==
    /\ run[p].step \notin {"idle", "waiting"}
    /\ run' = [run EXCEPT ![p] = Idle]
    /\ calm' = [calm EXCEPT ![p] = FALSE]
    /\ UNCHANGED <<corp, changes, row, log>>

Advance(p) ==
    \/ Fetch(p) \/ FetchFails(p) \/ Save(p) \/ SaveFails(p)
    \/ Log(p) \/ LogFails(p) \/ Close(p) \/ GiveUp(p) \/ Retry(p)

Next ==
    \/ \E l \in Level : Change(l)
    \/ \E p \in Runner :
          \/ \E retries \in {0, MaxRetries} : Start(p, retries)
          \/ Advance(p)
          \/ Die(p)

Spec == Init /\ [][Next]_vars

---------------------------------------------------------------------------
(* Properties.                                                             *)

\* The time of the last completed full sync, which the sync page shows, can
\* be trusted: unless Corporate has changed or another run has written since
\* it began, every active record that has its place here is as Corporate
\* says (each level is read and committed on its own, and any may fail).
CompletedMirrors ==
    \A p \in Runner :
        log[p] = "completed" /\ calm[p] =>
            \A r \in Record :
                /\ corp[r].active
                /\ \A q \in Parents(r) \union {r} : row[q] # None
                => row[r] = ContentOf(r)

\* Runs of different levels, in any order and overlapping, undo nothing of
\* one another: a row that is as Corporate says goes wrong only by an answer
\* that Corporate would no longer give.
RightRowsStay ==
    [][\A r \in Record :
          row[r] # None /\ row[r] = ContentOf(r) /\ row'[r] # row[r] =>
              \E p \in Runner :
                  /\ run[p].step = "save" /\ run'[p].step = "log"
                  /\ run[p].got # Answer(run[p].level)]_row
=============================================================================
