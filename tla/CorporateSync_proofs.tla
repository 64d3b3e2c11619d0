------------------------- MODULE CorporateSync_proofs -------------------------
(***************************************************************************)
(* Theorems about CorporateSync, for every organisation, any number of     *)
(* runners and every bound.                                                *)
(***************************************************************************)
EXTENDS CorporateSync, TLAPS

LEMMA Levels == Level = {1, 2, 3, 4} /\ Len(Records) = 4
  BY DEF Level, Records

LEMMA RecordOf == \A l \in Level : Records[l] \subseteq Record
  BY DEF Record

\* A record has one level.
LEMMA LevelOfRecord == \A l \in Level : \A r \in Records[l] : LevelOf(r) = l
  <1> SUFFICES ASSUME NEW l \in Level, NEW r \in Records[l] PROVE LevelOf(r) = l
    OBVIOUS
  <1>1. LevelOf(r) \in Level /\ r \in Records[LevelOf(r)]
    BY DEF LevelOf
  <1> QED
    BY <1>1, ConstantsAssumption

\* Corporate's records have their types: the part of TypeOK that is about
\* Corporate.
CorpOK ==
    /\ corp \in [Record -> UNION {CorpRecord(l) : l \in Level}]
    /\ \A l \in Level : \A r \in Records[l] : corp[r] \in CorpRecord(l)

LEMMA ContentType ==
    ASSUME CorpOK
    PROVE  \A l \in Level : \A r \in Records[l] : ContentOf(r) \in Content
  <1> SUFFICES ASSUME NEW l \in Level, NEW r \in Records[l] PROVE ContentOf(r) \in Content
    OBVIOUS
  <1>1. /\ corp[r].code \in Code /\ corp[r].under \in Above(l)
        /\ LevelOf(r) = l
    BY LevelOfRecord DEF CorpOK, CorpRecord
  <1>2. corp[r].under \in Record \union {None}
    BY <1>1, Levels, RecordOf DEF Above
  <1>3. Parents(r) \subseteq Record
    <2>1. CASE l = 1
      BY <1>1, <2>1 DEF Parents
    <2>2. CASE l \in {2, 4}
      <3>1. corp[r].under \in Record
        BY <1>1, <2>2, Levels, RecordOf DEF Above
      <3> QED
        BY <1>1, <2>2, <3>1 DEF Parents
    <2>3. CASE l = 3
      <3>1. corp[r].under \in Records[2] /\ 2 \in Level
        BY <1>1, <2>3, Levels DEF Above
      <3>2. corp[corp[r].under].under \in Above(2)
        BY <3>1 DEF CorpOK, CorpRecord
      <3>3. corp[corp[r].under].under \in Record
        BY <3>2, Levels, RecordOf DEF Above
      <3>4. corp[r].under \in Record
        BY <3>1, RecordOf
      <3> QED
        BY <1>1, <2>3, <3>3, <3>4 DEF Parents
    <2> QED
      BY <2>1, <2>2, <2>3, Levels
  <1> QED
    BY <1>1, <1>2, <1>3 DEF ContentOf, Content

LEMMA AnswerType ==
    ASSUME TypeOK, NEW l \in Level
    PROVE  Answer(l) \in Answers(l)
  <1> DEFINE R == {s \in Records[l] : corp[s].active}
  <1>1. Answer(l) \in [R -> Content]
    BY ContentType DEF Answer, CorpOK, TypeOK
  <1>2. R \in SUBSET Records[l]
    OBVIOUS
  <1> HIDE DEF R
  <1> QED
    BY <1>1, <1>2 DEF Answers

\* A save gives content to rows that have some.
LEMMA SavedRows ==
    ASSUME TypeOK, NEW l \in Level, NEW got \in Answers(l)
    PROVE  /\ RowsAfter(got) \in [Record -> Content \union {None}]
           /\ \A r \in Record : row[r] = None <=> RowsAfter(got)[r] = None
           /\ \A r \in Record : r \notin Records[l] => RowsAfter(got)[r] = row[r]
  <1>1. PICK R \in SUBSET Records[l] : got \in [R -> Content]
    BY DEF Answers
  <1>2. \A r \in Updated(got) : r \in Records[l] /\ got[r] \in Content /\ row[r] # None
    BY <1>1 DEF Updated, Placed
  <1>3. None \notin Content
    BY ConstantsAssumption
  <1> QED
    BY <1>2, <1>3 DEF RowsAfter, TypeOK

LEMMA AnyAnswerType == <<>> \in AnyAnswer /\ \A l \in Level : Answers(l) \subseteq AnyAnswer
  BY DEF AnyAnswer

LEMMA IdleType == Idle \in Run /\ Idle.step = "idle" /\ Idle.full = FALSE
  BY Levels, AnyAnswerType, ConstantsAssumption DEF Idle, Run

---------------------------------------------------------------------------
(* Types.                                                                  *)

\* Types survive a step that changes the run of one runner.
LEMMA RunType ==
    ASSUME TypeOK, NEW p \in Runner, NEW q \in Run, run' = [run EXCEPT ![p] = q],
           q.step = "save" => q.got \in Answers(q.level),
           UNCHANGED <<corp, changes>>,
           row' \in [Record -> Content \union {None}],
           log' \in [Runner -> LogStatus], calm' \in [Runner -> BOOLEAN]
    PROVE  TypeOK'
  <1>1. run' \in [Runner -> Run] /\ \A v \in Runner : run'[v] \in {q, run[v]}
    BY DEF TypeOK
  <1>2. \A v \in Runner : run'[v].step = "save" => run'[v].got \in Answers(run'[v].level)
    BY <1>1 DEF TypeOK
  <1> QED
    BY <1>1, <1>2 DEF TypeOK

LEMMA TypeInit == Init => TypeOK
  <1> SUFFICES ASSUME Init PROVE TypeOK
    OBVIOUS
  <1>1. /\ corp \in [Record -> UNION {CorpRecord(l) : l \in Level}]
        /\ \A l \in Level : \A r \in Records[l] : corp[r] \in CorpRecord(l)
    BY LoadsAssumption DEF Init
  <1>2. changes \in 0..MaxChanges
    BY ConstantsAssumption DEF Init
  <1>3. run \in [Runner -> Run] /\ \A p \in Runner : run[p].step # "save"
    BY IdleType DEF Init
  <1>4. log \in [Runner -> LogStatus] /\ calm \in [Runner -> BOOLEAN]
    BY DEF Init, LogStatus
  <1>5. \A r \in Record : ContentOf(r) \in Content
    <2> SUFFICES ASSUME NEW l \in Level, NEW r \in Records[l] PROVE ContentOf(r) \in Content
      BY DEF Record
    <2> QED
      BY <1>1, ContentType DEF CorpOK
  <1>6. row \in [Record -> Content \union {None}]
    BY <1>5 DEF Init
  <1> QED
    BY <1>1, <1>2, <1>3, <1>4, <1>6 DEF TypeOK

\* A runner that began an attempt, that has raised, that has nothing to do.
Fresh(full, l, retries) ==
    [step |-> "fetch", full |-> full, level |-> l, got |-> <<>>, retries |-> retries]

LEMMA AttemptType ==
    ASSUME TypeOK, NEW p \in Runner, NEW full \in BOOLEAN, NEW l \in Level,
           NEW retries \in 0..MaxRetries, Attempt(p, full, l, retries)
    PROVE  TypeOK'
  <1>1. Fresh(full, l, retries) \in Run /\ Fresh(full, l, retries).step = "fetch"
    BY AnyAnswerType DEF Fresh, Run
  <1>2. run' = [run EXCEPT ![p] = Fresh(full, l, retries)]
    BY DEF Attempt, Fresh
  <1>3. log' \in [Runner -> LogStatus] /\ calm' \in [Runner -> BOOLEAN]
    BY DEF Attempt, LogStatus, TypeOK
  <1> QED
    BY <1>1, <1>2, <1>3, RunType DEF Attempt, TypeOK

\* What a step makes of the run of p, when it neither begins nor fetches.
Turned(p, step) == [run[p] EXCEPT !.step = step, !.got = <<>>]

LEMMA TurnedType ==
    ASSUME TypeOK, NEW p \in Runner, NEW step \in {"log", "failed"}
    PROVE  Turned(p, step) \in Run /\ Turned(p, step).step = step
  BY AnyAnswerType DEF Turned, Run, TypeOK

LEMMA RaiseType ==
    ASSUME TypeOK, NEW p \in Runner, Raise(p)
    PROVE  TypeOK'
  <1>1. run' = [run EXCEPT ![p] = Turned(p, "failed")]
    BY DEF Raise, Turned, TypeOK
  <1>2. Turned(p, "failed") \in Run /\ Turned(p, "failed").step = "failed"
    BY TurnedType
  <1> QED
    BY <1>1, <1>2, RunType DEF Raise, TypeOK

LEMMA AdvanceType ==
    ASSUME TypeOK, NEW p \in Runner, Advance(p)
    PROVE  TypeOK'
  <1>0. run[p] \in Run /\ MaxRetries \in Nat
    BY ConstantsAssumption DEF TypeOK
  <1>1. CASE Fetch(p)
    <2> DEFINE q == [run[p] EXCEPT !.step = "save", !.got = Answer(run[p].level)]
    <2>1. Answer(run[p].level) \in Answers(run[p].level) /\ run[p].level \in Level
      BY <1>0, AnswerType DEF Run
    <2>2. q \in Run /\ q.got \in Answers(q.level)
      BY <1>0, <2>1, AnyAnswerType DEF Run
    <2>3. run' = [run EXCEPT ![p] = q]
      BY <1>1 DEF Fetch, TypeOK
    <2> HIDE DEF q
    <2> QED
      BY <1>1, <2>2, <2>3, RunType DEF Fetch, TypeOK
  <1>2. CASE FetchFails(p) \/ SaveFails(p) \/ LogFails(p)
    BY <1>2, RaiseType DEF FetchFails, SaveFails, LogFails
  <1>3. CASE Save(p)
    <2>1. run[p].got \in Answers(run[p].level) /\ run[p].level \in Level
      BY <1>0, <1>3 DEF Save, TypeOK, Run
    <2>2. row' \in [Record -> Content \union {None}]
      BY <1>3, <2>1, SavedRows DEF Save, Commit
    <2>3. run' = [run EXCEPT ![p] = Turned(p, "log")]
      BY <1>3 DEF Save, Commit, Turned, TypeOK
    <2>4. Turned(p, "log") \in Run /\ Turned(p, "log").step = "log"
      BY TurnedType
    <2>5. calm' \in [Runner -> BOOLEAN]
      BY <1>3 DEF Save, Commit, TypeOK
    <2> QED
      BY <1>3, <2>2, <2>3, <2>4, <2>5, RunType DEF Save, Commit, TypeOK
  <1>4. CASE Log(p)
    <2> DEFINE l == run[p].level
               q == IF ~run[p].full THEN Idle
                    ELSE IF l < Len(Records)
                    THEN [run[p] EXCEPT !.step = "fetch", !.level = l + 1]
                    ELSE [run[p] EXCEPT !.step = "close"]
    <2>1. q \in Run /\ q.step # "save"
      <3>1. l \in Level
        BY <1>0 DEF Run
      <3>2. l < Len(Records) => l + 1 \in Level
        BY <3>1, Levels
      <3>3. Idle \in Run /\ Idle.step # "save"
        BY IdleType
      <3>4. l < Len(Records) => [run[p] EXCEPT !.step = "fetch", !.level = l + 1] \in Run
        BY <1>0, <3>2 DEF Run
      <3>5. [run[p] EXCEPT !.step = "close"] \in Run
        BY <1>0 DEF Run
      <3> QED
        BY <1>0, <3>3, <3>4, <3>5 DEF Run
    <2>2. run' = [run EXCEPT ![p] = q]
      BY <1>4 DEF Log, TypeOK
    <2> HIDE DEF q
    <2> QED
      BY <1>4, <2>1, <2>2, RunType DEF Log, TypeOK
  <1>5. CASE Close(p)
    <2>1. log' \in [Runner -> LogStatus]
      BY <1>5 DEF Close, LogStatus, TypeOK
    <2> QED
      BY <1>5, <2>1, IdleType, RunType DEF Close, TypeOK
  <1>6. CASE GiveUp(p)
    <2> DEFINE q == IF run[p].retries > 0
                    THEN [run[p] EXCEPT !.step = "waiting", !.retries = run[p].retries - 1]
                    ELSE Idle
    <2>1. q \in Run /\ q.step # "save"
      <3>1. run[p].retries \in 0..MaxRetries
        BY <1>0 DEF Run
      <3>2. run[p].retries > 0 => run[p].retries - 1 \in 0..MaxRetries
        BY <1>0, <3>1
      <3>3. run[p].retries > 0 =>
              [run[p] EXCEPT !.step = "waiting", !.retries = run[p].retries - 1] \in Run
        BY <1>0, <3>2 DEF Run
      <3> QED
        BY <1>0, <3>3, IdleType DEF Run
    <2>2. run' = [run EXCEPT ![p] = q]
      BY <1>6 DEF GiveUp, TypeOK
    <2>3. log' \in [Runner -> LogStatus] /\ calm' \in [Runner -> BOOLEAN]
      BY <1>6 DEF GiveUp, LogStatus, TypeOK
    <2> HIDE DEF q
    <2> QED
      BY <1>6, <2>1, <2>2, <2>3, RunType DEF GiveUp, TypeOK
  <1>7. CASE Retry(p)
    <2>1. /\ run[p].full \in BOOLEAN /\ run[p].retries \in 0..MaxRetries
          /\ (IF run[p].full THEN 1 ELSE run[p].level) \in Level
      BY <1>0, Levels DEF Run
    <2> QED
      BY <1>7, <2>1, AttemptType DEF Retry
  <1> QED
    BY <1>1, <1>2, <1>3, <1>4, <1>5, <1>6, <1>7 DEF Advance

LEMMA ChangeType ==
    ASSUME TypeOK, NEW l \in Level, Change(l)
    PROVE  TypeOK'
  <1>1. PICK r \in Records[l], s \in Records[l] :
           \E c, d \in CorpRecord(l) : corp' = [corp EXCEPT ![r] = c, ![s] = d]
    BY DEF Change
  <1>2. PICK c \in CorpRecord(l), d \in CorpRecord(l) :
           corp' = [corp EXCEPT ![r] = c, ![s] = d]
    BY <1>1
  <1>3. /\ corp' \in [Record -> UNION {CorpRecord(m) : m \in Level}]
        /\ \A m \in Level : \A x \in Records[m] : corp'[x] \in CorpRecord(m)
    <2>1. ASSUME NEW m \in Level, NEW x \in Records[m] PROVE corp'[x] \in CorpRecord(m)
      <3>1. CASE m = l
        BY <1>2, <3>1, RecordOf DEF TypeOK
      <3>2. CASE m # l
        <4>1. x # r /\ x # s
          BY <3>2, ConstantsAssumption
        <4> QED
          BY <1>2, <4>1, RecordOf DEF TypeOK
      <3> QED
        BY <3>1, <3>2
    <2>2. \A x \in Record : corp'[x] \in UNION {CorpRecord(m) : m \in Level}
      BY <2>1 DEF Record
    <2>3. corp' = [x \in Record |-> corp'[x]]
      BY <1>2 DEF TypeOK
    <2> QED
      BY <2>1, <2>2, <2>3
  <1>4. changes' \in 0..MaxChanges
    BY ConstantsAssumption DEF Change, TypeOK
  <1>5. calm' \in [Runner -> BOOLEAN] /\ UNCHANGED <<row, run, log>>
    BY DEF Change
  <1> QED
    BY <1>3, <1>4, <1>5 DEF TypeOK

LEMMA TypeStep == TypeOK /\ [Next]_vars => TypeOK'
  <1> SUFFICES ASSUME TypeOK, [Next]_vars PROVE TypeOK'
    OBVIOUS
  <1>1. ASSUME NEW p \in Runner, NEW retries \in {0, MaxRetries}, Start(p, retries)
        PROVE  TypeOK'
    <2>1. retries \in 0..MaxRetries /\ 1 \in Level
      BY ConstantsAssumption, Levels
    <2> QED
      BY <1>1, <2>1, AttemptType DEF Start
  <1>2. ASSUME NEW p \in Runner, Die(p) PROVE TypeOK'
    <2>1. calm' \in [Runner -> BOOLEAN]
      BY <1>2 DEF Die, TypeOK
    <2> QED
      BY <1>2, <2>1, IdleType, RunType DEF Die, TypeOK
  <1>3. CASE UNCHANGED vars
    BY <1>3 DEF vars, TypeOK
  <1> QED
    BY <1>1, <1>2, <1>3, ChangeType, AdvanceType DEF Next

\* Every variable has its type.
THEOREM TypeCorrect == Spec => []TypeOK
  BY TypeInit, TypeStep, PTL DEF Spec

---------------------------------------------------------------------------
(* The mirror.                                                             *)

\* Level l is as Corporate says.
Mirrored(l) ==
    \A r \in Records[l] :
        corp[r].active /\ (\A q \in Parents(r) \union {r} : row[q] # None)
            => row[r] = ContentOf(r)

\* The full sync of p has done level l.
Through(p, l) ==
    \/ log[p] = "completed"
    \/ run[p].step \in {"fetch", "save"} /\ l < run[p].level
    \/ run[p].step = "log" /\ l <= run[p].level
    \/ run[p].step = "close"

\* While nothing disturbs a full sync, what it has answered is what Corporate
\* answers, and the levels it has done are as Corporate says.
MirrorOf(p) ==
    /\ log[p] = "completed" => run[p].step = "idle"
    /\ calm[p] =>
          /\ run[p].step # "idle" => run[p].full
          /\ run[p].step = "save" => run[p].got = Answer(run[p].level)
          /\ \A l \in Level : Through(p, l) => Mirrored(l)

MirrorInv == \A p \in Runner : MirrorOf(p)

LEMMA ParentsType ==
    ASSUME TypeOK, NEW l \in Level, NEW r \in Records[l]
    PROVE  Parents(r) \subseteq Record /\ r \in Record
  <1>1. ContentOf(r) \in Content
    BY ContentType DEF TypeOK, CorpOK
  <1> QED
    BY <1>1, RecordOf DEF ContentOf, Content

\* A save of what Corporate answers makes its level like Corporate, and
\* leaves the other levels as they are.
LEMMA SaveMirrors ==
    ASSUME TypeOK, NEW p \in Runner, Save(p)
    PROVE  /\ \A l \in Level : l = run[p].level /\ run[p].got = Answer(l) => Mirrored(l)'
           /\ \A l \in Level : l # run[p].level /\ Mirrored(l) => Mirrored(l)'
  <1> DEFINE lv == run[p].level
             got == run[p].got
  <1>1. lv \in Level /\ got \in Answers(lv)
    BY DEF TypeOK, Save, Run
  <1>2. corp' = corp /\ row' = RowsAfter(got)
    BY DEF Save, Commit
  <1> HIDE DEF lv, got
  <1>3. \A r \in Record : row'[r] = None <=> row[r] = None
    BY <1>1, <1>2, SavedRows
  <1>4. \A r \in Record : r \notin Records[lv] => row'[r] = row[r]
    BY <1>1, <1>2, SavedRows
  <1>5. \A r : Parents(r)' = Parents(r) /\ ContentOf(r)' = ContentOf(r)
    BY <1>2 DEF Parents, ContentOf
  <1>6. ASSUME NEW l \in Level, l = lv, got = Answer(l) PROVE Mirrored(l)'
    <2> SUFFICES ASSUME NEW r \in Records[l], corp[r].active,
                        \A q \in Parents(r) \union {r} : row'[q] # None
                 PROVE  row'[r] = ContentOf(r)
      BY <1>2, <1>5 DEF Mirrored
    <2>1. \A q \in Parents(r) \union {r} : row[q] # None
      BY <1>1, <1>3, ParentsType
    <2>2. r \in DOMAIN got /\ got[r] = ContentOf(r)
      BY <1>6 DEF Answer
    <2>3. got[r].parents = Parents(r)
      BY <2>2 DEF ContentOf
    <2>4. r \in Updated(got)
      BY <2>1, <2>2, <2>3 DEF Updated, Placed
    <2> QED
      BY <1>1, <1>2, <2>2, <2>4, ParentsType DEF RowsAfter
  <1>7. ASSUME NEW l \in Level, l # lv, Mirrored(l) PROVE Mirrored(l)'
    <2> SUFFICES ASSUME NEW r \in Records[l], corp[r].active,
                        \A q \in Parents(r) \union {r} : row'[q] # None
                 PROVE  row'[r] = ContentOf(r)
      BY <1>2, <1>5 DEF Mirrored
    <2>1. \A q \in Parents(r) \union {r} : row[q] # None
      BY <1>3, ParentsType
    <2>2. r \in Record /\ r \notin Records[lv]
      BY <1>1, <1>7, ParentsType, ConstantsAssumption
    <2> QED
      BY <1>4, <1>7, <2>1, <2>2 DEF Mirrored
  <1> QED
    BY <1>6, <1>7 DEF lv, got

\* Steps that leave rows and Corporate alone leave the mirror alone.
LEMMA MirrorKept ==
    ASSUME UNCHANGED <<corp, row>>
    PROVE  /\ \A l : Mirrored(l)' = Mirrored(l)
           /\ \A l : Answer(l)' = Answer(l)
  BY DEF Mirrored, Answer, Parents, ContentOf

\* Whoever is not calm needs nothing.
LEMMA NotCalm ==
    ASSUME NEW p \in Runner, calm'[p] = FALSE, log'[p] = "completed" => run'[p].step = "idle"
    PROVE  MirrorOf(p)'
  BY DEF MirrorOf

\* A runner that does nothing while rows and Corporate stay.
LEMMA OtherKept ==
    ASSUME NEW p \in Runner, MirrorOf(p), UNCHANGED <<corp, row>>,
           run'[p] = run[p], log'[p] = log[p], calm'[p] = calm[p]
    PROVE  MirrorOf(p)'
  BY MirrorKept DEF MirrorOf, Through

LEMMA AttemptMirrors ==
    ASSUME TypeOK, MirrorInv, NEW p \in Runner, NEW full \in BOOLEAN, NEW l \in Level,
           NEW retries, full => l = 1, Attempt(p, full, l, retries)
    PROVE  MirrorInv'
  <1> DEFINE q == Fresh(full, l, retries)
  <1>1. q.step = "fetch" /\ q.full = full /\ q.level = l
    BY DEF Fresh
  <1>2. run' = [run EXCEPT ![p] = q]
    BY DEF Attempt, Fresh
  <1> HIDE DEF q
  <1>3. /\ run'[p] = q /\ calm'[p] = full
        /\ log'[p] # "completed"
        /\ \A v \in Runner : v # p => /\ run'[v] = run[v] /\ log'[v] = log[v]
                                      /\ calm'[v] = calm[v]
        /\ UNCHANGED <<corp, row>>
    BY <1>2 DEF Attempt, TypeOK
  <1>4. MirrorOf(p)'
    <2>1. \A k \in Level : full => ~(k < l)
      BY Levels
    <2>2. full => \A k \in Level : ~Through(p, k)'
      BY <1>1, <1>3, <2>1 DEF Through
    <2> QED
      BY <1>1, <1>3, <2>2 DEF MirrorOf
  <1> QED
    BY <1>3, <1>4, OtherKept DEF MirrorInv

LEMMA RaiseMirrors ==
    ASSUME TypeOK, MirrorInv, NEW p \in Runner, Raise(p), run[p].step # "idle"
    PROVE  MirrorInv'
  <1>1. run' = [run EXCEPT ![p] = Turned(p, "failed")]
    BY DEF Raise, Turned, TypeOK
  <1>2. /\ Turned(p, "failed").step = "failed" /\ Turned(p, "failed").full = run[p].full
    BY DEF Turned, TypeOK, Run
  <1>3. /\ run'[p] = Turned(p, "failed")
        /\ \A v \in Runner : v # p => run'[v] = run[v]
        /\ UNCHANGED <<corp, row, log, calm>>
    BY <1>1 DEF Raise, TypeOK
  <1>4. MirrorOf(p)'
    <2>1. log[p] # "completed"
      BY DEF MirrorInv, MirrorOf
    <2>2. \A k \in Level : ~Through(p, k)'
      BY <1>2, <1>3, <2>1 DEF Through
    <2> QED
      BY <1>2, <1>3, <2>1, <2>2 DEF MirrorOf, MirrorInv
  <1> QED
    BY <1>3, <1>4, OtherKept DEF MirrorInv

LEMMA AdvanceMirrors ==
    ASSUME TypeOK, MirrorInv, NEW p \in Runner, Advance(p)
    PROVE  MirrorInv'
  <1>0. run[p] \in Run /\ MirrorOf(p)
    BY DEF TypeOK, MirrorInv
  <1>1. CASE Fetch(p)
    <2> DEFINE q == [run[p] EXCEPT !.step = "save", !.got = Answer(run[p].level)]
    <2>1. /\ q.step = "save" /\ q.full = run[p].full /\ q.level = run[p].level
          /\ q.got = Answer(run[p].level)
      BY <1>0 DEF Run
    <2>2. run' = [run EXCEPT ![p] = q]
      BY <1>1 DEF Fetch, TypeOK
    <2> HIDE DEF q
    <2>3. /\ run'[p] = q /\ \A v \in Runner : v # p => run'[v] = run[v]
          /\ UNCHANGED <<corp, row, log, calm>>
      BY <1>1, <2>2 DEF Fetch, TypeOK
    <2>4. MirrorOf(p)'
      <3>1. run[p].step = "fetch"
        BY <1>1 DEF Fetch
      <3>2. \A l \in Level : Through(p, l)' => Through(p, l)
        BY <2>1, <2>3, <3>1 DEF Through
      <3>3. Answer(run'[p].level) = run'[p].got
        BY <2>1, <2>3
      <3>4. Answer(run[p].level)' = Answer(run'[p].level)
        BY <2>3 DEF Answer, ContentOf, Parents
      <3> QED
        BY <1>0, <2>1, <2>3, <3>1, <3>2, <3>3, <3>4, MirrorKept DEF MirrorOf
    <2> QED
      BY <2>3, <2>4, OtherKept DEF MirrorInv
  <1>2. CASE FetchFails(p) \/ SaveFails(p) \/ LogFails(p)
    BY <1>2, RaiseMirrors DEF FetchFails, SaveFails, LogFails
  <1>3. CASE Save(p)
    <2>1. run' = [run EXCEPT ![p] = Turned(p, "log")]
      BY <1>3 DEF Save, Commit, Turned, TypeOK
    <2>2. /\ Turned(p, "log").step = "log" /\ Turned(p, "log").full = run[p].full
          /\ Turned(p, "log").level = run[p].level
      BY <1>0 DEF Turned, Run
    <2>3. /\ run'[p] = Turned(p, "log") /\ calm'[p] = calm[p] /\ UNCHANGED log
          /\ \A v \in Runner : v # p => run'[v] = run[v] /\ calm'[v] = FALSE
      BY <1>3, <2>1 DEF Save, Commit, TypeOK
    <2>4. MirrorOf(p)'
      <3> SUFFICES ASSUME calm[p]
                   PROVE  /\ log[p] # "completed"
                          /\ run[p].full
                          /\ \A l \in Level : Through(p, l)' => Mirrored(l)'
        <4>1. log[p] # "completed"
          BY <1>0, <1>3 DEF MirrorOf, Save
        <4> QED
          BY <2>2, <2>3, <4>1 DEF MirrorOf
      <3>1. /\ log[p] # "completed" /\ run[p].full /\ run[p].step = "save"
            /\ run[p].got = Answer(run[p].level)
            /\ \A l \in Level : Through(p, l) => Mirrored(l)
        BY <1>0, <1>3 DEF MirrorOf, Save
      <3>2. ASSUME NEW l \in Level, Through(p, l)' PROVE Mirrored(l)'
        <4>1. l <= run[p].level
          BY <2>2, <2>3, <3>1, <3>2 DEF Through
        <4>2. CASE l = run[p].level
          BY <1>3, <3>1, <4>2, SaveMirrors
        <4>3. CASE l < run[p].level
          <5>1. Mirrored(l)
            BY <3>1, <4>3 DEF Through
          <5>2. l # run[p].level
            BY <1>0, <4>3, Levels DEF Run
          <5> QED
            BY <1>3, <5>1, <5>2, SaveMirrors
        <4> QED
          BY <1>0, <4>1, <4>2, <4>3, Levels DEF Run
      <3> QED
        BY <3>1, <3>2
    <2>5. ASSUME NEW v \in Runner, v # p PROVE MirrorOf(v)'
      BY <2>3, <2>5, NotCalm DEF MirrorInv, MirrorOf
    <2> QED
      BY <2>4, <2>5 DEF MirrorInv
  <1>4. CASE Log(p)
    <2> DEFINE l == run[p].level
               q == IF ~run[p].full THEN Idle
                    ELSE IF l < Len(Records)
                    THEN [run[p] EXCEPT !.step = "fetch", !.level = l + 1]
                    ELSE [run[p] EXCEPT !.step = "close"]
    <2>1. run' = [run EXCEPT ![p] = q]
      BY <1>4 DEF Log, TypeOK
    <2>2. /\ ~run[p].full => q.step = "idle"
          /\ run[p].full /\ l < 4 => q.step = "fetch" /\ q.full /\ q.level = l + 1
          /\ run[p].full /\ ~(l < 4) => q.step = "close" /\ q.full
      BY <1>0, IdleType, Levels DEF Run
    <2>3. l \in {1, 2, 3, 4} /\ run[p].step = "log" /\ run[p].full \in BOOLEAN
      BY <1>0, <1>4, Levels DEF Run, Log
    <2> HIDE DEF q, l
    <2>4. /\ run'[p] = q /\ \A v \in Runner : v # p => run'[v] = run[v]
          /\ UNCHANGED <<corp, row, log, calm>>
      BY <1>4, <2>1 DEF Log, TypeOK
    <2>5. log[p] # "completed"
      BY <1>0, <2>3 DEF MirrorOf
    <2>6. \A k \in Level : Through(p, k)' => Through(p, k)
      <3> SUFFICES ASSUME NEW k \in {1, 2, 3, 4}, Through(p, k)' PROVE k <= l
        BY <2>3, Levels DEF Through, l
      <3>1. \/ q.step = "fetch" /\ k < q.level
            \/ q.step = "close"
        BY <2>2, <2>3, <2>4, <2>5 DEF Through
      <3> QED
        BY <2>2, <2>3, <3>1
    <2>7. MirrorOf(p)'
      <3>1. calm[p] => run[p].full
        BY <1>0, <2>3 DEF MirrorOf
      <3>2. q.step # "save" /\ (q.step # "idle" => q.full)
        BY <2>2, <2>3
      <3> QED
        BY <1>0, <2>4, <2>5, <2>6, <3>1, <3>2, MirrorKept DEF MirrorOf
    <2> QED
      BY <2>4, <2>7, OtherKept DEF MirrorInv
  <1>5. CASE Close(p)
    <2>1. /\ run'[p] = Idle /\ log'[p] = "completed"
          /\ \A v \in Runner : v # p => run'[v] = run[v] /\ log'[v] = log[v]
          /\ UNCHANGED <<corp, row, calm>>
      BY <1>5 DEF Close, TypeOK
    <2>2. \A l \in Level : Through(p, l)
      BY <1>5 DEF Close, Through
    <2>3. MirrorOf(p)'
      BY <1>0, <2>1, <2>2, IdleType, MirrorKept DEF MirrorOf
    <2> QED
      BY <2>1, <2>3, OtherKept DEF MirrorInv
  <1>6. CASE GiveUp(p)
    <2>1. /\ log'[p] # "completed" /\ calm'[p] = FALSE
          /\ \A v \in Runner : v # p => /\ run'[v] = run[v] /\ log'[v] = log[v]
                                        /\ calm'[v] = calm[v]
          /\ UNCHANGED <<corp, row>>
      BY <1>0, <1>6 DEF GiveUp, TypeOK, MirrorOf
    <2> QED
      BY <2>1, NotCalm, OtherKept DEF MirrorInv
  <1>7. CASE Retry(p)
    <2>1. /\ run[p].full \in BOOLEAN
          /\ (IF run[p].full THEN 1 ELSE run[p].level) \in Level
      BY <1>0, Levels DEF Run
    <2> QED
      BY <1>7, <2>1, AttemptMirrors DEF Retry
  <1> QED
    BY <1>1, <1>2, <1>3, <1>4, <1>5, <1>6, <1>7 DEF Advance

LEMMA MirrorInit == Init => MirrorInv
  BY IdleType DEF Init, MirrorInv, MirrorOf

LEMMA MirrorStep == TypeOK /\ MirrorInv /\ [Next]_vars => MirrorInv'
  <1> SUFFICES ASSUME TypeOK, MirrorInv, [Next]_vars PROVE MirrorInv'
    OBVIOUS
  <1>1. ASSUME NEW l \in Level, Change(l) PROVE MirrorInv'
    <2>1. /\ \A v \in Runner : calm'[v] = FALSE
          /\ UNCHANGED <<run, log>>
      BY <1>1 DEF Change
    <2> QED
      BY <2>1, NotCalm DEF MirrorInv, MirrorOf
  <1>2. ASSUME NEW p \in Runner, NEW retries \in {0, MaxRetries}, Start(p, retries)
        PROVE  MirrorInv'
    <2>1. 1 \in Level
      BY Levels
    <2> QED
      BY <1>2, <2>1, AttemptMirrors DEF Start
  <1>3. ASSUME NEW p \in Runner, Die(p) PROVE MirrorInv'
    <2>1. /\ calm'[p] = FALSE /\ run'[p] = Idle
          /\ \A v \in Runner : v # p => run'[v] = run[v] /\ calm'[v] = calm[v]
          /\ UNCHANGED <<corp, row, log>>
      BY <1>3 DEF Die, TypeOK
    <2> QED
      BY <2>1, IdleType, NotCalm, OtherKept DEF MirrorInv
  <1>4. CASE UNCHANGED vars
    BY <1>4, OtherKept DEF vars, MirrorInv
  <1> QED
    BY <1>1, <1>2, <1>3, <1>4, AdvanceMirrors DEF Next

\* A completed full sync that nothing disturbed has left every loaded record
\* as Corporate says.
THEOREM FullSyncMirrors == Spec => []CompletedMirrors
  <1>1. MirrorInv => CompletedMirrors
    <2> SUFFICES ASSUME MirrorInv, NEW p \in Runner, log[p] = "completed", calm[p],
                        NEW r \in Record, corp[r].active,
                        \A q \in Parents(r) \union {r} : row[q] # None
                 PROVE  row[r] = ContentOf(r)
      BY DEF CompletedMirrors
    <2>1. PICK l \in Level : r \in Records[l]
      BY DEF Record
    <2>2. Mirrored(l)
      BY DEF MirrorInv, MirrorOf, Through
    <2> QED
      BY <2>1, <2>2 DEF Mirrored
  <1> QED
    BY <1>1, MirrorInit, MirrorStep, TypeCorrect, PTL DEF Spec

\* A row that is right goes wrong only by an answer that is out of date.
THEOREM RightRowsStayRight == Spec => RightRowsStay
  <1>1. TypeOK /\ [Next]_vars =>
           [\A r \in Record :
              row[r] # None /\ row[r] = ContentOf(r) /\ row'[r] # row[r] =>
                \E p \in Runner :
                   /\ run[p].step = "save" /\ run'[p].step = "log"
                   /\ run[p].got # Answer(run[p].level)]_row
    <2> SUFFICES ASSUME TypeOK, [Next]_vars, NEW r \in Record,
                        row[r] = ContentOf(r), row'[r] # row[r]
                 PROVE  \E p \in Runner :
                           /\ run[p].step = "save" /\ run'[p].step = "log"
                           /\ run[p].got # Answer(run[p].level)
      OBVIOUS
    <2>1. PICK p \in Runner : Save(p)
      BY DEF Next, Change, Start, Attempt, Advance, Fetch, FetchFails, SaveFails, Raise,
             Log, LogFails, Close, GiveUp, Retry, Die, vars
    <2>2. run[p].step = "save" /\ row' = RowsAfter(run[p].got)
      BY <2>1 DEF Save, Commit
    <2>3. run'[p].step = "log"
      BY <2>1 DEF Save, Commit, TypeOK, Run
    <2>4. r \in DOMAIN run[p].got /\ run[p].got[r] # ContentOf(r)
      BY <2>2 DEF RowsAfter, Updated, Placed
    <2>5. run[p].got # Answer(run[p].level)
      BY <2>4 DEF Answer
    <2> QED
      BY <2>2, <2>3, <2>5
  <1> QED
    BY <1>1, TypeCorrect, PTL DEF Spec, RightRowsStay
=============================================================================
