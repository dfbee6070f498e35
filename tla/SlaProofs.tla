------------------------------ MODULE SlaProofs ------------------------------
(***************************************************************************)
(* Machine-checked facts about SlaSweeps, for any rows, tasks, people,      *)
(* sweeps and bounds: its types, that nothing is taken back, and that       *)
(* escalations are on record.                                               *)
(***************************************************************************)
EXTENDS SlaSweeps, FiniteSetTheorems, TLAPS

\* What TypeOK says of a sweep.
LEMMA SweepShape ==
  ASSUME TypeOK, NEW s \in Sweeps
  PROVE  /\ sweep[s] \in {Idle} \cup Working
         /\ sweep[s].at = "mark" => sweep[s].todo \subseteq Items
         /\ sweep[s].at \in {"raise", "record"} =>
              sweep[s].item \in Items /\ sweep[s].todo \subseteq Items
         /\ sweep[s].at = "tasks" => sweep[s].todo \subseteq Tasks
         /\ sweep[s].at = "recordTask" => sweep[s].item \in Tasks /\ sweep[s].todo \subseteq Tasks
  BY DEF TypeOK, Working, Idle

\* A sweep may go to any state that is one of a sweep.
LEMMA SweepsShape ==
  ASSUME TypeOK, NEW s \in Sweeps, NEW new \in {Idle} \cup Working,
         sweep' = [sweep EXCEPT ![s] = new]
  PROVE  sweep' \in [Sweeps -> {Idle} \cup Working]
  BY DEF TypeOK, Working

\* What an item says.
LEMMA ItemShape ==
  ASSUME NEW i \in Items
  PROVE  i.row \in Rows /\ i.breachedAt \in Times /\ i.to \in 1..3
  BY DEF Items

\* Where a sweep goes from an item.
LEMMA ContinueShape ==
  ASSUME NEW todo \in SUBSET Items
  PROVE  Continue(todo) \in {Idle} \cup Working
  BY DEF Continue, Working

\* Where a sweep goes from a task.
LEMMA ContinueTasksShape ==
  ASSUME NEW todo \in SUBSET Tasks
  PROVE  ContinueTasks(todo) \in {Idle} \cup Working
  BY DEF ContinueTasks, Working

\* A row and a task may change a column at a time.
LEMMA RowShape ==
  ASSUME TypeOK, NEW r \in Rows
  PROVE  /\ row[r] \in RowRecord
         /\ row[r].active \in BOOLEAN /\ row[r].sla \in Times /\ row[r].level \in 0..3
         /\ row[r].breachedAt \in Times \cup {None}
  <1>1. row[r] \in RowRecord
    BY DEF TypeOK
  <1> QED
    BY <1>1 DEF RowRecord

\* Rows stay rows whichever columns a statement writes.
LEMMA RowUpdates ==
  ASSUME NEW x \in RowRecord, NEW b \in Times, NEW l \in 0..3, NEW a \in BOOLEAN
  PROVE  /\ [x EXCEPT !.breachedAt = b] \in RowRecord
         /\ [x EXCEPT !.level = l] \in RowRecord
         /\ [x EXCEPT !.active = a] \in RowRecord
         /\ [x EXCEPT !.active = a, !.sla = b] \in RowRecord
  BY DEF RowRecord

\* What TypeOK says of a task.
LEMMA TaskShape ==
  ASSUME TypeOK, NEW t \in Tasks
  PROVE  /\ task[t] \in TaskRecord
         /\ task[t].claimant \in Users \cup {None}
  <1>1. task[t] \in TaskRecord
    BY DEF TypeOK
  <1> QED
    BY <1>1 DEF TaskRecord

\* Tasks stay tasks whichever columns a statement writes.
LEMMA TaskUpdates ==
  ASSUME NEW x \in TaskRecord
  PROVE  /\ \A u \in Users : [x EXCEPT !.status = "claimed", !.claimant = u] \in TaskRecord
         /\ [x EXCEPT !.status = "released", !.claimant = None] \in TaskRecord
         /\ [x EXCEPT !.status = "completed"] \in TaskRecord
         /\ [x EXCEPT !.status = "escalated", !.escalated = TRUE] \in TaskRecord
  BY DEF TaskRecord

\* Bounds are naturals, and so are the times.
LEMMA TimesAreNat ==
  /\ Grace \in Nat /\ ToLevel2 \in Nat /\ ToLevel3 \in Nat
  /\ MaxTime \in Nat /\ MaxFaults \in Nat
  /\ None \notin Times /\ Times \subseteq Nat
  BY SlaAssumption DEF Times

-----------------------------------------------------------------------------
(* Types *)

\* Initially.
LEMMA InitType == Init => TypeOK
  <1> SUFFICES ASSUME Init PROVE TypeOK
    OBVIOUS
  <1>1. \A r \in Rows :
          [active |-> r \in present, sla |-> Grace, breachedAt |-> None, level |-> 0] \in RowRecord
    BY TimesAreNat DEF RowRecord, Times
  <1>2. [status |-> "pending", claimant |-> None, escalated |-> FALSE] \in TaskRecord
    BY DEF TaskRecord
  <1>3. row \in [Rows -> RowRecord] /\ task \in [Tasks -> TaskRecord]
    BY <1>1, <1>2 DEF Init
  <1>4. sweep \in [Sweeps -> {Idle} \cup Working] /\ now \in 0..MaxTime /\ failed \in 0..MaxFaults
    BY TimesAreNat DEF Init
  <1> QED
    BY <1>3, <1>4 DEF TypeOK, Init

\* Time, and what happens to rows and tasks outside the sweeps.
LEMMA SurroundingsType ==
  ASSUME TypeOK,
         \/ Tick
         \/ \E r \in present \cap Rows : List(r) \/ Resolve(r)
         \/ \E t \in present \cap Tasks : GrowsQuiet(t) \/ Complete(t)
         \/ \E t \in present \cap Tasks, u \in Users : Claim(u, t) \/ Release(u, t)
  PROVE  TypeOK'
  <1>1. CASE Tick
    BY <1>1, TimesAreNat DEF Tick, TypeOK
  <1>2. ASSUME NEW r \in Rows, List(r)
        PROVE  TypeOK'
    <2>1. PICK sla \in {row[r].sla, now + Grace} :
            row' = [row EXCEPT ![r].active = TRUE, ![r].sla = sla]
      BY <1>2 DEF List
    <2>2. sla \in Times
      BY <2>1, RowShape, TimesAreNat DEF TypeOK, Times
    <2>3. row' = [row EXCEPT ![r] = [row[r] EXCEPT !.active = TRUE, !.sla = sla]]
      BY <2>1 DEF TypeOK
    <2>4. row' \in [Rows -> RowRecord]
      BY <2>2, <2>3, RowShape, RowUpdates DEF TypeOK
    <2> QED
      BY <1>2, <2>4 DEF TypeOK, List
  <1>3. ASSUME NEW r \in Rows, Resolve(r)
        PROVE  TypeOK'
    <2>1. row' \in [Rows -> RowRecord]
      BY <1>3, RowShape, RowUpdates DEF Resolve, TypeOK
    <2> QED
      BY <1>3, <2>1 DEF TypeOK, Resolve
  <1>4. ASSUME NEW t \in Tasks, GrowsQuiet(t)
        PROVE  TypeOK'
    BY <1>4 DEF TypeOK, GrowsQuiet
  <1>5. ASSUME NEW t \in Tasks, Complete(t)
        PROVE  TypeOK'
    <2>1. task' \in [Tasks -> TaskRecord] /\ quiet' \subseteq Tasks
      BY <1>5, TaskShape, TaskUpdates DEF Complete, TypeOK
    <2> QED
      BY <1>5, <2>1 DEF TypeOK, Complete
  <1>6. ASSUME NEW t \in Tasks, NEW u \in Users, Claim(u, t)
        PROVE  TypeOK'
    <2>1. task' = [task EXCEPT ![t] = [task[t] EXCEPT !.status = "claimed", !.claimant = u]]
      BY <1>6 DEF Claim, TypeOK
    <2>2. [task[t] EXCEPT !.status = "claimed", !.claimant = u] \in TaskRecord
      BY TaskShape, TaskUpdates
    <2>3. task' \in [Tasks -> TaskRecord] /\ quiet' \subseteq Tasks
      BY <1>6, <2>1, <2>2 DEF Claim, TypeOK
    <2> QED
      BY <1>6, <2>3 DEF TypeOK, Claim
  <1>7. ASSUME NEW t \in Tasks, NEW u \in Users, Release(u, t)
        PROVE  TypeOK'
    <2>1. task' = [task EXCEPT ![t] = [task[t] EXCEPT !.status = "released", !.claimant = None]]
      BY <1>7 DEF Release, TypeOK
    <2>2. [task[t] EXCEPT !.status = "released", !.claimant = None] \in TaskRecord
      BY TaskShape, TaskUpdates
    <2>3. task' \in [Tasks -> TaskRecord] /\ quiet' \subseteq Tasks
      BY <1>7, <2>1, <2>2 DEF Release, TypeOK
    <2> QED
      BY <1>7, <2>3 DEF TypeOK, Release
  <1> QED
    BY <1>1, <1>2, <1>3, <1>4, <1>5, <1>6, <1>7

\* The sweep over the rows.
LEMMA RowsType ==
  ASSUME TypeOK, NEW s \in Sweeps, EscalateRows(s)
  PROVE  TypeOK'
  <1>1. CASE BeginEscalation(s)
    <2>1. PICK B \in Batch(Candidates) :
            sweep' = [sweep EXCEPT ![s] =
              [at |-> "mark",
               todo |-> {[row |-> r, breachedAt |-> Breach(r), to |-> LevelDue(r)] :
                           r \in {q \in B : LevelDue(q) > row[q].level}}]]
      BY <1>1 DEF BeginEscalation
    <2>2. B \subseteq Rows
      BY DEF Batch, Candidates
    <2>3. \A r \in Rows :
            [row |-> r, breachedAt |-> Breach(r), to |-> LevelDue(r)] \in Items
      BY RowShape, TimesAreNat DEF Items, Breach, LevelDue
    <2>4. [at |-> "mark",
           todo |-> {[row |-> r, breachedAt |-> Breach(r), to |-> LevelDue(r)] :
                       r \in {q \in B : LevelDue(q) > row[q].level}}] \in Working
      BY <2>2, <2>3 DEF Working
    <2>5. sweep' \in [Sweeps -> {Idle} \cup Working]
      BY <2>1, <2>4, SweepsShape
    <2> QED
      BY <1>1, <2>5 DEF TypeOK, BeginEscalation
  <1>2. CASE MarkBreached(s)
    <2>1. PICK i \in sweep[s].todo :
            /\ row' = IF Unmarked(i.row) THEN [row EXCEPT ![i.row].breachedAt = i.breachedAt]
                      ELSE row
            /\ sweep' = [sweep EXCEPT ![s] =
                           [at |-> "raise", item |-> i, todo |-> sweep[s].todo \ {i}]]
      BY <1>2 DEF MarkBreached, TypeOK
    <2>2. i \in Items /\ sweep[s].todo \subseteq Items
      BY <1>2, <2>1, SweepShape DEF MarkBreached
    <2>3. row' \in [Rows -> RowRecord]
      BY <2>1, <2>2, ItemShape, RowShape, RowUpdates DEF TypeOK
    <2>4. [at |-> "raise", item |-> i, todo |-> sweep[s].todo \ {i}] \in Working
      BY <2>2 DEF Working
    <2>5. sweep' \in [Sweeps -> {Idle} \cup Working]
      BY <2>1, <2>4, SweepsShape
    <2> QED
      BY <1>2, <2>3, <2>5 DEF TypeOK, MarkBreached
  <1>3. CASE RaiseLevel(s)
    <2>1. sweep[s].item \in Items /\ sweep[s].at = "raise"
      BY <1>3, SweepShape DEF RaiseLevel
    <2>2. row' \in [Rows -> RowRecord]
      <3>1. PICK q \in Rows, l \in 1..3 : sweep[s].item.row = q /\ sweep[s].item.to = l
        BY <2>1, ItemShape
      <3>2. [row[q] EXCEPT !.level = l] \in RowRecord
        <4>1. row[q] \in RowRecord /\ row[q].sla \in Times /\ TRUE \in BOOLEAN /\ l \in 0..3
          BY RowShape
        <4> QED
          BY <4>1, RowUpdates
      <3> QED
        BY <1>3, <3>1, <3>2 DEF RaiseLevel, TypeOK
    <2>3. [sweep[s] EXCEPT !.at = "record"] \in Working
      BY <2>1, SweepShape DEF Working, Idle
    <2>4. sweep' \in [Sweeps -> {Idle} \cup Working]
      BY <1>3, <2>3, SweepsShape DEF RaiseLevel, TypeOK
    <2> QED
      BY <1>3, <2>2, <2>4 DEF TypeOK, RaiseLevel
  <1>4. CASE RecordLevel(s)
    <2>1. sweep[s].item \in Items /\ sweep[s].todo \subseteq Items
      BY <1>4, SweepShape DEF RecordLevel
    <2>2. records' \subseteq (Rows \X (1..3)) \cup (Tasks \X {1})
      BY <1>4, <2>1, ItemShape DEF RecordLevel, WithRecord, TypeOK
    <2>3. sweep' \in [Sweeps -> {Idle} \cup Working]
      BY <1>4, <2>1, ContinueShape, SweepsShape DEF RecordLevel, TypeOK
    <2> QED
      BY <1>4, <2>2, <2>3 DEF TypeOK, RecordLevel
  <1> QED
    BY <1>1, <1>2, <1>3, <1>4 DEF EscalateRows

\* The sweep over the tasks.
LEMMA TasksType ==
  ASSUME TypeOK, NEW s \in Sweeps, EscalateTasks(s)
  PROVE  TypeOK'
  <1>1. CASE BeginStale(s)
    <2>1. PICK B \in Batch(Stale) : sweep' = [sweep EXCEPT ![s] = [at |-> "tasks", todo |-> B]]
      BY <1>1 DEF BeginStale
    <2>2. [at |-> "tasks", todo |-> B] \in Working
      BY DEF Batch, Stale, Working, TypeOK
    <2>3. sweep' \in [Sweeps -> {Idle} \cup Working]
      BY <2>1, <2>2, SweepsShape
    <2> QED
      BY <1>1, <2>3 DEF TypeOK, BeginStale
  <1>2. CASE EscalateTask(s)
    <2>1. PICK t \in sweep[s].todo :
            /\ sweep' = [sweep EXCEPT ![s] =
                           [at |-> "recordTask", item |-> t, todo |-> sweep[s].todo \ {t}]]
            /\ IF Escalable(t)
               THEN /\ task' = [task EXCEPT ![t].status = "escalated", ![t].escalated = TRUE]
                    /\ quiet' = quiet \ {t}
               ELSE UNCHANGED <<task, quiet>>
      BY <1>2 DEF EscalateTask, TypeOK
    <2>2. t \in Tasks /\ sweep[s].todo \subseteq Tasks
      BY <1>2, <2>1, SweepShape DEF EscalateTask
    <2>3. task' \in {task, [task EXCEPT ![t] =
                             [task[t] EXCEPT !.status = "escalated", !.escalated = TRUE]]}
      BY <2>1, <2>2 DEF TypeOK
    <2>4. task' \in [Tasks -> TaskRecord] /\ quiet' \subseteq Tasks
      <3>1. [task[t] EXCEPT !.status = "escalated", !.escalated = TRUE] \in TaskRecord
        BY <2>2, TaskShape, TaskUpdates
      <3> QED
        BY <2>1, <2>2, <2>3, <3>1 DEF TypeOK
    <2>5. [at |-> "recordTask", item |-> t, todo |-> sweep[s].todo \ {t}] \in Working
      BY <2>2 DEF Working
    <2>6. sweep' \in [Sweeps -> {Idle} \cup Working]
      BY <2>1, <2>5, SweepsShape
    <2> QED
      BY <1>2, <2>4, <2>6 DEF TypeOK, EscalateTask
  <1>3. CASE RecordTask(s)
    <2>1. sweep[s].item \in Tasks /\ sweep[s].todo \subseteq Tasks
      BY <1>3, SweepShape DEF RecordTask
    <2>2. records' \subseteq (Rows \X (1..3)) \cup (Tasks \X {1})
      BY <1>3, <2>1 DEF RecordTask, WithRecord, TypeOK
    <2>3. sweep' \in [Sweeps -> {Idle} \cup Working]
      BY <1>3, <2>1, ContinueTasksShape, SweepsShape DEF RecordTask, TypeOK
    <2> QED
      BY <1>3, <2>2, <2>3 DEF TypeOK, RecordTask
  <1> QED
    BY <1>1, <1>2, <1>3 DEF EscalateTasks

\* A fault takes a sweep to its next item, or to its end.
LEMMA FaultsType ==
  ASSUME TypeOK, NEW s \in Sweeps, SkipItem(s) \/ SweepDies(s)
  PROVE  TypeOK'
  <1>1. failed' \in 0..MaxFaults
    BY TimesAreNat DEF SkipItem, SweepDies, TypeOK
  <1>2. sweep' \in [Sweeps -> {Idle} \cup Working]
    <2>1. CASE SweepDies(s)
      BY <2>1, SweepsShape DEF SweepDies
    <2>2. CASE /\ sweep[s].at = "mark"
               /\ \E i \in sweep[s].todo : sweep' = [sweep EXCEPT ![s] = Continue(@.todo \ {i})]
      <3>1. PICK i : sweep' = [sweep EXCEPT ![s] = Continue(sweep[s].todo \ {i})]
        BY <2>2 DEF TypeOK
      <3>2. sweep[s].todo \ {i} \in SUBSET Items
        BY <2>2, SweepShape
      <3> QED
        BY <3>1, <3>2, ContinueShape, SweepsShape
    <2>3. CASE /\ sweep[s].at \in {"raise", "record"}
               /\ sweep' = [sweep EXCEPT ![s] = Continue(@.todo)]
      BY <2>3, SweepShape, ContinueShape, SweepsShape DEF TypeOK
    <2>4. CASE /\ sweep[s].at = "tasks"
               /\ \E t \in sweep[s].todo : sweep' = [sweep EXCEPT ![s] = ContinueTasks(@.todo \ {t})]
      <3>1. PICK t : sweep' = [sweep EXCEPT ![s] = ContinueTasks(sweep[s].todo \ {t})]
        BY <2>4 DEF TypeOK
      <3>2. sweep[s].todo \ {t} \in SUBSET Tasks
        BY <2>4, SweepShape
      <3> QED
        BY <3>1, <3>2, ContinueTasksShape, SweepsShape
    <2>5. CASE /\ sweep[s].at = "recordTask"
               /\ sweep' = [sweep EXCEPT ![s] = ContinueTasks(@.todo)]
      BY <2>5, SweepShape, ContinueTasksShape, SweepsShape DEF TypeOK
    <2> QED
      BY <2>1, <2>2, <2>3, <2>4, <2>5 DEF SkipItem
  <1> QED
    BY <1>1, <1>2 DEF TypeOK, SkipItem, SweepDies

\* Every step keeps the types.
LEMMA NextType == TypeOK /\ [Next]_vars => TypeOK'
  <1> SUFFICES ASSUME TypeOK, [Next]_vars PROVE TypeOK'
    OBVIOUS
  <1>1. CASE UNCHANGED vars
    BY <1>1 DEF TypeOK, vars
  <1> QED
    BY <1>1, SurroundingsType, RowsType, TasksType, FaultsType DEF Next

\* Every variable has its type in every reachable state.
THEOREM TypeCorrect == Spec => []TypeOK
  BY InitType, NextType, PTL DEF Spec

-----------------------------------------------------------------------------
(* Nothing is taken back *)

RowsKept ==
  \A r \in Rows :
    /\ row'[r].level >= row[r].level
    /\ row[r].breachedAt # None => row'[r].breachedAt = row[r].breachedAt
TasksKept ==
  \A t \in Tasks :
    /\ task[t].status = "completed" => task'[t].status = "completed"
    /\ task[t].claimant # None => task'[t].claimant \in {task[t].claimant, None}

\* Untouched rows keep what they have.
LEMMA RowsSame == ASSUME TypeOK, row' = row PROVE RowsKept
  BY RowShape DEF RowsKept

\* Untouched tasks keep what they have.
LEMMA TasksSame == ASSUME TypeOK, task' = task PROVE TasksKept
  BY DEF TasksKept

\* Every step keeps levels, breaches, completions and claims.
LEMMA NextKeeps == TypeOK /\ Next => RowsKept /\ TasksKept
  <1> SUFFICES ASSUME TypeOK, Next PROVE RowsKept /\ TasksKept
    OBVIOUS
  <1>1. ASSUME UNCHANGED <<row, task>>
        PROVE  RowsKept /\ TasksKept
    BY <1>1, RowsSame, TasksSame
  <1>2. ASSUME NEW r \in Rows, List(r) \/ Resolve(r)
        PROVE  RowsKept /\ TasksKept
    <2>1. RowsKept
      BY <1>2, RowShape DEF List, Resolve, RowsKept, RowRecord, TypeOK
    <2> QED
      BY <1>2, <2>1, TasksSame DEF List, Resolve
  <1>3. ASSUME NEW t \in Tasks, Complete(t)
        PROVE  RowsKept /\ TasksKept
    <2>1. TasksKept
      BY <1>3, TaskShape DEF Complete, TasksKept, TaskRecord, TypeOK
    <2> QED
      BY <1>3, <2>1, RowsSame DEF Complete
  <1>4. ASSUME NEW t \in Tasks, NEW u \in Users, Claim(u, t) \/ Release(u, t)
        PROVE  RowsKept /\ TasksKept
    <2>1. TasksKept
      BY <1>4, TaskShape DEF Claim, Claimable, Release, TasksKept, TaskRecord, TypeOK
    <2> QED
      BY <1>4, <2>1, RowsSame DEF Claim, Release
  <1>5. ASSUME NEW s \in Sweeps, MarkBreached(s)
        PROVE  RowsKept /\ TasksKept
    <2>1. PICK i \in sweep[s].todo :
            row' = IF Unmarked(i.row) THEN [row EXCEPT ![i.row].breachedAt = i.breachedAt] ELSE row
      BY <1>5 DEF MarkBreached
    <2>2. RowsKept
      BY <2>1, RowShape DEF Unmarked, RowsKept, RowRecord, TypeOK
    <2> QED
      BY <1>5, <2>2, TasksSame DEF MarkBreached
  <1>6. ASSUME NEW s \in Sweeps, RaiseLevel(s)
        PROVE  RowsKept /\ TasksKept
    <2>1. sweep[s].item.row \in Rows /\ sweep[s].item.to \in 1..3
      BY <1>6, SweepShape, ItemShape DEF RaiseLevel
    <2>2. RowsKept
      BY <1>6, <2>1, RowShape DEF RaiseLevel, Below, RowsKept, RowRecord, TypeOK
    <2> QED
      BY <1>6, <2>2, TasksSame DEF RaiseLevel
  <1>7. ASSUME NEW s \in Sweeps, EscalateTask(s)
        PROVE  RowsKept /\ TasksKept
    <2>1. PICK t \in Tasks :
            IF Escalable(t)
            THEN task' = [task EXCEPT ![t].status = "escalated", ![t].escalated = TRUE]
            ELSE task' = task
      BY <1>7, SweepShape DEF EscalateTask
    <2>2. TasksKept
      BY <2>1, TaskShape DEF Escalable, TasksKept, TaskRecord, TypeOK
    <2> QED
      BY <1>7, <2>2, RowsSame DEF EscalateTask
  <1>8. CASE Tick
    BY <1>1, <1>8 DEF Tick
  <1>9. ASSUME NEW t \in Tasks, GrowsQuiet(t)
        PROVE  RowsKept /\ TasksKept
    BY <1>1, <1>9 DEF GrowsQuiet
  <1>10. ASSUME NEW s \in Sweeps,
                \/ BeginEscalation(s) \/ RecordLevel(s) \/ BeginStale(s) \/ RecordTask(s)
                \/ SkipItem(s) \/ SweepDies(s)
         PROVE  RowsKept /\ TasksKept
    BY <1>1, <1>10 DEF BeginEscalation, RecordLevel, BeginStale, RecordTask, SkipItem, SweepDies
  <1> QED
    BY <1>2, <1>3, <1>4, <1>5, <1>6, <1>7, <1>8, <1>9, <1>10
       DEF Next, EscalateRows, EscalateTasks

\* However sweeps and people overlap: levels do not fall, the breach stays the
\* first one, completed tasks stay completed, and nobody takes a task over.
THEOREM NothingTakenBackHolds == Spec => NothingTakenBack
  <1>1. TypeOK /\ [Next]_vars =>
          [/\ \A r \in Rows :
                /\ row'[r].level >= row[r].level
                /\ row[r].breachedAt # None => row'[r].breachedAt = row[r].breachedAt
           /\ \A t \in Tasks :
                /\ task[t].status = "completed" => task'[t].status = "completed"
                /\ task[t].claimant # None => task'[t].claimant \in {task[t].claimant, None}]_vars
    BY NextKeeps DEF RowsKept, TasksKept
  <1> QED
    BY <1>1, InitType, NextType, PTL DEF Spec, NothingTakenBack

-----------------------------------------------------------------------------
(* Escalations are on record *)

Missing ==
  {r \in Rows : row[r].level > 0 /\ Unrecorded(r, row[r].level)}
    \cup {t \in Tasks : task[t].escalated /\ Unrecorded(t, 1)}
RecordedInv == IsFiniteSet(Missing) /\ Cardinality(Missing) <= failed

\* Initially nothing is escalated.
LEMMA InitRecorded == Init => RecordedInv
  <1> SUFFICES ASSUME Init PROVE RecordedInv
    OBVIOUS
  <1>1. Missing = {}
    BY DEF Init, Missing
  <1> QED
    BY <1>1, FS_EmptySet DEF Init, RecordedInv

\* A step after which no more records are missing, and a fault that loses one.
LEMMA NoMoreMissing ==
  ASSUME TypeOK, RecordedInv, Missing' \subseteq Missing, failed' = failed
  PROVE  RecordedInv'
  <1>1. /\ IsFiniteSet(Missing') /\ Cardinality(Missing') <= Cardinality(Missing)
        /\ Cardinality(Missing) \in Nat /\ Cardinality(Missing') \in Nat
    BY FS_Subset, FS_CardinalityType DEF RecordedInv
  <1> QED
    BY <1>1 DEF RecordedInv, TypeOK

\* A fault after which one more record may be missing.
LEMMA OneMoreMissing ==
  ASSUME TypeOK, RecordedInv, NEW x, Missing' \subseteq Missing \cup {x}, failed' = failed + 1
  PROVE  RecordedInv'
  <1>1. /\ IsFiniteSet(Missing \cup {x}) /\ Cardinality(Missing) \in Nat
        /\ Cardinality(Missing \cup {x}) \in {Cardinality(Missing), Cardinality(Missing) + 1}
    BY FS_AddElement, FS_CardinalityType DEF RecordedInv
  <1>2. /\ IsFiniteSet(Missing') /\ Cardinality(Missing') <= Cardinality(Missing \cup {x})
        /\ Cardinality(Missing') \in Nat
    BY <1>1, FS_Subset, FS_CardinalityType
  <1> QED
    BY <1>1, <1>2 DEF RecordedInv, TypeOK

\* What is neither on record nor about to be was so before, and an escalation
\* that is new is about to be recorded.
LEMMA MissingKept ==
  ASSUME \A x, l : Unrecorded(x, l)' => Unrecorded(x, l),
         \A r \in Rows : \A l : row'[r].level = l /\ row[r].level # l => ~Unrecorded(r, l)',
         \A t \in Tasks : task'[t].escalated # task[t].escalated => ~Unrecorded(t, 1)'
  PROVE  Missing' \subseteq Missing
  BY DEF Missing

\* Steps of one sweep: it is not about to record anything else than before.
LEMMA SweepMoves ==
  ASSUME TypeOK, NEW s \in Sweeps, NEW new, sweep' = [sweep EXCEPT ![s] = new]
  PROVE  \A x, l :
           AboutToRecord(x, l)' <=>
             \/ \E z \in Sweeps \ {s} :
                  \/ sweep[z].at = "record" /\ sweep[z].item.row = x /\ sweep[z].item.to = l
                  \/ sweep[z].at = "recordTask" /\ sweep[z].item = x /\ l = 1
             \/ new.at = "record" /\ new.item.row = x /\ new.item.to = l
             \/ new.at = "recordTask" /\ new.item = x /\ l = 1
  BY DEF AboutToRecord, TypeOK

\* A sweep that was about to record nothing leaves nothing unrecorded by moving.
LEMMA StartKeeps ==
  ASSUME TypeOK, NEW s \in Sweeps, NEW new, sweep' = [sweep EXCEPT ![s] = new],
         sweep[s].at \notin {"record", "recordTask"}, records' = records
  PROVE  \A x, l : Unrecorded(x, l)' => Unrecorded(x, l)
  <1>1. \A x, l : AboutToRecord(x, l) => AboutToRecord(x, l)'
    BY SweepMoves DEF AboutToRecord
  <1> QED
    BY <1>1 DEF Unrecorded

\* One that was leaves at most what it was about to record.
LEMMA LeaveLoses ==
  ASSUME TypeOK, NEW s \in Sweeps, NEW new, sweep' = [sweep EXCEPT ![s] = new],
         records \subseteq records'
  PROVE  \A x, l :
           Unrecorded(x, l)' =>
             \/ Unrecorded(x, l)
             \/ sweep[s].at = "record" /\ sweep[s].item.row = x /\ sweep[s].item.to = l
             \/ sweep[s].at = "recordTask" /\ sweep[s].item = x /\ l = 1
  <1>1. \A x, l :
          AboutToRecord(x, l) =>
            \/ AboutToRecord(x, l)'
            \/ sweep[s].at = "record" /\ sweep[s].item.row = x /\ sweep[s].item.to = l
            \/ sweep[s].at = "recordTask" /\ sweep[s].item = x /\ l = 1
    BY SweepMoves DEF AboutToRecord
  <1> QED
    BY <1>1 DEF Unrecorded

\* Escalations and records stay as they were.
LEMMA MissingSame ==
  ASSUME TypeOK, RecordedInv, sweep' = sweep, records' = records, failed' = failed,
         \A r \in Rows : row'[r].level = row[r].level,
         \A t \in Tasks : task'[t].escalated = task[t].escalated
  PROVE  RecordedInv'
  <1>1. \A x, l : Unrecorded(x, l)' => Unrecorded(x, l)
    BY DEF Unrecorded, AboutToRecord
  <1> QED
    BY <1>1, MissingKept, NoMoreMissing

\* Neither time nor people escalate anything.
LEMMA SurroundingsRecorded ==
  ASSUME TypeOK, RecordedInv,
         \/ Tick
         \/ \E r \in present \cap Rows : List(r) \/ Resolve(r)
         \/ \E t \in present \cap Tasks : GrowsQuiet(t) \/ Complete(t)
         \/ \E t \in present \cap Tasks, u \in Users : Claim(u, t) \/ Release(u, t)
  PROVE  RecordedInv'
  <1>1. ASSUME NEW r \in Rows, List(r) \/ Resolve(r)
        PROVE  \A q \in Rows : row'[q].level = row[q].level
    BY <1>1, RowShape DEF List, Resolve, RowRecord, TypeOK
  <1>2. ASSUME NEW t \in Tasks, Complete(t) \/ \E u \in Users : Claim(u, t) \/ Release(u, t)
        PROVE  \A q \in Tasks : task'[q].escalated = task[q].escalated
    BY <1>2, TaskShape DEF Complete, Claim, Release, TaskRecord, TypeOK
  <1>3. UNCHANGED <<sweep, records, failed>>
    BY DEF Tick, List, Resolve, GrowsQuiet, Complete, Claim, Release
  <1>4. \A q \in Rows : row'[q].level = row[q].level
    BY <1>1 DEF Tick, GrowsQuiet, Complete, Claim, Release
  <1>5. \A q \in Tasks : task'[q].escalated = task[q].escalated
    BY <1>2 DEF Tick, GrowsQuiet, List, Resolve
  <1> QED
    BY <1>3, <1>4, <1>5, MissingSame

\* The sweep over the rows raises a level on its way to the record.
LEMMA RowsRecorded ==
  ASSUME TypeOK, RecordedInv, NEW s \in Sweeps, EscalateRows(s)
  PROVE  RecordedInv'
  <1>1. CASE BeginEscalation(s)
    <2>1. PICK new : sweep' = [sweep EXCEPT ![s] = new]
      BY <1>1 DEF BeginEscalation
    <2>2. sweep[s].at \notin {"record", "recordTask"}
      BY <1>1 DEF BeginEscalation, Idle
    <2>3. \A x, l : Unrecorded(x, l)' => Unrecorded(x, l)
      BY <1>1, <2>1, <2>2, StartKeeps DEF BeginEscalation
    <2>4. Missing' \subseteq Missing
      BY <1>1, <2>3, MissingKept DEF BeginEscalation
    <2> QED
      BY <1>1, <2>4, NoMoreMissing DEF BeginEscalation
  <1>2. CASE MarkBreached(s)
    <2>1. PICK i \in sweep[s].todo :
            /\ row' = IF Unmarked(i.row) THEN [row EXCEPT ![i.row].breachedAt = i.breachedAt]
                      ELSE row
            /\ sweep' = [sweep EXCEPT ![s] =
                           [at |-> "raise", item |-> i, todo |-> sweep[s].todo \ {i}]]
      BY <1>2 DEF MarkBreached, TypeOK
    <2>2. \A r \in Rows : row'[r].level = row[r].level
      BY <2>1, RowShape DEF RowRecord, TypeOK
    <2>3. \A x, l : Unrecorded(x, l)' => Unrecorded(x, l)
      BY <1>2, <2>1, StartKeeps DEF MarkBreached
    <2>4. Missing' \subseteq Missing
      BY <1>2, <2>2, <2>3, MissingKept DEF MarkBreached
    <2> QED
      BY <1>2, <2>4, NoMoreMissing DEF MarkBreached
  <1>3. CASE RaiseLevel(s)
    <2>1. PICK q \in Rows, l \in 1..3 : sweep[s].item.row = q /\ sweep[s].item.to = l
      BY <1>3, SweepShape, ItemShape DEF RaiseLevel
    <2>2. row' = IF Below(q, l) THEN [row EXCEPT ![q].level = l] ELSE row
      BY <1>3, <2>1 DEF RaiseLevel
    <2>3. \A r \in Rows : \A k : row'[r].level = k /\ row[r].level # k => r = q /\ k = l
      BY <2>2, RowShape DEF RowRecord, TypeOK
    <2>4. PICK new : new = [sweep[s] EXCEPT !.at = "record"]
      OBVIOUS
    <2>5. sweep' = [sweep EXCEPT ![s] = new]
      BY <1>3, <2>4 DEF RaiseLevel, TypeOK
    <2>6. new.at = "record" /\ new.item.row = q /\ new.item.to = l
      BY <1>3, <2>1, <2>4, SweepShape DEF RaiseLevel, Working, Idle
    <2>7. AboutToRecord(q, l)'
      <3>1. sweep'[s] = new
        BY <2>5 DEF TypeOK
      <3> QED
        BY <2>6, <3>1 DEF AboutToRecord
    <2>8. \A x, k : Unrecorded(x, k)' => Unrecorded(x, k)
      BY <1>3, <2>5, StartKeeps DEF RaiseLevel
    <2>9. \A r \in Rows : \A k : row'[r].level = k /\ row[r].level # k => ~Unrecorded(r, k)'
      BY <2>3, <2>7 DEF Unrecorded
    <2>10. Missing' \subseteq Missing
      BY <1>3, <2>8, <2>9, MissingKept DEF RaiseLevel
    <2> QED
      BY <1>3, <2>10, NoMoreMissing DEF RaiseLevel
  <1>4. CASE RecordLevel(s)
    <2>1. PICK new : sweep' = [sweep EXCEPT ![s] = new]
      BY <1>4 DEF RecordLevel
    <2>2. /\ sweep[s].at = "record" /\ records \subseteq records'
          /\ <<sweep[s].item.row, sweep[s].item.to>> \in records'
      BY <1>4 DEF RecordLevel, WithRecord
    <2>3. \A x, l : Unrecorded(x, l)' => Unrecorded(x, l)
      BY <2>1, <2>2, LeaveLoses DEF Unrecorded
    <2>4. Missing' \subseteq Missing
      BY <1>4, <2>3, MissingKept DEF RecordLevel
    <2> QED
      BY <1>4, <2>4, NoMoreMissing DEF RecordLevel
  <1> QED
    BY <1>1, <1>2, <1>3, <1>4 DEF EscalateRows

\* The sweep over the tasks escalates one on its way to the record.
LEMMA TasksRecorded ==
  ASSUME TypeOK, RecordedInv, NEW s \in Sweeps, EscalateTasks(s)
  PROVE  RecordedInv'
  <1>1. CASE BeginStale(s)
    <2>1. PICK new : sweep' = [sweep EXCEPT ![s] = new]
      BY <1>1 DEF BeginStale
    <2>2. sweep[s].at \notin {"record", "recordTask"}
      BY <1>1 DEF BeginStale, Idle
    <2>3. \A x, l : Unrecorded(x, l)' => Unrecorded(x, l)
      BY <1>1, <2>1, <2>2, StartKeeps DEF BeginStale
    <2>4. Missing' \subseteq Missing
      BY <1>1, <2>3, MissingKept DEF BeginStale
    <2> QED
      BY <1>1, <2>4, NoMoreMissing DEF BeginStale
  <1>2. CASE EscalateTask(s)
    <2>1. PICK t \in Tasks :
            /\ sweep' = [sweep EXCEPT ![s] =
                           [at |-> "recordTask", item |-> t, todo |-> sweep[s].todo \ {t}]]
            /\ IF Escalable(t)
               THEN task' = [task EXCEPT ![t].status = "escalated", ![t].escalated = TRUE]
               ELSE task' = task
      BY <1>2, SweepShape DEF EscalateTask, TypeOK
    <2>2. \A q \in Tasks : task'[q].escalated # task[q].escalated => q = t
      BY <2>1, TaskShape DEF TaskRecord, TypeOK
    <2>3. AboutToRecord(t, 1)'
      <3>1. sweep'[s].at = "recordTask" /\ sweep'[s].item = t
        BY <2>1 DEF TypeOK
      <3> QED
        BY <3>1 DEF AboutToRecord
    <2>4. \A x, l : Unrecorded(x, l)' => Unrecorded(x, l)
      BY <1>2, <2>1, StartKeeps DEF EscalateTask
    <2>5. Missing' \subseteq Missing
      BY <1>2, <2>2, <2>3, <2>4, MissingKept DEF EscalateTask, Unrecorded
    <2> QED
      BY <1>2, <2>5, NoMoreMissing DEF EscalateTask
  <1>3. CASE RecordTask(s)
    <2>1. PICK new : sweep' = [sweep EXCEPT ![s] = new]
      BY <1>3 DEF RecordTask
    <2>2. /\ sweep[s].at = "recordTask" /\ records \subseteq records'
          /\ <<sweep[s].item, 1>> \in records'
      BY <1>3 DEF RecordTask, WithRecord
    <2>3. \A x, l : Unrecorded(x, l)' => Unrecorded(x, l)
      BY <2>1, <2>2, LeaveLoses DEF Unrecorded
    <2>4. Missing' \subseteq Missing
      BY <1>3, <2>3, MissingKept DEF RecordTask
    <2> QED
      BY <1>3, <2>4, NoMoreMissing DEF RecordTask
  <1> QED
    BY <1>1, <1>2, <1>3 DEF EscalateTasks

\* A fault loses the record its sweep was about to insert, and no other.
LEMMA FaultsRecorded ==
  ASSUME TypeOK, RecordedInv, NEW s \in Sweeps, SkipItem(s) \/ SweepDies(s)
  PROVE  RecordedInv'
  <1>1. /\ UNCHANGED <<row, task, records>>
        /\ failed' = failed + 1
    BY DEF SkipItem, SweepDies
  <1>2. PICK new : sweep' = [sweep EXCEPT ![s] = new]
    BY DEF SkipItem, SweepDies
  <1>3. PICK x : \A y, l : Unrecorded(y, l)' => Unrecorded(y, l) \/ y = x
    <2>1. CASE sweep[s].at = "recordTask"
      <3>1. \A y, l : Unrecorded(y, l)' => Unrecorded(y, l) \/ y = sweep[s].item
        BY <1>1, <1>2, <2>1, LeaveLoses
      <3> QED
        BY <3>1
    <2>2. CASE sweep[s].at # "recordTask"
      <3>1. \A y, l : Unrecorded(y, l)' => Unrecorded(y, l) \/ y = sweep[s].item.row
        BY <1>1, <1>2, <2>2, LeaveLoses
      <3> QED
        BY <3>1
    <2> QED
      BY <2>1, <2>2
  <1>4. Missing' \subseteq Missing \cup {x}
    BY <1>1, <1>3 DEF Missing
  <1> QED
    BY <1>1, <1>4, OneMoreMissing

\* Every step keeps escalations on record, but for one per fault.
LEMMA NextRecorded == TypeOK /\ RecordedInv /\ [Next]_vars => RecordedInv'
  <1> SUFFICES ASSUME TypeOK, RecordedInv, [Next]_vars PROVE RecordedInv'
    OBVIOUS
  <1>1. CASE UNCHANGED vars
    BY <1>1, MissingSame DEF vars
  <1> QED
    BY <1>1, SurroundingsRecorded, RowsRecorded, TasksRecorded, FaultsRecorded DEF Next

\* Every escalation is on record or about to be, but for one per fault.
THEOREM EscalationsRecordedHolds == Spec => []EscalationsRecorded
  <1>1. RecordedInv => EscalationsRecorded
    BY DEF RecordedInv, EscalationsRecorded, Missing
  <1> QED
    BY <1>1, InitType, NextType, InitRecorded, NextRecorded, PTL DEF Spec
=============================================================================
