----------------------------- MODULE SlaSweeps -----------------------------
(***************************************************************************)
(* The two sweeps that escalate what nobody attends to                      *)
(* (packages/workers/src/sla/escalation-engine.ts): queue rows past their   *)
(* service level, whose escalation level rises with the time since the      *)
(* breach, and workflow tasks without activity.  With them, what moves      *)
(* under their feet: the queue projections (projections/queue-projection.ts)*)
(* and the people at the tasks (apps/api/src/services/workflow-task.ts).    *)
(*                                                                         *)
(* A sweep works in no transaction: it selects a batch and then, item by    *)
(* item, writes a row or a task and inserts the record of the escalation,   *)
(* from what it read at the start.  An item that fails is skipped.          *)
(***************************************************************************)
EXTENDS Naturals, FiniteSets

CONSTANTS
  Rows,       \* rows of queue_projections
  Tasks,      \* rows of workflow_tasks, past their due date
  Users,      \* people who claim, release and complete tasks
  Sweeps,     \* sweeps that may run at once
  None,       \* a null column
  BatchSize,  \* LIMIT of a selection
  Grace,      \* time from a listing to its service level
  ToLevel2, ToLevel3,  \* time from a breach to levels 2 and 3
  MaxPresent, \* bound: rows and tasks there are
  MaxTime,    \* bound: the clock
  MaxFaults   \* bound: failing items and dying sweeps

ASSUME SlaAssumption ==
  /\ None \notin Users \cup Nat
  /\ BatchSize \in Nat \ {0}
  /\ {Grace, ToLevel2, ToLevel3, MaxPresent, MaxTime, MaxFaults} \subseteq Nat
  /\ ToLevel2 <= ToLevel3

VARIABLES
  present,   \* the rows and tasks there are
  now,
  row,       \* queue_projections
  task,      \* workflow_tasks
  quiet,     \* tasks without activity for longer than the threshold
  records,   \* queue_escalations: <<row or task, level>>
  sweep,     \* where a sweep is, with what it read
  failed     \* items skipped and sweeps lost between an escalation and its record

vars == <<present, now, row, task, quiet, records, sweep, failed>>

Times == 0 .. (MaxTime + Grace)
RowRecord ==
  [active : BOOLEAN, sla : Times, breachedAt : Times \cup {None}, level : 0..3]
TaskRecord ==
  [status : {"pending", "claimed", "released", "completed", "escalated"},
   claimant : Users \cup {None}, escalated : BOOLEAN]
\* What a sweep keeps of a row: the breach it acts upon and the level due.
Items == [row : Rows, breachedAt : Times, to : 1..3]
Idle == [at |-> "idle"]
\* A sweep with what is left of its batch, and the item it is at.
Working ==
  [at : {"mark"}, todo : SUBSET Items]
    \cup [at : {"raise", "record"}, item : Items, todo : SUBSET Items]
    \cup [at : {"tasks"}, todo : SUBSET Tasks]
    \cup [at : {"recordTask"}, item : Tasks, todo : SUBSET Tasks]

Init ==
  /\ present \in SUBSET (Rows \cup Tasks)
  /\ Cardinality(present) \in 1..MaxPresent
  /\ now = 0
  /\ row = [r \in Rows |-> [active |-> r \in present, sla |-> Grace, breachedAt |-> None, level |-> 0]]
  /\ task = [t \in Tasks |-> [status |-> "pending", claimant |-> None, escalated |-> FALSE]]
  /\ quiet = {}
  /\ records = {}
  /\ sweep = [s \in Sweeps |-> Idle]
  /\ failed = 0

Tick ==
  /\ now < MaxTime
  /\ now' = now + 1
  /\ UNCHANGED <<present, row, task, quiet, records, sweep, failed>>

-----------------------------------------------------------------------------
(* The rows *)

\* An upsert makes the row active again, with a new service level or none of
\* its own; the level and the breach stay.
List(r) ==
  /\ \E sla \in {row[r].sla, now + Grace} :
       row' = [row EXCEPT ![r].active = TRUE, ![r].sla = sla]
  /\ UNCHANGED <<present, now, task, quiet, records, sweep, failed>>

Resolve(r) ==
  /\ row[r].active
  /\ row' = [row EXCEPT ![r].active = FALSE]
  /\ UNCHANGED <<present, now, task, quiet, records, sweep, failed>>

\* Fault: rows that are marked are not looked at again.
CandidatesUnmarked == {r \in Rows : row[r].active /\ row[r].sla < now /\ row[r].breachedAt = None}
\* Breached rows, those already at the level due among them.
Candidates == {r \in Rows : row[r].active /\ row[r].sla < now}

\* Any batch of a selection without order.
Batch(S) == {B \in SUBSET S : Cardinality(B) = BatchSize \/ (B = S /\ Cardinality(S) < BatchSize)}

Breach(r) == IF row[r].breachedAt = None THEN row[r].sla ELSE row[r].breachedAt

\* Fault: one level up, whatever the time.
LevelDueNext(r) == row[r].level + 1
LevelDue(r) ==
  IF now >= Breach(r) + ToLevel3 THEN 3
  ELSE IF now >= Breach(r) + ToLevel2 THEN 2
  ELSE 1

BeginEscalation(s) ==
  /\ sweep[s] = Idle
  /\ \E B \in Batch(Candidates) :
       /\ \E r \in B : LevelDue(r) > row[r].level
       /\ sweep' = [sweep EXCEPT ![s] =
            [at |-> "mark",
             todo |-> {[row |-> r, breachedAt |-> Breach(r), to |-> LevelDue(r)] :
                         r \in {q \in B : LevelDue(q) > row[q].level}}]]
  /\ UNCHANGED <<present, now, row, task, quiet, records, failed>>

Unmarked(r) == row[r].active /\ row[r].breachedAt = None

MarkBreached(s) ==
  /\ sweep[s].at = "mark"
  /\ \E i \in sweep[s].todo :
       /\ row' = IF Unmarked(i.row) THEN [row EXCEPT ![i.row].breachedAt = i.breachedAt] ELSE row
       /\ sweep' = [sweep EXCEPT ![s] = [at |-> "raise", item |-> i, todo |-> @.todo \ {i}]]
  /\ UNCHANGED <<present, now, task, quiet, records, failed>>

\* Fault: the level read is taken for the level of the row.
BelowUnchecked(r, level) == row[r].active
Below(r, level) == row[r].active /\ row[r].level < level

RaiseLevel(s) ==
  /\ sweep[s].at = "raise"
  /\ LET i == sweep[s].item IN
     row' = IF Below(i.row, i.to) THEN [row EXCEPT ![i.row].level = i.to] ELSE row
  /\ sweep' = [sweep EXCEPT ![s].at = "record"]
  /\ UNCHANGED <<present, now, task, quiet, records, failed>>

Continue(todo) == IF todo = {} THEN Idle ELSE [at |-> "mark", todo |-> todo]

\* Fault: one record per entity.
WithRecordOnce(x, level) ==
  IF \E l \in 1..3 : <<x, l>> \in records THEN records ELSE records \cup {<<x, level>>}
WithRecord(x, level) == records \cup {<<x, level>>}

\* The record is inserted whether the row was raised or not.
RecordLevel(s) ==
  /\ sweep[s].at = "record"
  /\ records' = WithRecord(sweep[s].item.row, sweep[s].item.to)
  /\ sweep' = [sweep EXCEPT ![s] = Continue(@.todo)]
  /\ UNCHANGED <<present, now, row, task, quiet, failed>>

-----------------------------------------------------------------------------
(* The tasks *)

GrowsQuiet(t) ==
  /\ t \notin quiet
  /\ quiet' = quiet \cup {t}
  /\ UNCHANGED <<present, now, row, task, records, sweep, failed>>

Claimable(t) == task[t].claimant = None /\ task[t].status \in {"pending", "released"}

Claim(u, t) ==
  /\ Claimable(t)
  /\ task' = [task EXCEPT ![t].status = "claimed", ![t].claimant = u]
  /\ quiet' = quiet \ {t}
  /\ UNCHANGED <<present, now, row, records, sweep, failed>>

\* Only by its claimant, and not once it is escalated.
Release(u, t) ==
  /\ task[t].status = "claimed" /\ task[t].claimant = u
  /\ task' = [task EXCEPT ![t].status = "released", ![t].claimant = None]
  /\ quiet' = quiet \ {t}
  /\ UNCHANGED <<present, now, row, records, sweep, failed>>

\* By anybody.
Complete(t) ==
  /\ task[t].status # "completed"
  /\ task' = [task EXCEPT ![t].status = "completed"]
  /\ quiet' = quiet \ {t}
  /\ UNCHANGED <<present, now, row, records, sweep, failed>>

Stale ==
  {t \in quiet : task[t].status \in {"pending", "claimed"} /\ ~task[t].escalated}

BeginStale(s) ==
  /\ sweep[s] = Idle
  /\ Stale # {}
  /\ \E B \in Batch(Stale) : sweep' = [sweep EXCEPT ![s] = [at |-> "tasks", todo |-> B]]
  /\ UNCHANGED <<present, now, row, task, quiet, records, failed>>

Escalable(t) == task[t].status # "completed"

EscalateTask(s) ==
  /\ sweep[s].at = "tasks"
  /\ \E t \in sweep[s].todo :
       /\ sweep' = [sweep EXCEPT ![s] = [at |-> "recordTask", item |-> t, todo |-> @.todo \ {t}]]
       /\ IF Escalable(t)
          THEN /\ task' = [task EXCEPT ![t].status = "escalated", ![t].escalated = TRUE]
               /\ quiet' = quiet \ {t}
          ELSE UNCHANGED <<task, quiet>>
  /\ UNCHANGED <<present, now, row, records, failed>>

ContinueTasks(todo) == IF todo = {} THEN Idle ELSE [at |-> "tasks", todo |-> todo]

RecordTask(s) ==
  /\ sweep[s].at = "recordTask"
  /\ records' = WithRecord(sweep[s].item, 1)
  /\ sweep' = [sweep EXCEPT ![s] = ContinueTasks(@.todo)]
  /\ UNCHANGED <<present, now, row, task, quiet, failed>>

-----------------------------------------------------------------------------
\* A statement fails, and the sweep goes on with the next item.
SkipItem(s) ==
  /\ sweep[s] # Idle
  /\ failed < MaxFaults
  /\ failed' = failed + 1
  /\ \/ /\ sweep[s].at = "mark"
        /\ \E i \in sweep[s].todo : sweep' = [sweep EXCEPT ![s] = Continue(@.todo \ {i})]
     \/ /\ sweep[s].at \in {"raise", "record"}
        /\ sweep' = [sweep EXCEPT ![s] = Continue(@.todo)]
     \/ /\ sweep[s].at = "tasks"
        /\ \E t \in sweep[s].todo : sweep' = [sweep EXCEPT ![s] = ContinueTasks(@.todo \ {t})]
     \/ /\ sweep[s].at = "recordTask"
        /\ sweep' = [sweep EXCEPT ![s] = ContinueTasks(@.todo)]
  /\ UNCHANGED <<present, now, row, task, quiet, records>>

\* The worker dies; the next sweep starts from a selection of its own.
SweepDies(s) ==
  /\ sweep[s] # Idle
  /\ failed < MaxFaults
  /\ failed' = failed + 1
  /\ sweep' = [sweep EXCEPT ![s] = Idle]
  /\ UNCHANGED <<present, now, row, task, quiet, records>>

-----------------------------------------------------------------------------
EscalateRows(s) == BeginEscalation(s) \/ MarkBreached(s) \/ RaiseLevel(s) \/ RecordLevel(s)
EscalateTasks(s) == BeginStale(s) \/ EscalateTask(s) \/ RecordTask(s)

Next ==
  \/ Tick
  \/ \E r \in present \cap Rows : List(r) \/ Resolve(r)
  \/ \E t \in present \cap Tasks : GrowsQuiet(t) \/ Complete(t)
  \/ \E t \in present \cap Tasks, u \in Users : Claim(u, t) \/ Release(u, t)
  \/ \E s \in Sweeps : EscalateRows(s) \/ EscalateTasks(s) \/ SkipItem(s) \/ SweepDies(s)

\* The schedules start every sweep again and again, and time passes.
Fairness ==
  /\ WF_vars(Tick)
  /\ \A s \in Sweeps : SF_vars(EscalateRows(s)) /\ SF_vars(EscalateTasks(s))

Spec == Init /\ [][Next]_vars
FairSpec == Spec /\ Fairness

-----------------------------------------------------------------------------
\* Every variable has its type.
TypeOK ==
  /\ present \subseteq Rows \cup Tasks
  /\ now \in 0..MaxTime
  /\ row \in [Rows -> RowRecord]
  /\ task \in [Tasks -> TaskRecord]
  /\ quiet \subseteq Tasks
  /\ records \subseteq (Rows \X (1..3)) \cup (Tasks \X {1})
  /\ sweep \in [Sweeps -> {Idle} \cup Working]
  /\ failed \in 0..MaxFaults

\* Every escalation is on record, or a sweep is about to insert it, but for one
\* per statement that failed and sweep that died (escalation-engine.ts:126-154,
\* 201-223).
AboutToRecord(x, level) ==
  \E s \in Sweeps :
    \/ /\ sweep[s].at = "record"
       /\ sweep[s].item.row = x /\ sweep[s].item.to = level
    \/ sweep[s].at = "recordTask" /\ sweep[s].item = x /\ level = 1
Unrecorded(x, level) == <<x, level>> \notin records /\ ~AboutToRecord(x, level)
EscalationsRecorded ==
  Cardinality({r \in Rows : row[r].level > 0 /\ Unrecorded(r, row[r].level)}
              \cup {t \in Tasks : task[t].escalated /\ Unrecorded(t, 1)}) <= failed

\* However sweeps that read different things overlap with one another and with
\* people: a level never falls, the moment of the breach stays the first one
\* (queue-projection.ts:223-259), a completed task stays completed, and nobody
\* takes over the task of another (escalation-engine.ts:204,
\* repositories/workflow-task.ts:177-178).
NothingTakenBack ==
  [][/\ \A r \in Rows :
          /\ row'[r].level >= row[r].level
          /\ row[r].breachedAt # None => row'[r].breachedAt = row[r].breachedAt
     /\ \A t \in Tasks :
          /\ task[t].status = "completed" => task'[t].status = "completed"
          /\ task[t].claimant # None => task'[t].claimant \in {task[t].claimant, None}]_vars

\* A row that stays listed past its service level is at the highest level in
\* the end, as long as a batch holds all the rows (escalation-engine.ts:45-47).
BreachEscalated ==
  \A r \in Rows :
    <>[](row[r].active /\ row[r].sla + ToLevel3 <= now) => <>[](row[r].level = 3)
=============================================================================
