--------------------------- MODULE Recalculation ---------------------------
(***************************************************************************)
(* When a fact changes, the engine's results that depend on it go stale and *)
(* the cases they belong to are recalculated: the consumers of the changes  *)
(* and of engine.evaluation.requested                                       *)
(* (packages/workers/src/consumers/engine-events.ts), with                  *)
(* packages/engine/src/snapshots/staleness.ts and                           *)
(* packages/engine/src/propagation/recalculation.ts.                        *)
(*                                                                         *)
(* None of the consumers works in a transaction, but for the one that puts  *)
(* a recalculation and its event in together.  The evaluation itself is     *)
(* switched off in the source: a run is started and then skipped.           *)
(***************************************************************************)
EXTENDS Naturals, Sequences, FiniteSets

CONSTANTS
  Facts,       \* snapshots, timeline events and documents that change once
  Cases,       \* execution cases
  Home,        \* Home[f]: the case the fact belongs to
  Handlers,    \* concurrent handlers of the changes
  Evaluators,  \* concurrent handlers of engine.evaluation.requested
  MaxFaults    \* bound: crashed handlers and repeated deliveries

ASSUME RecalculationAssumption ==
  /\ Home \in [Facts -> Cases]
  /\ MaxFaults \in Nat

VARIABLES
  kind,        \* what the fact is
  dependents,  \* snapshot_dependencies: cases whose last result used the fact
  stale,       \* <<fact, case>> of the dependencies marked stale
  jobs,        \* deliveries of the change waiting
  runs,        \* recalculation_runs in the order of their insertion, each with
               \* the deliveries of its engine.evaluation.requested waiting
  handler,     \* where a handler of a change is: dependencies to mark, cases
               \* to schedule
  evaluator,   \* where an evaluator is, and of which run
  changed, duplicates, crashes, lost   \* lost: crashes of evaluators

facts == <<kind, dependents>>
faults == <<duplicates, crashes, lost>>
vars == <<facts, stale, jobs, runs, handler, evaluator, changed, faults>>

Kinds == {"snapshot", "timeline_event", "document"}
Idle == [at |-> "idle"]
\* At "schedule", the case that a look found without a run is in mark.
Working ==
  [at : {"invalidate", "look", "schedule"}, fact : Facts, mark : SUBSET Cases,
   todo : SUBSET Cases]
RunRecord ==
  [fact : Facts, case : Cases, status : {"scheduled", "running", "skipped"}, events : Nat]

Init ==
  /\ kind \in [Facts -> Kinds]
  /\ dependents \in [Facts -> SUBSET Cases]
  /\ \A f \in Facts : kind[f] = "timeline_event" => dependents[f] \subseteq {Home[f]}
  /\ stale = {}
  /\ jobs = [f \in Facts |-> 0]
  /\ runs = <<>>
  /\ handler = [h \in Handlers |-> Idle]
  /\ evaluator = [e \in Evaluators |-> Idle]
  /\ changed = {}
  /\ duplicates = 0 /\ crashes = 0 /\ lost = 0

FaultsLeft == duplicates + crashes + lost < MaxFaults

-----------------------------------------------------------------------------
\* A snapshot is confirmed or superseded, an event of a triggering type is
\* appended, a document of a significant class is associated.
Change(f) ==
  /\ f \notin changed
  /\ changed' = changed \cup {f}
  /\ jobs' = [jobs EXCEPT ![f] = @ + 1]
  /\ UNCHANGED <<facts, stale, runs, handler, evaluator, faults>>

Affected(f) == {c \in dependents[f] : <<f, c>> \notin stale}

\* Where a handler goes with dependencies to mark and cases to schedule.
Continue(f, mark, todo) ==
  IF mark # {} THEN [at |-> "invalidate", fact |-> f, mark |-> mark, todo |-> todo]
  ELSE IF todo # {} THEN [at |-> "look", fact |-> f, mark |-> {}, todo |-> todo]
  ELSE Idle

\* Fault: the affected cases are looked for once they are marked.
CasesToScheduleLate(f, affected) == {Home[f]}
\* The cases to schedule: the fact's own is one, whether it depends or not.
CasesToSchedule(f, affected) == affected \cup {Home[f]}

\* A handler takes the job and reads the dependencies not stale yet.
TakeChange(h, f) ==
  /\ handler[h] = Idle
  /\ jobs[f] > 0
  /\ jobs' = [jobs EXCEPT ![f] = @ - 1]
  /\ handler' = [handler EXCEPT ![h] =
                   Continue(f, Affected(f), CasesToSchedule(f, Affected(f)))]
  /\ UNCHANGED <<facts, stale, runs, evaluator, changed, faults>>

\* Each dependency is marked by an update of its own.
InvalidateDependency(h) ==
  /\ handler[h].at = "invalidate"
  /\ \E c \in handler[h].mark :
       /\ stale' = stale \cup {<<handler[h].fact, c>>}
       /\ handler' = [handler EXCEPT ![h] =
                        Continue(@.fact, @.mark \ {c}, @.todo)]
  /\ UNCHANGED <<facts, jobs, runs, evaluator, changed, faults>>

\* Fault: the look does not ask for the case.
ScheduledForAny(f, c) ==
  \E i \in DOMAIN runs : runs[i].fact = f /\ runs[i].status = "scheduled"
Scheduled(f, c) ==
  \E i \in DOMAIN runs : runs[i].fact = f /\ runs[i].case = c /\ runs[i].status = "scheduled"

\* Is a run of this change scheduled for the case?  A document's handler does
\* not ask.
LookForScheduled(h) ==
  /\ handler[h].at = "look"
  /\ LET f == handler[h].fact IN
     \E c \in handler[h].todo :
       handler' = [handler EXCEPT ![h] =
         IF kind[f] # "document" /\ Scheduled(f, c) THEN Continue(f, {}, @.todo \ {c})
         ELSE [at |-> "schedule", fact |-> f, mark |-> {c}, todo |-> @.todo \ {c}]]
  /\ UNCHANGED <<facts, stale, jobs, runs, evaluator, changed, faults>>

\* The run and its engine.evaluation.requested, in one transaction.
ScheduleRecalculation(h) ==
  /\ handler[h].at = "schedule"
  /\ \E c \in handler[h].mark :
       runs' = Append(runs, [fact |-> handler[h].fact, case |-> c,
                             status |-> "scheduled", events |-> 1])
  /\ handler' = [handler EXCEPT ![h] = Continue(@.fact, {}, @.todo)]
  /\ UNCHANGED <<facts, stale, jobs, evaluator, changed, faults>>

-----------------------------------------------------------------------------
\* Runs that are running, or over, are left alone.
ToEvaluate(status) == status = "scheduled"

\* A delivery of engine.evaluation.requested reads its run.
TakeRun(e, i) ==
  /\ evaluator[e] = Idle
  /\ runs[i].events > 0
  /\ runs' = [runs EXCEPT ![i].events = @ - 1]
  /\ evaluator' = [evaluator EXCEPT ![e] =
                     IF ToEvaluate(runs[i].status) THEN [at |-> "start", run |-> i] ELSE Idle]
  /\ UNCHANGED <<facts, stale, jobs, handler, changed, faults>>

\* Fault: with the evaluation switched off there is nothing left to do.
AfterStartNothing(i) == Idle
AfterStart(i) == [at |-> "complete", run |-> i]

\* The run is started by its id alone.
StartRecalculation(e) ==
  /\ evaluator[e].at = "start"
  /\ runs' = [runs EXCEPT ![evaluator[e].run].status = "running"]
  /\ evaluator' = [evaluator EXCEPT ![e] = AfterStart(evaluator[e].run)]
  /\ UNCHANGED <<facts, stale, jobs, handler, changed, faults>>

\* Fault: a status of another table.
CompletedStatusDone == "done"
\* No material change, since nothing was evaluated.
CompletedStatus == "skipped"

\* It is completed by its id alone.
CompleteRecalculation(e) ==
  /\ evaluator[e].at = "complete"
  /\ runs' = [runs EXCEPT ![evaluator[e].run].status = CompletedStatus]
  /\ evaluator' = [evaluator EXCEPT ![e] = Idle]
  /\ UNCHANGED <<facts, stale, jobs, handler, changed, faults>>

-----------------------------------------------------------------------------
\* A worker dies on its way; its job is offered again.
CrashHandler(h) ==
  /\ handler[h] # Idle
  /\ FaultsLeft
  /\ crashes' = crashes + 1
  /\ jobs' = [jobs EXCEPT ![handler[h].fact] = @ + 1]
  /\ handler' = [handler EXCEPT ![h] = Idle]
  /\ UNCHANGED <<facts, stale, runs, evaluator, changed, duplicates, lost>>

CrashEvaluator(e) ==
  /\ evaluator[e] # Idle
  /\ FaultsLeft
  /\ lost' = lost + 1
  /\ runs' = [runs EXCEPT ![evaluator[e].run].events = @ + 1]
  /\ evaluator' = [evaluator EXCEPT ![e] = Idle]
  /\ UNCHANGED <<facts, stale, jobs, handler, changed, duplicates, crashes>>

\* A change, or an evaluation, is delivered once more.
Redeliver ==
  /\ FaultsLeft
  /\ duplicates' = duplicates + 1
  /\ \/ /\ \E f \in changed : jobs' = [jobs EXCEPT ![f] = @ + 1]
        /\ UNCHANGED runs
     \/ /\ \E i \in DOMAIN runs : runs' = [runs EXCEPT ![i].events = @ + 1]
        /\ UNCHANGED jobs
  /\ UNCHANGED <<facts, stale, handler, evaluator, changed, crashes, lost>>

-----------------------------------------------------------------------------
HandleChange(h) ==
  \/ \E f \in Facts : TakeChange(h, f)
  \/ InvalidateDependency(h) \/ LookForScheduled(h) \/ ScheduleRecalculation(h)

Evaluate(e) ==
  \/ \E i \in DOMAIN runs : TakeRun(e, i)
  \/ StartRecalculation(e) \/ CompleteRecalculation(e)

Next ==
  \/ \E f \in Facts : Change(f)
  \/ \E h \in Handlers : HandleChange(h) \/ CrashHandler(h)
  \/ \E e \in Evaluators : Evaluate(e) \/ CrashEvaluator(e)
  \/ Redeliver

\* Jobs are delivered, and a handler that lives comes to its end.
Fairness ==
  /\ \A h \in Handlers : WF_vars(HandleChange(h))
  /\ \A e \in Evaluators : WF_vars(Evaluate(e))

Spec == Init /\ [][Next]_vars
FairSpec == Spec /\ Fairness

-----------------------------------------------------------------------------
\* Every variable has its type.
TypeOK ==
  /\ kind \in [Facts -> Kinds]
  /\ dependents \in [Facts -> SUBSET Cases]
  /\ stale \subseteq Facts \X Cases
  /\ jobs \in [Facts -> Nat]
  /\ runs \in Seq(RunRecord)
  /\ handler \in [Handlers -> {Idle} \cup Working]
  /\ evaluator \in [Evaluators -> {Idle} \cup [at : {"start", "complete"}, run : DOMAIN runs]]
  /\ changed \subseteq Facts
  /\ duplicates \in Nat /\ crashes \in Nat /\ lost \in Nat
  /\ duplicates + crashes + lost <= MaxFaults

\* A dependency is only marked stale once, and a retry no longer sees it: as
\* long as no handler died on its way, its case was scheduled or a handler is
\* about to (snapshots/staleness.ts:57-85, engine-events.ts:118-158).
HasRun(f, c) == \E i \in DOMAIN runs : runs[i].fact = f /\ runs[i].case = c
Carried(f, c) ==
  \E h \in Handlers :
    /\ handler[h] # Idle
    /\ handler[h].fact = f
    /\ c \in handler[h].todo \/ (handler[h].at = "schedule" /\ c \in handler[h].mark)
StaleIsScheduled ==
  crashes = 0 => \A f \in Facts, c \in Cases : <<f, c>> \in stale => HasRun(f, c) \/ Carried(f, c)

\* A run that is being evaluated has its evaluator, but for one per evaluator
\* that died: nothing takes a running run up again (engine-events.ts:505-510).
Abandoned ==
  {i \in DOMAIN runs :
     /\ runs[i].status = "running"
     /\ \A e \in Evaluators : evaluator[e] # Idle => evaluator[e].run # i}
OneAbandonedPerCrash == Cardinality(Abandoned) <= lost

\* A change is followed by a run of the case it belongs to, and by a run of
\* each dependent case unless a handler dies on the way.
ChangeIsRecalculated ==
  \A f \in Facts : \A c \in Cases :
    (f \in changed /\ (c = Home[f] \/ c \in dependents[f]))
      ~> (\/ \E i \in DOMAIN runs : runs[i].fact = f /\ runs[i].case = c
                                    /\ (runs[i].status = "skipped" \/ lost > 0)
          \/ c # Home[f] /\ crashes > 0)
=============================================================================
