-------------------------- MODULE DeadlineLifecycle --------------------------
(***************************************************************************)
(* A deadline from its creation to the work queues: the API service          *)
(* (apps/api/src/services/deadline.ts), the overdue sweep                   *)
(* (packages/workers/src/sla/overdue-sweep.ts), the consumers of the        *)
(* deadline events (consumers/deadline-events.ts) and the queue rows they   *)
(* maintain (projections/queue-projection.ts).                              *)
(*                                                                         *)
(* A request reads the deadline and checks its status before its            *)
(* transaction opens, and the transaction updates the row by id alone.  The  *)
(* sweep and the re-analysis of a case guard their update with the status.  *)
(* Every event type has a queue of its own, so events of one deadline are   *)
(* handled in any order, each at least once.                                *)
(***************************************************************************)
EXTENDS Naturals, Sequences, FiniteSets

CONSTANTS
  Deadlines,
  Rules,       \* those of origin 'rule', which a re-analysis dismisses
  Requests,    \* API requests in flight at once
  Sweeps,      \* executions of the overdue sweep at once
  BatchSize,   \* BATCH_SIZE of the sweep
  MaxFaults    \* bound: caught errors, crashes and repeated deliveries

ASSUME DeadlineAssumption ==
  /\ Rules \subseteq Deadlines
  /\ BatchSize \in Nat \ {0}
  /\ MaxFaults \in Nat

VARIABLES
  status,         \* deadlines.status, "none" before the insert
  due,            \* deadlines whose due_at has passed
  history,        \* deadline_history rows of a deadline, oldest first
  request,        \* per request: the status it read, and what it is to write
  sweep,          \* per sweep: the rows it selected and the one it projects
  pending,        \* events not yet handled for good
  half,           \* settled events with only the first queue row resolved
  workflowTasks,  \* queue_projections.status, queue type 'workflow_tasks'
  overdueQueue,   \* queue_projections.status, queue type 'overdue_deadlines'
  faults

record == <<status, history>>
queues == <<workflowTasks, overdueQueue>>
vars == <<record, due, request, sweep, pending, half, queues, faults>>

Terminal == {"completed", "dismissed"}
Statuses == {"open", "acknowledged", "overdue"} \cup Terminal
Targets == {"acknowledged"} \cup Terminal
EventKinds == Statuses \ {"open"}
AllEvents == [kind : EventKinds, deadline : Deadlines]
EntryStates == {"none", "active", "resolved"}

Idle == [at |-> "idle"]
Reading == [at : {"write"}, deadline : Deadlines, previous : Statuses, target : Targets]
NoWork == [todo |-> {}, projecting |-> {}]

Init ==
  /\ status = [d \in Deadlines |-> "none"]
  /\ due = {}
  /\ history = [d \in Deadlines |-> <<>>]
  /\ request = [r \in Requests |-> Idle]
  /\ sweep = [s \in Sweeps |-> NoWork]
  /\ pending = {}
  /\ half = {}
  /\ workflowTasks = [d \in Deadlines |-> "none"]
  /\ overdueQueue = [d \in Deadlines |-> "none"]
  /\ faults = 0

Fault == faults < MaxFaults /\ faults' = faults + 1

\* Fault: the event is named after the status the deadline leaves.
TransitionNamesOld(d, previous, next) ==
  /\ status' = [status EXCEPT ![d] = next]
  /\ history' = [history EXCEPT ![d] = Append(@, [previous |-> previous, next |-> next])]
  /\ pending' = pending \cup {[kind |-> previous, deadline |-> d]}
\* A transition, its history row and its event, written in one transaction.
Transition(d, previous, next) ==
  /\ status' = [status EXCEPT ![d] = next]
  /\ history' = [history EXCEPT ![d] = Append(@, [previous |-> previous, next |-> next])]
  /\ pending' = pending \cup {[kind |-> next, deadline |-> d]}

-----------------------------------------------------------------------------
(* The API service.                                                         *)

\* deadline.created carries no title, so its handler returns at once: no
\* queue row follows from a creation.
Create(d) ==
  /\ status[d] = "none"
  /\ status' = [status EXCEPT ![d] = "open"]
  /\ UNCHANGED <<history, due, request, sweep, pending, half, queues, faults>>

PassDue(d) ==
  /\ status[d] # "none"
  /\ d \notin due
  /\ due' = due \cup {d}
  /\ UNCHANGED <<record, request, sweep, pending, half, queues, faults>>

\* Fault: only acknowledging twice is refused.
AllowedFromTerminal(target, read) == target = "acknowledged" => read # target
\* isTerminalDeadlineState, and "already acknowledged" for acknowledgeDeadline.
Allowed(target, read) == read \notin Terminal /\ (target = "acknowledged" => read # target)

\* findDeadlineById and the checks; a dismissal comes with its reason code.
ReadDeadline(r, d, target) ==
  /\ request[r] = Idle
  /\ status[d] # "none"
  /\ Allowed(target, status[d])
  /\ request' = [request EXCEPT ![r] =
       [at |-> "write", deadline |-> d, previous |-> status[d], target |-> target]]
  /\ UNCHANGED <<record, due, sweep, pending, half, queues, faults>>

\* The transaction.  It commits whatever the status is by now.
WriteDeadline(r) ==
  /\ request[r] # Idle
  /\ LET q == request[r] IN Transition(q.deadline, q.previous, q.target)
  /\ request' = [request EXCEPT ![r] = Idle]
  /\ UNCHANGED <<due, sweep, half, queues, faults>>

\* The transaction rolls back, or the process dies before it.
AbandonRequest(r) ==
  /\ request[r] # Idle
  /\ request' = [request EXCEPT ![r] = Idle]
  /\ UNCHANGED <<record, due, sweep, pending, half, queues, faults>>

\* A new analysis of the case dismisses the open deadlines of the old one:
\* one guarded update, no history row and no event.
Supersede(d) ==
  /\ d \in Rules
  /\ status[d] = "open"
  /\ status' = [status EXCEPT ![d] = "dismissed"]
  /\ UNCHANGED <<history, due, request, sweep, pending, half, queues, faults>>

-----------------------------------------------------------------------------
(* The overdue sweep.                                                       *)

\* Fault: the comparison of due_at is turned round.
OverdueNotDue == {d \in Deadlines \ due : status[d] = "open"}
Overdue == {d \in due : status[d] = "open"}

\* The SELECT, with a LIMIT and no order.
BeginSweep(s) ==
  /\ sweep[s] = NoWork
  /\ Overdue # {}
  /\ \E batch \in SUBSET Overdue :
       /\ batch = Overdue \/ Cardinality(batch) = BatchSize
       /\ Cardinality(batch) <= BatchSize
       /\ sweep' = [sweep EXCEPT ![s] = [todo |-> batch, projecting |-> {}]]
  /\ UNCHANGED <<record, due, request, pending, half, queues, faults>>

\* Fault: the UPDATE selects by id alone.
SweepMatchesAny(d) == TRUE
SweepMatches(d) == status[d] = "open"

\* Fault: the history row and the event are written all the same.
SweepMissRecorded(d) ==
  /\ history' = [history EXCEPT ![d] = Append(@, [previous |-> "open", next |-> "overdue"])]
  /\ pending' = pending \cup {[kind |-> "overdue", deadline |-> d]}
  /\ UNCHANGED status
SweepMiss(d) == UNCHANGED <<record, pending>>

\* The transaction of transitionDeadlineToOverdue.  When its guarded UPDATE
\* matches no row it returns, but only from the transaction.
SweepTransition(s, d) ==
  /\ sweep[s].projecting = {}
  /\ d \in sweep[s].todo
  /\ sweep' = [sweep EXCEPT ![s] = [todo |-> @.todo \ {d}, projecting |-> {d}]]
  /\ IF SweepMatches(d)
     THEN Transition(d, "open", "overdue")
     ELSE SweepMiss(d)
  /\ UNCHANGED <<due, request, half, queues, faults>>

SweepProject(s, d) ==
  /\ d \in sweep[s].projecting
  /\ sweep' = [sweep EXCEPT ![s] = [todo |-> @.todo, projecting |-> {}]]
  /\ overdueQueue' = [overdueQueue EXCEPT ![d] = "active"]
  /\ UNCHANGED <<record, due, request, pending, half, workflowTasks, faults>>

\* An error on one row is logged and the loop goes on with the next.
SweepSkips(s, d) ==
  /\ Fault
  /\ \/ /\ sweep[s].projecting = {}
        /\ d \in sweep[s].todo
        /\ sweep' = [sweep EXCEPT ![s] = [todo |-> @.todo \ {d}, projecting |-> {}]]
     \/ /\ d \in sweep[s].projecting
        /\ sweep' = [sweep EXCEPT ![s] = [todo |-> @.todo, projecting |-> {}]]
  /\ UNCHANGED <<record, due, request, pending, half, queues>>

SweepDies(s) ==
  /\ sweep[s] # NoWork
  /\ Fault
  /\ sweep' = [sweep EXCEPT ![s] = NoWork]
  /\ UNCHANGED <<record, due, request, pending, half, queues>>

-----------------------------------------------------------------------------
(* The consumers.                                                           *)

\* The job completes, or its completion is lost and it is offered again.
JobDone(e) == \/ pending' = pending \ {e} /\ UNCHANGED faults
              \/ UNCHANGED pending /\ Fault

HandleAcknowledged(e) ==
  /\ e \in pending /\ e.kind = "acknowledged"
  /\ workflowTasks' = [workflowTasks EXCEPT ![e.deadline] = "active"]
  /\ JobDone(e)
  /\ UNCHANGED <<record, due, request, sweep, half, overdueQueue>>

\* Fault: the overdue row is left to the sweep.
ListOverdueLeft(d) == UNCHANGED overdueQueue
ListOverdue(d) == overdueQueue' = [overdueQueue EXCEPT ![d] = "active"]

HandleOverdue(e) ==
  /\ e \in pending /\ e.kind = "overdue"
  /\ ListOverdue(e.deadline)
  /\ JobDone(e)
  /\ UNCHANGED <<record, due, request, sweep, half, workflowTasks>>

\* UPDATE ... WHERE status != 'resolved': an entry that is there is resolved.
Resolved(entry) == IF entry = "none" THEN "none" ELSE "resolved"

\* handleDeadlineCompleted and handleDeadlineDismissed: two statements.
ResolveTasks(e) ==
  /\ e \in pending \ half /\ e.kind \in Terminal
  /\ workflowTasks' = [workflowTasks EXCEPT ![e.deadline] = Resolved(@)]
  /\ half' = half \cup {e}
  /\ UNCHANGED <<record, due, request, sweep, pending, overdueQueue, faults>>

ResolveOverdue(e) ==
  /\ e \in half
  /\ overdueQueue' = [overdueQueue EXCEPT ![e.deadline] = Resolved(@)]
  /\ half' = half \ {e}
  /\ JobDone(e)
  /\ UNCHANGED <<record, due, request, sweep, workflowTasks>>

\* The handler dies between the two; the job is offered again.
ConsumerDies(e) ==
  /\ e \in half
  /\ Fault
  /\ half' = half \ {e}
  /\ UNCHANGED <<record, due, request, sweep, pending, queues>>

-----------------------------------------------------------------------------
Handle(e) ==
  \/ HandleAcknowledged(e) \/ HandleOverdue(e) \/ ResolveTasks(e) \/ ResolveOverdue(e)

Sweep(s) ==
  \/ BeginSweep(s)
  \/ \E d \in Deadlines : SweepTransition(s, d) \/ SweepProject(s, d)

Next ==
  \/ \E d \in Deadlines : Create(d) \/ PassDue(d) \/ Supersede(d)
  \/ \E r \in Requests :
       \/ \E d \in Deadlines, target \in Targets : ReadDeadline(r, d, target)
       \/ WriteDeadline(r) \/ AbandonRequest(r)
  \/ \E s \in Sweeps :
       Sweep(s) \/ SweepDies(s) \/ \E d \in Deadlines : SweepSkips(s, d)
  \/ \E e \in AllEvents : Handle(e) \/ ConsumerDies(e)

\* The cron runs the sweep again and again, and a queued job is offered until
\* it completes.  Nobody has to send a request.
Fairness ==
  /\ \A s \in Sweeps : WF_vars(Sweep(s))
  /\ \A e \in AllEvents : WF_vars(Handle(e))

Spec == Init /\ [][Next]_vars
FairSpec == Spec /\ Fairness

-----------------------------------------------------------------------------
\* Every variable has its type.
TypeOK ==
  /\ status \in [Deadlines -> {"none"} \cup Statuses]
  /\ due \subseteq Deadlines
  /\ history \in [Deadlines -> Seq([previous : Statuses, next : EventKinds])]
  /\ request \in [Requests -> {Idle} \cup Reading]
  /\ sweep \in [Sweeps -> [todo : SUBSET Deadlines, projecting : SUBSET Deadlines]]
  /\ pending \subseteq AllEvents
  /\ half \subseteq {e \in pending : e.kind \in Terminal}
  /\ workflowTasks \in [Deadlines -> EntryStates]
  /\ overdueQueue \in [Deadlines -> EntryStates]
  /\ faults \in 0..MaxFaults

Trail(d) == 1..Len(history[d])
\* The status the history tells of.
Told(d) == IF history[d] = <<>> THEN "open" ELSE history[d][Len(history[d])].next

\* Whatever races, the last history row names the current status, save where a
\* re-analysis dismissed the deadline behind the history's back
\* (deadline.ts:12-13, case-analysis.ts:467-482).
HistoryTrail ==
  \A d \in Deadlines :
    \/ status[d] \in {"none", Told(d)}
    \/ d \in Rules /\ history[d] = <<>> /\ status[d] = "dismissed"

\* Each row starts from a status the deadline had before, and never from a
\* terminal one: the trail stays legal to read even where a stale request
\* overwrote a decision (deadline.ts:242-249, :328, :450).
LegalTrail ==
  \A d \in Deadlines : \A i \in Trail(d) :
    LET before == history[d][i].previous IN
      /\ before \notin Terminal
      /\ before = "open" \/ \E j \in 1..(i - 1) : history[d][j].next = before

\* However many sweeps select the same row, a deadline becomes overdue once,
\* and before anybody decided on it (overdue-sweep.ts:118-123).
OverdueFirst ==
  \A d \in Deadlines : \A i \in Trail(d) : history[d][i].next = "overdue" => i = 1

\* An open deadline whose date passed does not stay open: the cron finds it.
OverdueNoticed ==
  \A d \in Deadlines : (status[d] = "open" /\ d \in due) ~> (status[d] # "open")

\* An overdue deadline reaches the overdue queue, even when the sweep dies
\* between its transaction and its queue row (overdue-sweep.ts:165-167).
OverdueListed ==
  \A d \in Deadlines : (status[d] = "overdue") ~> (overdueQueue[d] # "none")
=============================================================================
