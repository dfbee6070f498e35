---------------------------- MODULE Opportunity ----------------------------
(***************************************************************************)
(* Opportunities of a case: suggested by people or by an analysis of the    *)
(* autos, reviewed by people (apps/api/src/services/opportunity.ts,         *)
(* case-analysis.ts), and put on the office's queues by the consumers of    *)
(* their events (packages/workers/src/consumers/opportunity-events.ts,      *)
(* projections/workflow-task.ts).                                           *)
(*                                                                         *)
(* A review reads the opportunity before its transaction, and the           *)
(* transaction writes the status by id alone.  Its event is named after the *)
(* review's action; opportunity.created and opportunity.qualified are the   *)
(* only ones that a queue exists for and whose handler does something with  *)
(* what the service sends.                                                  *)
(***************************************************************************)
EXTENDS Naturals

CONSTANTS
  Opportunities,  \* opportunities of one case
  Users,          \* reviewers with a request under way
  Handlers,       \* concurrent opportunity.created handlers
  MaxReviews,     \* bound: reviews begun
  MaxFaults       \* bound: crashed handlers and repeated deliveries

ASSUME OpportunityAssumption == MaxReviews \in Nat /\ MaxFaults \in Nat

VARIABLES
  class,       \* the queue the opportunity's type is routed to
  status,      \* opportunities.status, "none" before the insert
  trail,       \* <<previous, new, action>> of its rows in
               \* opportunity_status_history, each with its review
  announced,   \* made by the service, which emits opportunity.created
  created,     \* opportunity.created jobs waiting
  qualified,   \* opportunity.qualified jobs waiting
  row,         \* its row in its queue
  tasks,       \* review_opportunity tasks made for it
  notices,     \* notifications requested about it
  user,        \* a reviewer's request, with the status it read
  handler,     \* where an opportunity.created handler is
  reviews, crashes, duplicates

board == <<row, tasks, notices>>
jobs == <<created, qualified>>
opp == <<class, status, trail, announced>>
budget == <<reviews, crashes, duplicates>>
vars == <<opp, jobs, board, user, handler, budget>>

Classes == {"opportunity_review", "progression_opportunities"}
Statuses == {"suggested", "qualified", "pursuing", "realized", "dismissed"}
Terminal == {"realized", "dismissed"}
\* "deferred" stands for changes_requested and escalated as well.
Actions == {"qualified", "rejected", "pursuing_started", "realized", "deferred"}

Idle == [at |-> "idle"]
Reviewing == [at : {"review"}, opp : Opportunities, act : Actions, read : Statuses]
Handling == [at : {"look", "insert", "notify", "ack"}, opp : Opportunities]

Init ==
  /\ class \in [Opportunities -> Classes]
  /\ status = [o \in Opportunities |-> "none"]
  /\ trail = [o \in Opportunities |-> {}]
  /\ announced = {}
  /\ created = [o \in Opportunities |-> 0]
  /\ qualified = [o \in Opportunities |-> 0]
  /\ row = [o \in Opportunities |-> "absent"]
  /\ tasks = [o \in Opportunities |-> 0]
  /\ notices = [o \in Opportunities |-> 0]
  /\ user = [u \in Users |-> Idle]
  /\ handler = [h \in Handlers |-> Idle]
  /\ reviews = 0 /\ crashes = 0 /\ duplicates = 0

-----------------------------------------------------------------------------
\* The service inserts the opportunity, its first history row and its event.
Create(o) ==
  /\ status[o] = "none"
  /\ status' = [status EXCEPT ![o] = "suggested"]
  /\ trail' = [trail EXCEPT ![o] = {<<"suggested", "suggested", "created">>}]
  /\ announced' = announced \cup {o}
  /\ created' = [created EXCEPT ![o] = 1]
  /\ UNCHANGED <<class, qualified, board, user, handler, budget>>

\* An analysis inserts it with neither.
Detect(o) ==
  /\ status[o] = "none"
  /\ status' = [status EXCEPT ![o] = "suggested"]
  /\ UNCHANGED <<class, trail, announced, jobs, board, user, handler, budget>>

\* Each new analysis first dismisses what the previous ones suggested and
\* nobody has moved on, in one update, with neither history nor event.
Reanalyse ==
  /\ \E o \in Opportunities : status[o] = "suggested"
  /\ status' = [o \in Opportunities |->
                  IF status[o] = "suggested" THEN "dismissed" ELSE status[o]]
  /\ UNCHANGED <<class, trail, announced, jobs, board, user, handler, budget>>

\* What a review makes of the status it read; an action that does not fit the
\* status changes nothing, and is recorded all the same.
NewStatus(read, act) ==
  CASE act = "rejected" -> "dismissed"
    [] act = "qualified" /\ read = "suggested" -> "qualified"
    [] act = "pursuing_started" /\ read = "qualified" -> "pursuing"
    [] act = "realized" /\ read = "pursuing" -> "realized"
    [] OTHER -> read

\* A request reads the opportunity, which must not be settled.
Read(u, o) ==
  /\ user[u] = Idle
  /\ reviews < MaxReviews
  /\ status[o] \notin Terminal \cup {"none"}
  /\ reviews' = reviews + 1
  /\ \E act \in Actions :
       user' = [user EXCEPT ![u] =
                  [at |-> "review", opp |-> o, act |-> act, read |-> status[o]]]
  /\ UNCHANGED <<opp, jobs, board, handler, crashes, duplicates>>

\* Fault: pursuing starts from any status.
RowForAnyStatus(read, act) ==
  <<read, IF act = "pursuing_started" THEN "pursuing" ELSE NewStatus(read, act), act>>
\* Fault: an action that does not fit leaves no status.
RowWithoutStatus(read, act) ==
  <<read, IF NewStatus(read, act) = read THEN "null" ELSE NewStatus(read, act), act>>
\* The history row of a review; its new status is the one written.
HistoryRow(read, act) == <<read, NewStatus(read, act), act>>

\* The event is named after the action, whatever became of the status.
Qualifies(act) == act = "qualified"

\* Review, history, status and event in one transaction.
Review(u) ==
  /\ user[u].at = "review"
  /\ LET o == user[u].opp
         history == HistoryRow(user[u].read, user[u].act)
     IN
     /\ trail' = [trail EXCEPT ![o] = @ \cup {history}]
     /\ status' = [status EXCEPT ![o] = history[2]]
     /\ qualified' = IF Qualifies(user[u].act) THEN [qualified EXCEPT ![o] = @ + 1]
                     ELSE qualified
  /\ user' = [user EXCEPT ![u] = Idle]
  /\ UNCHANGED <<class, announced, created, board, handler, budget>>

-----------------------------------------------------------------------------
Step(h, at) == [handler EXCEPT ![h].at = at]

\* opportunity.created: the row is put on its queue, active, whatever it was.
HandleCreated(h, o) ==
  /\ handler[h] = Idle
  /\ created[o] > 0
  /\ created' = [created EXCEPT ![o] = @ - 1]
  /\ row' = [row EXCEPT ![o] = "active"]
  /\ handler' = [handler EXCEPT ![h] =
                   [at |-> IF class[o] = "opportunity_review" THEN "look" ELSE "notify",
                    opp |-> o]]
  /\ UNCHANGED <<opp, qualified, tasks, notices, user, budget>>

\* Fault: an event whose task exists is taken to be handled.
AfterLookDone(found) == IF found THEN "ack" ELSE "insert"
AfterLook(found) == IF found THEN "notify" ELSE "insert"

\* Fault: the task is inserted without a look.
TaskFoundNever(o) == FALSE
TaskFound(o) == tasks[o] > 0

\* Is there a task for this event?
TaskExistsForEvent(h) ==
  /\ handler[h].at = "look"
  /\ handler' = Step(h, AfterLook(TaskFound(handler[h].opp)))
  /\ UNCHANGED <<opp, jobs, board, user, budget>>

CreateReviewTask(h) ==
  /\ handler[h].at = "insert"
  /\ tasks' = [tasks EXCEPT ![handler[h].opp] = @ + 1]
  /\ handler' = Step(h, "notify")
  /\ UNCHANGED <<opp, jobs, row, notices, user, budget>>

RequestNotification(h) ==
  /\ handler[h].at = "notify"
  /\ notices' = [notices EXCEPT ![handler[h].opp] = @ + 1]
  /\ handler' = Step(h, "ack")
  /\ UNCHANGED <<opp, jobs, row, tasks, user, budget>>

\* The job is done with.
Acknowledge(h) ==
  /\ handler[h].at = "ack"
  /\ handler' = [handler EXCEPT ![h] = Idle]
  /\ UNCHANGED <<opp, jobs, board, user, budget>>

\* opportunity.qualified: the row is taken off its queue.
HandleQualified(o) ==
  /\ qualified[o] > 0
  /\ qualified' = [qualified EXCEPT ![o] = @ - 1]
  /\ row' = [row EXCEPT ![o] = IF @ = "active" THEN "resolved" ELSE @]
  /\ UNCHANGED <<opp, created, tasks, notices, user, handler, budget>>

\* The worker dies before the job is done with: pg-boss offers it again.
Crash(h) ==
  /\ handler[h] # Idle
  /\ crashes + duplicates < MaxFaults
  /\ crashes' = crashes + 1
  /\ created' = [created EXCEPT ![handler[h].opp] = @ + 1]
  /\ handler' = [handler EXCEPT ![h] = Idle]
  /\ UNCHANGED <<opp, qualified, board, user, reviews, duplicates>>

\* The event is delivered once more, at any later time.
Redeliver(o) ==
  /\ o \in announced
  /\ crashes + duplicates < MaxFaults
  /\ duplicates' = duplicates + 1
  /\ created' = [created EXCEPT ![o] = @ + 1]
  /\ UNCHANGED <<opp, qualified, board, user, handler, reviews, crashes>>

-----------------------------------------------------------------------------
Handle(h) ==
  \/ \E o \in Opportunities : HandleCreated(h, o)
  \/ TaskExistsForEvent(h) \/ CreateReviewTask(h) \/ RequestNotification(h) \/ Acknowledge(h)

Next ==
  \/ \E o \in Opportunities : Create(o) \/ Detect(o) \/ HandleQualified(o) \/ Redeliver(o)
  \/ Reanalyse
  \/ \E u \in Users : Review(u) \/ \E o \in Opportunities : Read(u, o)
  \/ \E h \in Handlers : Handle(h) \/ Crash(h)

\* Jobs are delivered; what people do is up to them.
Fairness ==
  /\ \A o \in Opportunities : WF_vars(HandleQualified(o))
  /\ \A h \in Handlers : WF_vars(Handle(h))

Spec == Init /\ [][Next]_vars
FairSpec == Spec /\ Fairness

-----------------------------------------------------------------------------
\* Every variable has its type.
TypeOK ==
  /\ class \in [Opportunities -> Classes]
  /\ status \in [Opportunities -> Statuses \cup {"none"}]
  /\ trail \in [Opportunities -> SUBSET (Statuses \X Statuses \X (Actions \cup {"created"}))]
  /\ announced \subseteq Opportunities
  /\ created \in [Opportunities -> Nat]
  /\ qualified \in [Opportunities -> Nat]
  /\ row \in [Opportunities -> {"absent", "active", "resolved"}]
  /\ tasks \in [Opportunities -> Nat]
  /\ notices \in [Opportunities -> Nat]
  /\ user \in [Users -> {Idle} \cup Reviewing]
  /\ handler \in [Handlers -> {Idle} \cup Handling]
  /\ reviews \in Nat /\ crashes \in Nat /\ duplicates \in Nat
  /\ crashes + duplicates <= MaxFaults

\* Human gate (services/opportunity.ts:8-11): an opportunity is where it is by
\* recorded reviews, each from the status the one before recorded, however
\* stale the status a review read and whoever wrote over it since.
Recorded(o, from, to) == \E act \in Actions : <<from, to, act>> \in trail[o]
HumanGate ==
  \A o \in Opportunities :
    /\ status[o] \in {"qualified", "pursuing", "realized"} =>
         Recorded(o, "suggested", "qualified")
    /\ status[o] \in {"pursuing", "realized"} => Recorded(o, "qualified", "pursuing")
    /\ status[o] = "realized" => Recorded(o, "pursuing", "realized")

\* An opportunity gets one review task, and one more per repeated delivery of
\* its event at most: a handler that died after the insert costs none, since
\* the next one looks for the task first (workflow-task.ts:129-145).
TasksAccounted == \A o \in Opportunities : tasks[o] <= 1 + duplicates

\* What the service creates gets its queue, its task and its notification,
\* whatever crashes on the way.
CreatedServed ==
  \A o \in Opportunities :
    (o \in announced) ~> /\ row[o] # "absent"
                         /\ notices[o] > 0
                         /\ class[o] = "opportunity_review" => tasks[o] > 0

\* The documented contract, which the code does not keep: an opportunity that
\* a review dismissed or realized is taken off its queue by the consumers of
\* opportunity.dismissed and opportunity.reviewed
\* (consumers/opportunity-events.ts:7-9, :184-185, :250-251).
SettledByReview(o) == status[o] \in Terminal /\ \E t \in trail[o] : t[2] = status[o]
SettledLeaves == \A o \in Opportunities : SettledByReview(o) ~> (row[o] # "active")
=============================================================================
