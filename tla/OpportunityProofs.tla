-------------------------- MODULE OpportunityProofs --------------------------
(***************************************************************************)
(* Machine-checked facts about Opportunity, for any opportunities,          *)
(* reviewers, handlers and bounds: its types, the human gate, and the       *)
(* number of review tasks that one event can make.                          *)
(***************************************************************************)
EXTENDS Opportunity, FiniteSetTheorems, TLAPS

\* The history explains how the opportunity may be in status s.
Backed(o, s) ==
  /\ s \in {"qualified", "pursuing", "realized"} => Recorded(o, "suggested", "qualified")
  /\ s \in {"pursuing", "realized"} => Recorded(o, "qualified", "pursuing")
  /\ s = "realized" => Recorded(o, "pursuing", "realized")

\* What a reviewer read, however stale, is explained as well.
ReadBacked == \A u \in Users : user[u].at = "review" => Backed(user[u].opp, user[u].read)

\* Only what is there has a history.
NoneUntouched == \A o \in Opportunities : status[o] = "none" => trail[o] = {}

GateInv == HumanGate /\ ReadBacked /\ NoneUntouched

\* The handlers at work on an opportunity's event, and those about to insert.
At(o) == {h \in Handlers : handler[h] # Idle /\ handler[h].opp = o}
Inserting(o) == {h \in At(o) : handler[h].at = "insert"}

\* Jobs and handlers of one opportunity are one, and one more per repeated
\* delivery; a handler inserts only if it found no task.
OppTasks(o) ==
  /\ IsFiniteSet(At(o))
  /\ o \notin announced => created[o] = 0 /\ At(o) = {}
  /\ o \in announced => status[o] # "none"
  /\ created[o] + Cardinality(At(o)) <= 1 + duplicates
  /\ tasks[o] + Cardinality(Inserting(o)) <= 1 + duplicates
TaskInv == \A o \in Opportunities : OppTasks(o)

-----------------------------------------------------------------------------
(* Types *)

\* What TypeOK says of a reviewer and of a handler at work.
LEMMA UserShape ==
  ASSUME TypeOK, NEW u \in Users, user[u].at = "review"
  PROVE  /\ user[u] \in Reviewing
         /\ user[u].opp \in Opportunities
         /\ user[u].act \in Actions
         /\ user[u].read \in Statuses
  BY DEF TypeOK, Reviewing, Idle

\* What TypeOK says of a handler at work.
LEMMA HandlerShape ==
  ASSUME TypeOK, NEW h \in Handlers, handler[h] # Idle
  PROVE  handler[h] \in Handling /\ handler[h].opp \in Opportunities
  BY DEF TypeOK, Handling

\* A handler at work may go to any of its steps.
LEMMA StepShape ==
  ASSUME TypeOK, NEW h \in Handlers, handler[h] # Idle,
         NEW p \in {"look", "insert", "notify", "ack"}
  PROVE  Step(h, p) \in [Handlers -> {Idle} \cup Handling]
  <1>1. [handler[h] EXCEPT !.at = p] \in Handling
    BY HandlerShape DEF Handling
  <1> QED
    BY <1>1 DEF Step, TypeOK

\* A review leaves one of the statuses.
LEMMA NewStatusShape ==
  ASSUME NEW read \in Statuses, NEW act \in Actions
  PROVE  NewStatus(read, act) \in Statuses
  BY DEF NewStatus, Statuses, Actions

\* Initially.
LEMMA InitType == Init => TypeOK
  BY OpportunityAssumption DEF Init, TypeOK, Classes, Idle

\* The actions that put an opportunity there, or dismiss it in bulk.
LEMMA SourcesType ==
  ASSUME TypeOK, \/ \E o \in Opportunities : Create(o) \/ Detect(o)
                 \/ Reanalyse
  PROVE  TypeOK'
  <1> USE DEF TypeOK, board, jobs, opp, budget
  <1>1. ASSUME NEW o \in Opportunities, Create(o)
        PROVE  TypeOK'
    <2>1. {<<"suggested", "suggested", "created">>}
            \in SUBSET (Statuses \X Statuses \X (Actions \cup {"created"}))
      BY DEF Statuses
    <2> QED
      BY <1>1, <2>1 DEF Create, Statuses
  <1>2. ASSUME NEW o \in Opportunities, Detect(o)
        PROVE  TypeOK'
    BY <1>2 DEF Detect, Statuses
  <1>3. CASE Reanalyse
    BY <1>3 DEF Reanalyse, Statuses
  <1> QED
    BY <1>1, <1>2, <1>3

\* The reviewers.
LEMMA ReviewersType ==
  ASSUME TypeOK, NEW u \in Users, Review(u) \/ \E o \in Opportunities : Read(u, o)
  PROVE  TypeOK'
  <1>1. CASE Review(u)
    <2> USE DEF board, jobs, opp, budget
    <2>1. user[u].at = "review"
      BY <1>1 DEF Review
    <2>2. /\ user[u].opp \in Opportunities
          /\ NewStatus(user[u].read, user[u].act) \in Statuses
          /\ HistoryRow(user[u].read, user[u].act)
               \in Statuses \X Statuses \X (Actions \cup {"created"})
      BY <2>1, UserShape, NewStatusShape DEF HistoryRow
    <2>3. status' \in [Opportunities -> Statuses \cup {"none"}]
      BY <1>1, <2>2 DEF Review, TypeOK, HistoryRow
    <2>4. trail' \in [Opportunities -> SUBSET (Statuses \X Statuses \X (Actions \cup {"created"}))]
      BY <1>1, <2>2 DEF Review, TypeOK
    <2>5. qualified' \in [Opportunities -> Nat] /\ user' \in [Users -> {Idle} \cup Reviewing]
      BY <1>1, <2>2 DEF Review, TypeOK
    <2> QED
      BY <1>1, <2>3, <2>4, <2>5 DEF Review, TypeOK
  <1>2. ASSUME NEW o \in Opportunities, Read(u, o)
        PROVE  TypeOK'
    <2>1. PICK act \in Actions :
            user' = [user EXCEPT ![u] =
                       [at |-> "review", opp |-> o, act |-> act, read |-> status[o]]]
      BY <1>2 DEF Read
    <2>2. status[o] \in Statuses
      BY <1>2 DEF Read, TypeOK
    <2>3. [at |-> "review", opp |-> o, act |-> act, read |-> status[o]] \in Reviewing
      BY <2>2 DEF Reviewing
    <2>4. user' \in [Users -> {Idle} \cup Reviewing]
      BY <2>1, <2>3 DEF TypeOK
    <2> QED
      BY <1>2, <2>4 DEF Read, TypeOK, board, jobs, opp
  <1> QED
    BY <1>1, <1>2

\* The handlers of opportunity.created, and their crashes.
LEMMA HandlersType ==
  ASSUME TypeOK, NEW h \in Handlers, Handle(h) \/ Crash(h)
  PROVE  TypeOK'
  <1> USE DEF board, jobs, opp, budget
  <1>1. ASSUME NEW o \in Opportunities, HandleCreated(h, o)
        PROVE  TypeOK'
    <2>1. [at |-> IF class[o] = "opportunity_review" THEN "look" ELSE "notify", opp |-> o]
            \in Handling
      BY DEF Handling
    <2>2. created' \in [Opportunities -> Nat]
      BY <1>1 DEF HandleCreated, TypeOK
    <2> QED
      BY <1>1, <2>1, <2>2 DEF HandleCreated, TypeOK
  <1>2. CASE TaskExistsForEvent(h)
    <2>1. AfterLook(TaskFound(handler[h].opp)) \in {"look", "insert", "notify", "ack"}
      BY DEF AfterLook
    <2>2. handler' \in [Handlers -> {Idle} \cup Handling]
      BY <1>2, <2>1, StepShape DEF TaskExistsForEvent, Idle
    <2> QED
      BY <1>2, <2>2 DEF TaskExistsForEvent, TypeOK
  <1>3. CASE CreateReviewTask(h)
    <2>1. handler' \in [Handlers -> {Idle} \cup Handling]
      BY <1>3, StepShape DEF CreateReviewTask, Idle
    <2>2. handler[h].opp \in Opportunities
      BY <1>3, HandlerShape DEF CreateReviewTask, Idle
    <2>3. tasks' \in [Opportunities -> Nat]
      BY <1>3, <2>2 DEF CreateReviewTask, TypeOK
    <2> QED
      BY <1>3, <2>1, <2>3 DEF CreateReviewTask, TypeOK
  <1>4. CASE RequestNotification(h)
    <2>1. handler' \in [Handlers -> {Idle} \cup Handling]
      BY <1>4, StepShape DEF RequestNotification, Idle
    <2>2. handler[h].opp \in Opportunities
      BY <1>4, HandlerShape DEF RequestNotification, Idle
    <2>3. notices' \in [Opportunities -> Nat]
      BY <1>4, <2>2 DEF RequestNotification, TypeOK
    <2> QED
      BY <1>4, <2>1, <2>3 DEF RequestNotification, TypeOK
  <1>5. CASE Acknowledge(h)
    BY <1>5 DEF Acknowledge, TypeOK
  <1>6. CASE Crash(h)
    <2>1. handler[h].opp \in Opportunities
      BY <1>6, HandlerShape DEF Crash
    <2>2. created' \in [Opportunities -> Nat]
      BY <1>6, <2>1 DEF Crash, TypeOK
    <2>3. crashes' \in Nat /\ crashes' + duplicates <= MaxFaults
      BY <1>6, OpportunityAssumption DEF Crash, TypeOK
    <2> QED
      BY <1>6, <2>2, <2>3 DEF Crash, TypeOK
  <1> QED
    BY <1>1, <1>2, <1>3, <1>4, <1>5, <1>6 DEF Handle

\* Every step keeps the types.
LEMMA NextType == TypeOK /\ [Next]_vars => TypeOK'
  <1> SUFFICES ASSUME TypeOK, [Next]_vars PROVE TypeOK'
    OBVIOUS
  <1>1. ASSUME NEW o \in Opportunities, HandleQualified(o)
        PROVE  TypeOK'
    BY <1>1 DEF HandleQualified, TypeOK, opp, budget
  <1>2. ASSUME NEW o \in Opportunities, Redeliver(o)
        PROVE  TypeOK'
    BY <1>2, OpportunityAssumption DEF Redeliver, TypeOK, opp, board
  <1>3. CASE UNCHANGED vars
    BY <1>3 DEF vars, opp, jobs, board, budget, TypeOK
  <1> QED
    BY <1>1, <1>2, <1>3, SourcesType, ReviewersType, HandlersType DEF Next

\* Every variable has its type in every reachable state.
THEOREM TypeCorrect == Spec => []TypeOK
  BY InitType, NextType, PTL DEF Spec

-----------------------------------------------------------------------------
(* The human gate *)

\* What backs a status is never taken back.
LEMMA BackedKept ==
  ASSUME NEW o \in Opportunities, NEW s, Backed(o, s), trail[o] \subseteq trail'[o]
  PROVE  Backed(o, s)'
  BY DEF Backed, Recorded

\* The human gate in terms of Backed.
LEMMA GateBacked == HumanGate <=> \A o \in Opportunities : Backed(o, status[o])
  BY DEF HumanGate, Backed

\* A review of a status that is backed leaves one that is, once it is recorded.
LEMMA ReviewBacks ==
  ASSUME NEW o \in Opportunities, NEW read \in Statuses, NEW act \in Actions,
         Backed(o, read), trail[o] \subseteq trail'[o],
         HistoryRow(read, act) \in trail'[o]
  PROVE  Backed(o, NewStatus(read, act))'
  <1>1. Backed(o, read)'
    BY BackedKept
  <1>2. CASE act = "rejected"
    BY <1>2 DEF Backed, NewStatus
  <1>3. CASE act = "qualified" /\ read = "suggested"
    <2>1. NewStatus(read, act) = "qualified" /\ Recorded(o, "suggested", "qualified")'
      BY <1>3 DEF NewStatus, HistoryRow, Recorded
    <2> QED
      BY <2>1 DEF Backed
  <1>4. CASE act = "pursuing_started" /\ read = "qualified"
    <2>1. NewStatus(read, act) = "pursuing" /\ Recorded(o, "qualified", "pursuing")'
      BY <1>4 DEF NewStatus, HistoryRow, Recorded
    <2> QED
      BY <2>1, <1>1, <1>4 DEF Backed
  <1>5. CASE act = "realized" /\ read = "pursuing"
    <2>1. NewStatus(read, act) = "realized" /\ Recorded(o, "pursuing", "realized")'
      BY <1>5 DEF NewStatus, HistoryRow, Recorded
    <2> QED
      BY <2>1, <1>1, <1>5 DEF Backed
  <1>6. CASE NewStatus(read, act) = read
    BY <1>1, <1>6
  <1> QED
    BY <1>2, <1>3, <1>4, <1>5, <1>6 DEF NewStatus

\* Initially nothing is there.
LEMMA InitGate == Init => GateInv
  BY DEF Init, GateInv, HumanGate, ReadBacked, NoneUntouched, Idle

\* The actions that put an opportunity there, or dismiss it in bulk: a status
\* that needs backing is the one it was.
LEMMA SourcesGate ==
  ASSUME TypeOK, GateInv, \/ \E o \in Opportunities : Create(o) \/ Detect(o)
                          \/ Reanalyse
  PROVE  GateInv'
  <1> DEFINE Harmless ==
        \A o \in Opportunities :
          /\ trail[o] \subseteq trail'[o]
          /\ status'[o] \in {status[o], "suggested", "dismissed"}
          /\ status'[o] = "none" => status[o] = "none" /\ trail'[o] = trail[o]
  <1>1. user' = user /\ Harmless
    <2>1. ASSUME NEW p \in Opportunities, Create(p)
          PROVE  user' = user /\ Harmless
      BY <2>1 DEF Create, TypeOK, GateInv, NoneUntouched
    <2>2. ASSUME NEW p \in Opportunities, Detect(p)
          PROVE  user' = user /\ Harmless
      BY <2>2 DEF Detect, TypeOK, opp
    <2>3. CASE Reanalyse
      BY <2>3 DEF Reanalyse, TypeOK, opp
    <2> QED
      BY <2>1, <2>2, <2>3
  <1>2. HumanGate'
    BY <1>1 DEF GateInv, HumanGate, Recorded
  <1>3. ReadBacked'
    BY <1>1, UserShape DEF GateInv, ReadBacked, Backed, Recorded
  <1>4. NoneUntouched'
    BY <1>1 DEF GateInv, NoneUntouched
  <1> QED
    BY <1>2, <1>3, <1>4 DEF GateInv

\* A reviewer reads a status that is backed, and records what it writes.
LEMMA ReviewersGate ==
  ASSUME TypeOK, GateInv, NEW u \in Users, Review(u) \/ \E o \in Opportunities : Read(u, o)
  PROVE  GateInv'
  <1>1. CASE Review(u)
    <2>1. PICK o \in Opportunities, read \in Statuses, act \in Actions :
            user[u].at = "review" /\ user[u].opp = o /\ user[u].read = read /\ user[u].act = act
      BY <1>1, UserShape DEF Review
    <2>2. /\ trail' = [trail EXCEPT ![o] = @ \cup {HistoryRow(read, act)}]
          /\ status' = [status EXCEPT ![o] = NewStatus(read, act)]
          /\ user' = [user EXCEPT ![u] = Idle]
      BY <1>1, <2>1 DEF Review, HistoryRow
    <2>3. \A p \in Opportunities : trail[p] \subseteq trail'[p]
      BY <2>2 DEF TypeOK
    <2>4. HistoryRow(read, act) \in trail'[o]
      BY <2>1, <2>2 DEF TypeOK
    <2>5. Backed(o, NewStatus(read, act))'
      BY <2>1, <2>3, <2>4, ReviewBacks DEF GateInv, ReadBacked
    <2>6. \A p \in Opportunities : Backed(p, status[p])'
      <3> SUFFICES ASSUME NEW p \in Opportunities PROVE Backed(p, status[p])'
        OBVIOUS
      <3>1. CASE p = o
        BY <2>2, <2>5, <3>1 DEF TypeOK, Backed
      <3>2. CASE p # o
        <4>1. status'[p] = status[p] /\ Backed(p, status[p])
          BY <2>2, <3>2, GateBacked DEF GateInv, TypeOK
        <4> QED
          BY <4>1, <2>3 DEF Backed, Recorded
      <3> QED
        BY <3>1, <3>2
    <2>7. ReadBacked'
      BY <2>2, <2>3, UserShape DEF GateInv, ReadBacked, Backed, Recorded, TypeOK, Idle
    <2>8. NoneUntouched'
      BY <2>1, <2>2, NewStatusShape DEF GateInv, NoneUntouched, TypeOK, Statuses
    <2> QED
      BY <2>6, <2>7, <2>8 DEF GateInv, HumanGate, Backed
  <1>2. ASSUME NEW o \in Opportunities, Read(u, o)
        PROVE  GateInv'
    <2>1. PICK act \in Actions :
            user' = [user EXCEPT ![u] =
                       [at |-> "review", opp |-> o, act |-> act, read |-> status[o]]]
      BY <1>2 DEF Read
    <2>2. UNCHANGED <<status, trail>>
      BY <1>2 DEF Read, opp
    <2>3. ReadBacked'
      BY <2>1, <2>2, GateBacked DEF GateInv, ReadBacked, Backed, Recorded, TypeOK
    <2> QED
      BY <2>2, <2>3 DEF GateInv, HumanGate, NoneUntouched, Recorded
  <1> QED
    BY <1>1, <1>2

\* No other step touches a status, a history or a reviewer.
LEMMA OthersGate ==
  ASSUME GateInv, UNCHANGED <<status, trail, user>>
  PROVE  GateInv'
  BY DEF GateInv, HumanGate, ReadBacked, NoneUntouched, Backed, Recorded

\* Every step keeps the gate.
LEMMA NextGate == TypeOK /\ GateInv /\ [Next]_vars => GateInv'
  <1> SUFFICES ASSUME TypeOK, GateInv, [Next]_vars PROVE GateInv'
    OBVIOUS
  <1>1. ASSUME NEW h \in Handlers, Handle(h) \/ Crash(h)
        PROVE  UNCHANGED <<status, trail, user>>
    BY <1>1 DEF Handle, HandleCreated, TaskExistsForEvent, CreateReviewTask,
                RequestNotification, Acknowledge, Crash, opp
  <1>2. ASSUME NEW o \in Opportunities, HandleQualified(o) \/ Redeliver(o)
        PROVE  UNCHANGED <<status, trail, user>>
    BY <1>2 DEF HandleQualified, Redeliver, opp
  <1>3. CASE UNCHANGED vars
    BY <1>3, OthersGate DEF vars, opp
  <1> QED
    BY <1>1, <1>2, <1>3, OthersGate, SourcesGate, ReviewersGate DEF Next

\* However stale the status a review read, an opportunity is qualified, pursued
\* or realized by recorded reviews.
THEOREM HumanGateHolds == Spec => []HumanGate
  BY InitType, NextType, InitGate, NextGate, PTL DEF Spec, GateInv

-----------------------------------------------------------------------------
(* Review tasks *)

\* Initially nobody is at work.
LEMMA InitTask == Init => TaskInv
  <1> SUFFICES ASSUME Init, NEW o \in Opportunities PROVE OppTasks(o)
    BY DEF TaskInv
  <1>1. At(o) = {} /\ Inserting(o) = {}
    BY DEF Init, At, Inserting
  <1> QED
    BY <1>1, FS_EmptySet DEF Init, OppTasks

\* The sets counted are finite, and who inserts is at work.
LEMMA CountShape ==
  ASSUME TaskInv, NEW o \in Opportunities
  PROVE  /\ IsFiniteSet(At(o)) /\ Cardinality(At(o)) \in Nat
         /\ IsFiniteSet(Inserting(o)) /\ Cardinality(Inserting(o)) \in Nat
  <1>1. IsFiniteSet(At(o)) /\ Inserting(o) \in SUBSET At(o)
    BY DEF TaskInv, OppTasks, Inserting
  <1> QED
    BY <1>1, FS_Subset, FS_CardinalityType

\* A step that moves no handler and no job.
LEMMA QuietTask ==
  ASSUME TaskInv, UNCHANGED <<handler, tasks, announced, created, duplicates>>,
         \A o \in Opportunities : status[o] # "none" => status'[o] # "none"
  PROVE  TaskInv'
  <1>1. \A o \in Opportunities : At(o)' = At(o) /\ Inserting(o)' = Inserting(o)
    BY DEF At, Inserting
  <1> QED
    BY <1>1 DEF TaskInv, OppTasks

\* The service announces what was not there, and a delivery is repeated.
LEMMA EventTask ==
  ASSUME TypeOK, TaskInv, NEW p \in Opportunities, Create(p) \/ Redeliver(p)
  PROVE  TaskInv'
  <1> SUFFICES ASSUME NEW o \in Opportunities PROVE OppTasks(o)'
    BY DEF TaskInv
  <1>1. At(o)' = At(o) /\ Inserting(o)' = Inserting(o)
    BY DEF Create, Redeliver, At, Inserting
  <1>2. OppTasks(o) /\ Cardinality(At(o)) \in Nat /\ Cardinality(Inserting(o)) \in Nat
    BY CountShape DEF TaskInv
  <1>3. CASE Create(p)
    <2>1. o = p => o \notin announced /\ Cardinality(At(o)) = 0
      BY <1>2, <1>3, FS_EmptySet DEF OppTasks, Create
    <2>2. /\ created'[o] = IF o = p THEN 1 ELSE created[o]
          /\ status'[o] = IF o = p THEN "suggested" ELSE status[o]
          /\ announced' = announced \cup {p}
          /\ UNCHANGED <<tasks, duplicates>>
      BY <1>3 DEF Create, TypeOK, board, budget
    <2> QED
      BY <1>1, <1>2, <2>1, <2>2 DEF OppTasks, TypeOK
  <1>4. CASE Redeliver(p)
    <2>1. /\ created'[o] = IF o = p THEN created[o] + 1 ELSE created[o]
          /\ duplicates' = duplicates + 1
          /\ p \in announced
          /\ UNCHANGED <<tasks, announced, status>>
      BY <1>4 DEF Redeliver, TypeOK, board, opp
    <2> QED
      BY <1>1, <1>2, <2>1 DEF OppTasks, TypeOK
  <1> QED
    BY <1>3, <1>4

\* A handler takes a job.
LEMMA TakeTask ==
  ASSUME TypeOK, TaskInv, NEW h \in Handlers, NEW p \in Opportunities, HandleCreated(h, p)
  PROVE  TaskInv'
  <1> SUFFICES ASSUME NEW o \in Opportunities PROVE OppTasks(o)'
    BY DEF TaskInv
  <1>1. PICK at \in {"look", "notify"} :
          handler' = [handler EXCEPT ![h] = [at |-> at, opp |-> p]]
    BY DEF HandleCreated
  <1>2. handler[h] = Idle /\ [at |-> at, opp |-> p] # Idle
    <2>1. at \in {"look", "notify"} /\ Idle.at = "idle" /\ [at |-> at, opp |-> p].at = at
      BY DEF Idle
    <2> QED
      BY <2>1 DEF HandleCreated
  <1>3. /\ h \notin At(o)
        /\ At(o)' = IF o = p THEN At(o) \cup {h} ELSE At(o)
        /\ Inserting(o)' = Inserting(o)
    BY <1>1, <1>2 DEF TypeOK, At, Inserting
  <1>4. OppTasks(o) /\ Cardinality(At(o)) \in Nat /\ Cardinality(Inserting(o)) \in Nat
    BY CountShape DEF TaskInv
  <1>5. IsFiniteSet(At(o) \cup {h}) /\ Cardinality(At(o) \cup {h}) = Cardinality(At(o)) + 1
    BY <1>3, <1>4, FS_AddElement DEF OppTasks
  <1>6. /\ created[p] > 0
        /\ created'[o] = IF o = p THEN created[o] - 1 ELSE created[o]
        /\ UNCHANGED <<tasks, announced, status, duplicates>>
    BY DEF HandleCreated, TypeOK, opp, budget
  <1> QED
    BY <1>3, <1>4, <1>5, <1>6 DEF OppTasks, TypeOK

\* A handler at work goes on: it will insert only if it found no task.
LEMMA MoveTask ==
  ASSUME TypeOK, TaskInv, NEW h \in Handlers,
         TaskExistsForEvent(h) \/ CreateReviewTask(h) \/ RequestNotification(h)
  PROVE  TaskInv'
  <1> SUFFICES ASSUME NEW o \in Opportunities PROVE OppTasks(o)'
    BY DEF TaskInv
  <1>1. PICK at \in {"insert", "notify", "ack"} : handler' = Step(h, at)
    BY DEF TaskExistsForEvent, CreateReviewTask, RequestNotification, AfterLook
  <1>2. handler[h] \in Handling /\ handler[h].opp \in Opportunities
    BY HandlerShape DEF TaskExistsForEvent, CreateReviewTask, RequestNotification, Idle
  <1>3. /\ handler'[h].opp = handler[h].opp /\ handler'[h].at = at
        /\ handler'[h] # Idle /\ handler[h] # Idle
        /\ \A g \in Handlers \ {h} : handler'[g] = handler[g]
    BY <1>1, <1>2 DEF Step, TypeOK, Handling, Idle
  <1>4. At(o)' = At(o)
    BY <1>3 DEF At
  <1>5. OppTasks(o) /\ Cardinality(At(o)) \in Nat
        /\ IsFiniteSet(Inserting(o)) /\ Cardinality(Inserting(o)) \in Nat
    BY CountShape DEF TaskInv
  <1>6. UNCHANGED <<announced, status, created, duplicates>>
    BY DEF TaskExistsForEvent, CreateReviewTask, RequestNotification, opp, jobs, budget
  <1>7. CASE TaskExistsForEvent(h)
    <2>1. tasks' = tasks
      BY <1>7 DEF TaskExistsForEvent, board
    <2>2. Inserting(o)' \in SUBSET At(o)
      BY <1>4 DEF Inserting
    <2>3. /\ Cardinality(Inserting(o)') \in Nat
          /\ Cardinality(Inserting(o)') <= Cardinality(At(o))
      BY <2>2, <1>5, FS_Subset, FS_CardinalityType DEF OppTasks
    <2>4. CASE tasks[o] = 0
      BY <2>1, <2>3, <2>4, <1>4, <1>5, <1>6 DEF OppTasks, TypeOK
    <2>5. CASE tasks[o] # 0
      <3>1. handler[h].opp = o => at # "insert"
        <4>1. ASSUME handler[h].opp = o PROVE at = "notify"
          <5>1. AfterLook(TaskFound(handler[h].opp)) = "notify"
            BY <2>5, <4>1 DEF AfterLook, TaskFound, TypeOK
          <5>2. handler'[h] = [handler[h] EXCEPT !.at = "notify"]
            BY <1>7, <5>1 DEF TaskExistsForEvent, Step, TypeOK
          <5> QED
            BY <1>2, <1>3, <5>2 DEF Handling
        <4> QED
          BY <4>1
      <3>2. Inserting(o)' = Inserting(o)
        BY <1>3, <1>4, <1>7, <3>1 DEF Inserting, At, TaskExistsForEvent
      <3> QED
        BY <2>1, <3>2, <1>4, <1>5, <1>6 DEF OppTasks
    <2> QED
      BY <2>4, <2>5
  <1>8. CASE CreateReviewTask(h)
    <2>1. tasks'[o] = IF handler[h].opp = o THEN tasks[o] + 1 ELSE tasks[o]
      BY <1>8 DEF CreateReviewTask, TypeOK
    <2>2. handler[h].at = "insert" /\ handler'[h].at = "notify"
      BY <1>8, <1>3, <1>2 DEF CreateReviewTask, Step, TypeOK, Handling
    <2>3. Inserting(o)' = Inserting(o) \ {h}
      BY <1>3, <1>4, <2>2 DEF Inserting, At
    <2>4. handler[h].opp = o <=> h \in Inserting(o)
      BY <1>3, <2>2 DEF Inserting, At
    <2>5. Cardinality(Inserting(o) \ {h}) =
            IF h \in Inserting(o) THEN Cardinality(Inserting(o)) - 1 ELSE Cardinality(Inserting(o))
      BY <1>5, FS_RemoveElement
    <2> QED
      BY <2>1, <2>3, <2>4, <2>5, <1>4, <1>5, <1>6 DEF OppTasks, TypeOK
  <1>9. CASE RequestNotification(h)
    <2>1. tasks' = tasks /\ handler[h].at = "notify" /\ handler'[h].at = "ack"
      BY <1>9, <1>2 DEF RequestNotification, Step, TypeOK, Handling
    <2>2. Inserting(o)' = Inserting(o)
      BY <1>3, <1>4, <2>1 DEF Inserting, At
    <2> QED
      BY <2>1, <2>2, <1>4, <1>5, <1>6 DEF OppTasks
  <1> QED
    BY <1>7, <1>8, <1>9

\* A handler is done with its job, or gives it back.
LEMMA LeaveTask ==
  ASSUME TypeOK, TaskInv, NEW h \in Handlers, Acknowledge(h) \/ Crash(h)
  PROVE  TaskInv'
  <1> SUFFICES ASSUME NEW o \in Opportunities PROVE OppTasks(o)'
    BY DEF TaskInv
  <1>1. handler[h] # Idle /\ handler[h].opp \in Opportunities
    BY HandlerShape DEF Acknowledge, Crash, Idle
  <1>2. handler' = [handler EXCEPT ![h] = Idle]
    BY DEF Acknowledge, Crash
  <1>3. /\ At(o)' = At(o) \ {h} /\ Inserting(o)' = Inserting(o) \ {h}
        /\ h \in At(o) <=> handler[h].opp = o
    BY <1>1, <1>2 DEF TypeOK, At, Inserting
  <1>4. OppTasks(o) /\ Cardinality(At(o)) \in Nat
        /\ IsFiniteSet(Inserting(o)) /\ Cardinality(Inserting(o)) \in Nat
    BY CountShape DEF TaskInv
  <1>5. /\ IsFiniteSet(At(o) \ {h})
        /\ Cardinality(At(o) \ {h}) =
             IF h \in At(o) THEN Cardinality(At(o)) - 1 ELSE Cardinality(At(o))
    BY <1>4, FS_RemoveElement DEF OppTasks
  <1>6. Cardinality(Inserting(o) \ {h}) \in Nat
        /\ Cardinality(Inserting(o) \ {h}) <= Cardinality(Inserting(o))
    <2>1. Inserting(o) \ {h} \in SUBSET Inserting(o)
      OBVIOUS
    <2> QED
      BY <2>1, <1>4, FS_Subset, FS_CardinalityType
  <1>7. /\ created'[o] \in {created[o], IF h \in At(o) THEN created[o] + 1 ELSE created[o]}
        /\ UNCHANGED <<tasks, announced, status, duplicates>>
    BY <1>1, <1>3 DEF Acknowledge, Crash, TypeOK, opp, jobs, board, budget
  <1> QED
    BY <1>3, <1>4, <1>5, <1>6, <1>7 DEF OppTasks, TypeOK

\* Every step keeps the count.
LEMMA NextTask == TypeOK /\ TaskInv /\ [Next]_vars => TaskInv'
  <1> SUFFICES ASSUME TypeOK, TaskInv, [Next]_vars PROVE TaskInv'
    OBVIOUS
  <1>1. ASSUME NEW o \in Opportunities, Detect(o) \/ HandleQualified(o)
        PROVE  TaskInv'
    BY <1>1, QuietTask DEF Detect, HandleQualified, opp, jobs, board, budget, TypeOK
  <1>2. ASSUME NEW o \in Opportunities, Create(o) \/ Redeliver(o)
        PROVE  TaskInv'
    BY <1>2, EventTask
  <1>3. CASE Reanalyse
    BY <1>3, QuietTask DEF Reanalyse, opp, jobs, board, budget, TypeOK
  <1>4. ASSUME NEW u \in Users, Review(u)
        PROVE  TaskInv'
    <2>1. \A o \in Opportunities : status[o] # "none" => status'[o] # "none"
      <3>1. user[u] \in Reviewing /\ NewStatus(user[u].read, user[u].act) \in Statuses
        BY <1>4, UserShape, NewStatusShape DEF Review
      <3> QED
        BY <1>4, <3>1 DEF Review, HistoryRow, TypeOK, Statuses
    <2> QED
      BY <1>4, <2>1, QuietTask DEF Review, board, budget
  <1>5. ASSUME NEW u \in Users, NEW o \in Opportunities, Read(u, o)
        PROVE  TaskInv'
    BY <1>5, QuietTask DEF Read, opp, jobs, board
  <1>6. ASSUME NEW h \in Handlers, Handle(h) \/ Crash(h)
        PROVE  TaskInv'
    BY <1>6, TakeTask, MoveTask, LeaveTask DEF Handle
  <1>7. CASE UNCHANGED vars
    BY <1>7, QuietTask DEF vars, opp, jobs, board, budget
  <1> QED
    BY <1>1, <1>2, <1>3, <1>4, <1>5, <1>6, <1>7 DEF Next

\* An opportunity gets one review task, and one more per repeated delivery of
\* its event, whatever number of handlers race or die: each looks for the task
\* before it inserts one.
THEOREM TasksAccountedHolds == Spec => []TasksAccounted
  <1>1. TypeOK /\ TaskInv => TasksAccounted
    <2> SUFFICES ASSUME TypeOK, TaskInv, NEW o \in Opportunities
                 PROVE  tasks[o] <= 1 + duplicates
      BY DEF TasksAccounted
    <2>1. tasks[o] \in Nat /\ duplicates \in Nat /\ Cardinality(Inserting(o)) \in Nat
      BY CountShape DEF TypeOK
    <2>2. tasks[o] + Cardinality(Inserting(o)) <= 1 + duplicates
      BY DEF TaskInv, OppTasks
    <2> QED
      BY <2>1, <2>2
  <1> QED
    BY <1>1, InitType, NextType, InitTask, NextTask, PTL DEF Spec
=============================================================================
