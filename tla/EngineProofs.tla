---------------------------- MODULE EngineProofs ----------------------------
(***************************************************************************)
(* Machine-checked facts about the engine, for any facts, cases, workers,   *)
(* snapshots, playbooks and bounds.  Of Recalculation: its types, that what *)
(* is marked stale is scheduled, and that a run is abandoned only by an     *)
(* evaluator that died.  Of EngineRuns: its types, that a blocked case is   *)
(* suggested nothing, and that a run on a replaced sentence is marked       *)
(* unless it was being evaluated when the mark was made.                    *)
(***************************************************************************)
EXTENDS Recalculation, EngineRuns, FiniteSetTheorems, SequenceTheorems, WellFoundedInduction, TLAPS

\* A handler marks nothing that it is not to schedule as well, and schedules
\* one case at a time.
MarkedIsCarried ==
  \A h \in Handlers :
    /\ handler[h].at = "invalidate" => handler[h].mark \subseteq handler[h].todo
    /\ handler[h].at = "schedule" => \A c, d \in handler[h].mark : c = d

-----------------------------------------------------------------------------
(* Types *)

\* What TypeOK says of a handler and of an evaluator at work.
LEMMA HandlerShape ==
  ASSUME TypeOK, NEW h \in Handlers, handler[h] # Idle
  PROVE  /\ handler[h] \in Working
         /\ handler[h].fact \in Facts
         /\ handler[h].mark \subseteq Cases /\ handler[h].todo \subseteq Cases
  BY DEF TypeOK, Working

\* What TypeOK says of an evaluator at work.
LEMMA EvaluatorShape ==
  ASSUME TypeOK, NEW e \in Evaluators, evaluator[e] # Idle
  PROVE  evaluator[e].at \in {"start", "complete"} /\ evaluator[e].run \in DOMAIN runs
  BY DEF TypeOK

\* Where a handler goes, whatever is left to mark and to schedule.
LEMMA ContinueShape ==
  ASSUME NEW f \in Facts, NEW mark \in SUBSET Cases, NEW todo \in SUBSET Cases
  PROVE  Continue(f, mark, todo) \in {Idle} \cup Working
  BY DEF Continue, Working

\* Initially.
LEMMA InitType == Init => TypeOK
  <1> SUFFICES ASSUME Init PROVE TypeOK
    OBVIOUS
  <1>1. runs \in Seq(RunRecord)
    BY DEF Init
  <1> QED
    BY <1>1, RecalculationAssumption DEF Init, TypeOK

\* An update of a run keeps the runs, and a new one comes after them.
LEMMA UpdatedRuns ==
  ASSUME TypeOK, NEW i \in DOMAIN runs, NEW r \in RunRecord, runs' = [runs EXCEPT ![i] = r]
  PROVE  runs' \in Seq(RunRecord) /\ DOMAIN runs' = DOMAIN runs
  BY ExceptSeq DEF TypeOK

\* A run may change its status and its deliveries.
LEMMA RunShape ==
  ASSUME TypeOK, NEW i \in DOMAIN runs
  PROVE  /\ runs[i] \in RunRecord /\ runs[i].events \in Nat
         /\ \A n \in Nat : [runs[i] EXCEPT !.events = n] \in RunRecord
         /\ \A s \in {"scheduled", "running", "skipped"} :
              [runs[i] EXCEPT !.status = s] \in RunRecord
  <1>1. runs[i] \in RunRecord
    BY DEF TypeOK
  <1> QED
    BY <1>1 DEF RunRecord

\* The handlers of a change.
LEMMA HandlersType ==
  ASSUME TypeOK, NEW h \in Handlers, HandleChange(h) \/ CrashHandler(h)
  PROVE  TypeOK'
  <1> USE DEF facts, faults
  <1>1. ASSUME NEW f \in Facts, TakeChange(h, f)
        PROVE  TypeOK'
    <2>1. Affected(f) \in SUBSET Cases /\ CasesToSchedule(f, Affected(f)) \in SUBSET Cases
      BY RecalculationAssumption DEF Affected, CasesToSchedule, TypeOK
    <2>2. handler' \in [Handlers -> {Idle} \cup Working]
      BY <1>1, <2>1, ContinueShape DEF TakeChange, TypeOK
    <2>3. jobs' \in [Facts -> Nat]
      BY <1>1 DEF TakeChange, TypeOK
    <2> QED
      BY <1>1, <2>2, <2>3 DEF TakeChange, TypeOK
  <1>2. CASE InvalidateDependency(h)
    <2>1. handler[h] # Idle
      BY <1>2 DEF InvalidateDependency, Idle
    <2>2. PICK c \in handler[h].mark :
            /\ stale' = stale \cup {<<handler[h].fact, c>>}
            /\ handler' = [handler EXCEPT ![h] =
                 Continue(handler[h].fact, handler[h].mark \ {c}, handler[h].todo)]
      BY <1>2, <2>1, HandlerShape DEF InvalidateDependency, TypeOK
    <2>3. Continue(handler[h].fact, handler[h].mark \ {c}, handler[h].todo)
            \in {Idle} \cup Working
      BY <2>1, HandlerShape, ContinueShape
    <2>4. handler' \in [Handlers -> {Idle} \cup Working]
      BY <2>2, <2>3 DEF TypeOK
    <2>5. stale' \subseteq Facts \X Cases
      BY <2>1, <2>2, HandlerShape DEF TypeOK
    <2> QED
      BY <1>2, <2>4, <2>5 DEF InvalidateDependency, TypeOK
  <1>3. CASE LookForScheduled(h)
    <2>1. handler[h] # Idle
      BY <1>3 DEF LookForScheduled, Idle
    <2>2. PICK c \in handler[h].todo :
            handler' = [handler EXCEPT ![h] =
              IF kind[handler[h].fact] # "document" /\ Scheduled(handler[h].fact, c)
              THEN Continue(handler[h].fact, {}, handler[h].todo \ {c})
              ELSE [at |-> "schedule", fact |-> handler[h].fact, mark |-> {c},
                    todo |-> handler[h].todo \ {c}]]
      BY <1>3, <2>1 DEF LookForScheduled, TypeOK
    <2>3. Continue(handler[h].fact, {}, handler[h].todo \ {c}) \in {Idle} \cup Working
      BY <2>1, HandlerShape, ContinueShape
    <2>4. [at |-> "schedule", fact |-> handler[h].fact, mark |-> {c},
           todo |-> handler[h].todo \ {c}] \in Working
      BY <2>1, HandlerShape DEF Working
    <2>5. handler' \in [Handlers -> {Idle} \cup Working]
      BY <2>2, <2>3, <2>4 DEF TypeOK
    <2> QED
      BY <1>3, <2>5 DEF LookForScheduled, TypeOK
  <1>4. CASE ScheduleRecalculation(h)
    <2>1. handler[h] # Idle
      BY <1>4 DEF ScheduleRecalculation, Idle
    <2>2. PICK c \in handler[h].mark :
            runs' = Append(runs, [fact |-> handler[h].fact, case |-> c,
                                  status |-> "scheduled", events |-> 1])
      BY <1>4 DEF ScheduleRecalculation
    <2>3. [fact |-> handler[h].fact, case |-> c, status |-> "scheduled", events |-> 1]
            \in RunRecord
      BY <2>1, HandlerShape DEF RunRecord
    <2>4. runs' \in Seq(RunRecord) /\ DOMAIN runs \subseteq DOMAIN runs'
      BY <2>2, <2>3, AppendProperties DEF TypeOK
    <2>5. Continue(handler[h].fact, {}, handler[h].todo) \in {Idle} \cup Working
      BY <2>1, HandlerShape, ContinueShape
    <2>6. handler' \in [Handlers -> {Idle} \cup Working]
      BY <1>4, <2>1, <2>5 DEF ScheduleRecalculation, TypeOK
    <2>7. evaluator' \in [Evaluators ->
                            {Idle} \cup [at : {"start", "complete"}, run : DOMAIN runs']]
      BY <1>4, <2>4 DEF ScheduleRecalculation, TypeOK
    <2> QED
      BY <1>4, <2>4, <2>6, <2>7 DEF ScheduleRecalculation, TypeOK
  <1>5. CASE CrashHandler(h)
    <2>1. jobs' \in [Facts -> Nat]
      BY <1>5, HandlerShape DEF CrashHandler, TypeOK
    <2>2. crashes' \in Nat /\ duplicates + crashes' + lost <= MaxFaults
      BY <1>5, RecalculationAssumption DEF CrashHandler, FaultsLeft, TypeOK
    <2> QED
      BY <1>5, <2>1, <2>2 DEF CrashHandler, TypeOK
  <1> QED
    BY <1>1, <1>2, <1>3, <1>4, <1>5 DEF HandleChange

\* The evaluators.
LEMMA EvaluatorsType ==
  ASSUME TypeOK, NEW e \in Evaluators, Evaluate(e) \/ CrashEvaluator(e)
  PROVE  TypeOK' /\ DOMAIN runs' = DOMAIN runs
  <1> USE DEF facts, faults
  <1>1. ASSUME NEW i \in DOMAIN runs, TakeRun(e, i)
        PROVE  TypeOK' /\ DOMAIN runs' = DOMAIN runs
    <2>1. runs[i].events - 1 \in Nat
      <3>1. runs[i].events \in Nat
        BY RunShape
      <3> QED
        BY <1>1, <3>1 DEF TakeRun
    <2>2. runs' \in Seq(RunRecord) /\ DOMAIN runs' = DOMAIN runs
      BY <1>1, <2>1, RunShape, UpdatedRuns DEF TakeRun
    <2>3. evaluator' \in [Evaluators ->
                            {Idle} \cup [at : {"start", "complete"}, run : DOMAIN runs]]
      BY <1>1 DEF TakeRun, TypeOK
    <2> QED
      BY <1>1, <2>2, <2>3 DEF TakeRun, TypeOK
  <1>2. CASE StartRecalculation(e)
    <2>1. evaluator[e].run \in DOMAIN runs
      BY <1>2, EvaluatorShape DEF StartRecalculation, Idle
    <2>2. runs' \in Seq(RunRecord) /\ DOMAIN runs' = DOMAIN runs
      BY <1>2, <2>1, RunShape, UpdatedRuns DEF StartRecalculation
    <2>3. evaluator' \in [Evaluators ->
                            {Idle} \cup [at : {"start", "complete"}, run : DOMAIN runs]]
      BY <1>2, <2>1 DEF StartRecalculation, AfterStart, TypeOK
    <2> QED
      BY <1>2, <2>2, <2>3 DEF StartRecalculation, TypeOK
  <1>3. CASE CompleteRecalculation(e)
    <2>1. evaluator[e].run \in DOMAIN runs
      BY <1>3, EvaluatorShape DEF CompleteRecalculation, Idle
    <2>2. runs' \in Seq(RunRecord) /\ DOMAIN runs' = DOMAIN runs
      BY <1>3, <2>1, RunShape, UpdatedRuns DEF CompleteRecalculation, CompletedStatus
    <2>3. evaluator' \in [Evaluators ->
                            {Idle} \cup [at : {"start", "complete"}, run : DOMAIN runs]]
      BY <1>3 DEF CompleteRecalculation, TypeOK
    <2> QED
      BY <1>3, <2>2, <2>3 DEF CompleteRecalculation, TypeOK
  <1>4. CASE CrashEvaluator(e)
    <2>1. evaluator[e].run \in DOMAIN runs
      BY <1>4, EvaluatorShape DEF CrashEvaluator
    <2>2. runs[evaluator[e].run].events + 1 \in Nat
      <3>1. runs[evaluator[e].run].events \in Nat
        BY <2>1, RunShape
      <3> QED
        BY <3>1
    <2>3. runs' \in Seq(RunRecord) /\ DOMAIN runs' = DOMAIN runs
      BY <1>4, <2>1, <2>2, RunShape, UpdatedRuns DEF CrashEvaluator
    <2>4. evaluator' \in [Evaluators ->
                            {Idle} \cup [at : {"start", "complete"}, run : DOMAIN runs]]
      BY <1>4 DEF CrashEvaluator, TypeOK
    <2>5. lost' \in Nat /\ duplicates + crashes + lost' <= MaxFaults
      BY <1>4, RecalculationAssumption DEF CrashEvaluator, FaultsLeft, TypeOK
    <2> QED
      BY <1>4, <2>3, <2>4, <2>5 DEF CrashEvaluator, TypeOK
  <1> QED
    BY <1>1, <1>2, <1>3, <1>4 DEF Evaluate

\* A change, and a repeated delivery.
LEMMA OthersType ==
  ASSUME TypeOK, (\E f \in Facts : Change(f)) \/ Redeliver
  PROVE  TypeOK'
  <1> USE DEF facts, faults
  <1>1. ASSUME NEW f \in Facts, Change(f)
        PROVE  TypeOK'
    BY <1>1 DEF Change, TypeOK
  <1>2. CASE Redeliver
    <2>1. duplicates' \in Nat /\ duplicates' + crashes + lost <= MaxFaults
      BY <1>2, RecalculationAssumption DEF Redeliver, FaultsLeft, TypeOK
    <2>2. jobs' \in [Facts -> Nat]
      BY <1>2 DEF Redeliver, TypeOK
    <2>3. runs' \in Seq(RunRecord) /\ DOMAIN runs' = DOMAIN runs
      <3>1. CASE \E i \in DOMAIN runs : runs' = [runs EXCEPT ![i].events = @ + 1]
        <4>1. PICK i \in DOMAIN runs : runs' = [runs EXCEPT ![i].events = @ + 1]
          BY <3>1
        <4>2. runs[i].events + 1 \in Nat
          <5>1. runs[i].events \in Nat
            BY RunShape
          <5> QED
            BY <5>1
        <4> QED
          BY <4>1, <4>2, RunShape, UpdatedRuns
      <3> QED
        BY <1>2, <3>1 DEF Redeliver, TypeOK
    <2> QED
      BY <1>2, <2>1, <2>2, <2>3 DEF Redeliver, TypeOK
  <1> QED
    BY <1>1, <1>2

\* Every step keeps the types.
LEMMA NextType == TypeOK /\ [Next]_vars => TypeOK'
  <1> SUFFICES ASSUME TypeOK, [Next]_vars PROVE TypeOK'
    OBVIOUS
  <1>1. CASE UNCHANGED vars
    BY <1>1 DEF vars, facts, faults, TypeOK
  <1> QED
    BY <1>1, HandlersType, EvaluatorsType, OthersType DEF Next

\* Every variable has its type in every reachable state.
THEOREM TypeCorrect == Spec => []TypeOK
  BY InitType, NextType, PTL DEF Spec

-----------------------------------------------------------------------------
(* What is marked stale is scheduled *)

ScheduledInv == StaleIsScheduled /\ MarkedIsCarried

\* Initially nothing is stale.
LEMMA InitScheduled == Init => ScheduledInv
  BY DEF Init, ScheduledInv, StaleIsScheduled, MarkedIsCarried, Idle

\* Steps that take no case from a handler and no run away.
LEMMA ScheduledKept ==
  ASSUME ScheduledInv, handler' = handler, stale' = stale, crashes' = crashes,
         \A i \in DOMAIN runs :
           /\ i \in DOMAIN runs'
           /\ runs'[i].fact = runs[i].fact /\ runs'[i].case = runs[i].case
  PROVE  ScheduledInv'
  BY DEF ScheduledInv, StaleIsScheduled, MarkedIsCarried, HasRun, Carried

\* A step of one handler that leaves the runs there are: what it had to
\* schedule, and what it marks, has its run or is still its own.
LEMMA HandlerKeeps ==
  ASSUME TypeOK, ScheduledInv, NEW h \in Handlers, NEW new,
         handler' = [handler EXCEPT ![h] = new],
         crashes' = crashes,
         \A f \in Facts, c \in Cases : HasRun(f, c) => HasRun(f, c)',
         \A f \in Facts, c \in Cases :
           <<f, c>> \in stale' =>
             \/ <<f, c>> \in stale
             \/ handler[h] # Idle /\ handler[h].fact = f /\ c \in handler[h].todo,
         \A f \in Facts, c \in Cases :
           handler[h] # Idle /\ handler[h].fact = f
             /\ (c \in handler[h].todo \/ (handler[h].at = "schedule" /\ c \in handler[h].mark))
           => \/ HasRun(f, c)'
              \/ /\ new # Idle /\ new.fact = f
                 /\ c \in new.todo \/ (new.at = "schedule" /\ c \in new.mark),
         new.at = "invalidate" => new.mark \subseteq new.todo,
         new.at = "schedule" => \A c, d \in new.mark : c = d
  PROVE  ScheduledInv'
  <1>1. MarkedIsCarried'
    BY DEF ScheduledInv, MarkedIsCarried, TypeOK
  <1>2. \A f \in Facts, c \in Cases : Carried(f, c) => HasRun(f, c)' \/ Carried(f, c)'
    BY DEF Carried, TypeOK
  <1>3. StaleIsScheduled'
    <2> SUFFICES ASSUME crashes = 0, NEW f \in Facts, NEW c \in Cases, <<f, c>> \in stale'
                 PROVE  HasRun(f, c)' \/ Carried(f, c)'
      BY DEF StaleIsScheduled
    <2>1. CASE <<f, c>> \in stale
      BY <1>2, <2>1 DEF ScheduledInv, StaleIsScheduled
    <2>2. CASE handler[h] # Idle /\ handler[h].fact = f /\ c \in handler[h].todo
      <3>1. Carried(f, c)
        BY <2>2 DEF Carried
      <3> QED
        BY <1>2, <3>1
    <2> QED
      BY <2>1, <2>2
  <1> QED
    BY <1>1, <1>3 DEF ScheduledInv

\* What a handler marks it schedules, unless it dies.
LEMMA HandlersScheduled ==
  ASSUME TypeOK, ScheduledInv, NEW h \in Handlers, HandleChange(h) \/ CrashHandler(h)
  PROVE  ScheduledInv'
  <1> USE DEF facts, faults
  <1>1. ASSUME NEW f \in Facts, TakeChange(h, f)
        PROVE  ScheduledInv'
    <2> DEFINE new == Continue(f, Affected(f), CasesToSchedule(f, Affected(f)))
    <2>1. /\ new.at = "invalidate" => new.mark \subseteq new.todo
          /\ new.at # "schedule"
      BY DEF Continue, CasesToSchedule, Idle
    <2>2. \A g \in Facts, c \in Cases : HasRun(g, c) => HasRun(g, c)'
      BY <1>1 DEF TakeChange, HasRun
    <2> HIDE DEF new
    <2>3. handler[h] = Idle /\ handler' = [handler EXCEPT ![h] = new]
      BY <1>1 DEF TakeChange, new
    <2> QED
      BY <1>1, <2>1, <2>2, <2>3, HandlerKeeps DEF TakeChange
  <1>2. CASE InvalidateDependency(h)
    <2>1. handler[h] # Idle /\ handler[h].mark \subseteq handler[h].todo
      BY <1>2 DEF InvalidateDependency, Idle, ScheduledInv, MarkedIsCarried
    <2>2. PICK c \in handler[h].mark :
            /\ stale' = stale \cup {<<handler[h].fact, c>>}
            /\ handler' = [handler EXCEPT ![h] =
                 Continue(handler[h].fact, handler[h].mark \ {c}, handler[h].todo)]
      BY <1>2, <2>1 DEF InvalidateDependency, TypeOK
    <2> DEFINE new == Continue(handler[h].fact, handler[h].mark \ {c}, handler[h].todo)
    <2>3. /\ new # Idle /\ new.fact = handler[h].fact /\ new.todo = handler[h].todo
          /\ new.at = "invalidate" => new.mark \subseteq new.todo
          /\ new.at # "schedule"
      BY <2>1, <2>2 DEF Continue, Idle
    <2>4. \A g \in Facts, d \in Cases : HasRun(g, d) => HasRun(g, d)'
      BY <1>2 DEF InvalidateDependency, HasRun
    <2>5. handler[h].at # "schedule" /\ crashes' = crashes
      BY <1>2 DEF InvalidateDependency
    <2>6. PICK n : n = new
      OBVIOUS
    <2> HIDE DEF new
    <2>7. handler' = [handler EXCEPT ![h] = n]
      BY <2>2, <2>6 DEF new
    <2> QED
      BY <2>1, <2>2, <2>3, <2>4, <2>5, <2>6, <2>7, HandlerKeeps
  <1>3. CASE LookForScheduled(h)
    <2>1. handler[h] # Idle /\ handler[h].at # "schedule"
      BY <1>3 DEF LookForScheduled, Idle
    <2>2. PICK c \in handler[h].todo :
            handler' = [handler EXCEPT ![h] =
              IF kind[handler[h].fact] # "document" /\ Scheduled(handler[h].fact, c)
              THEN Continue(handler[h].fact, {}, handler[h].todo \ {c})
              ELSE [at |-> "schedule", fact |-> handler[h].fact, mark |-> {c},
                    todo |-> handler[h].todo \ {c}]]
      BY <1>3, <2>1 DEF LookForScheduled, TypeOK
    <2>3. /\ \A g \in Facts, d \in Cases : HasRun(g, d) => HasRun(g, d)'
          /\ UNCHANGED <<stale, crashes>>
      BY <1>3 DEF LookForScheduled, HasRun
    <2>4. CASE kind[handler[h].fact] # "document" /\ Scheduled(handler[h].fact, c)
      <3>1. PICK n : n = Continue(handler[h].fact, {}, handler[h].todo \ {c})
        OBVIOUS
      <3>2. HasRun(handler[h].fact, c)
        BY <2>4 DEF Scheduled, HasRun
      <3>3. /\ \A d \in handler[h].todo \ {c} :
                 n # Idle /\ n.fact = handler[h].fact /\ d \in n.todo
            /\ n.at \notin {"invalidate", "schedule"}
        BY <3>1 DEF Continue, Idle
      <3>4. handler' = [handler EXCEPT ![h] = n]
        BY <2>2, <2>4, <3>1
      <3>5. \A f \in Facts, d \in Cases :
              handler[h].fact = f /\ d \in handler[h].todo
                => HasRun(f, d)' \/ (n # Idle /\ n.fact = f /\ d \in n.todo)
        BY <2>3, <3>2, <3>3
      <3> QED
        BY <2>1, <2>3, <3>3, <3>4, <3>5, HandlerKeeps
    <2>5. CASE ~(kind[handler[h].fact] # "document" /\ Scheduled(handler[h].fact, c))
      <3>1. PICK n : n = [at |-> "schedule", fact |-> handler[h].fact, mark |-> {c},
                          todo |-> handler[h].todo \ {c}]
        OBVIOUS
      <3>2. /\ n # Idle /\ n.at = "schedule" /\ n.fact = handler[h].fact
            /\ n.mark = {c} /\ n.todo = handler[h].todo \ {c}
        BY <3>1 DEF Idle
      <3>3. handler' = [handler EXCEPT ![h] = n]
        BY <2>2, <2>5, <3>1
      <3> QED
        BY <2>1, <2>3, <3>2, <3>3, HandlerKeeps
    <2> QED
      BY <2>4, <2>5
  <1>4. CASE ScheduleRecalculation(h)
    <2>1. handler[h] # Idle /\ \A c, d \in handler[h].mark : c = d
      BY <1>4 DEF ScheduleRecalculation, Idle, ScheduledInv, MarkedIsCarried
    <2>2. PICK c \in handler[h].mark :
            runs' = Append(runs, [fact |-> handler[h].fact, case |-> c,
                                  status |-> "scheduled", events |-> 1])
      BY <1>4 DEF ScheduleRecalculation
    <2>3. [fact |-> handler[h].fact, case |-> c, status |-> "scheduled", events |-> 1]
            \in RunRecord
      BY <2>1, HandlerShape DEF RunRecord
    <2>4. /\ DOMAIN runs = 1..Len(runs) /\ Len(runs) \in Nat
          /\ DOMAIN runs' = 1..(Len(runs) + 1)
          /\ \A i \in DOMAIN runs : runs'[i] = runs[i]
          /\ runs'[Len(runs) + 1] = [fact |-> handler[h].fact, case |-> c,
                                     status |-> "scheduled", events |-> 1]
      BY <2>2, <2>3, AppendProperties DEF TypeOK
    <2>5. \A g \in Facts, d \in Cases : HasRun(g, d) => HasRun(g, d)'
      BY <2>4 DEF HasRun
    <2>6. \A f \in Facts, d \in Cases :
            f = handler[h].fact /\ d \in handler[h].mark => HasRun(f, d)'
      BY <2>1, <2>2, <2>4 DEF HasRun
    <2>7. PICK n : n = Continue(handler[h].fact, {}, handler[h].todo)
      OBVIOUS
    <2>8. /\ \A d \in handler[h].todo : n # Idle /\ n.fact = handler[h].fact /\ d \in n.todo
          /\ n.at \notin {"invalidate", "schedule"}
      BY <2>7 DEF Continue, Idle
    <2>9. /\ handler' = [handler EXCEPT ![h] = n]
          /\ UNCHANGED <<stale, crashes>>
      BY <1>4, <2>1, <2>7 DEF ScheduleRecalculation, TypeOK
    <2> QED
      BY <2>1, <2>5, <2>6, <2>8, <2>9, HandlerKeeps
  <1>5. CASE CrashHandler(h)
    <2>1. crashes' # 0
      BY <1>5 DEF CrashHandler, TypeOK
    <2>2. MarkedIsCarried'
      BY <1>5 DEF CrashHandler, ScheduledInv, MarkedIsCarried, TypeOK, Idle
    <2> QED
      BY <2>1, <2>2 DEF ScheduledInv, StaleIsScheduled
  <1> QED
    BY <1>1, <1>2, <1>3, <1>4, <1>5 DEF HandleChange

\* No step but a handler's takes a run away or a case from a handler.
LEMMA NextScheduled == TypeOK /\ ScheduledInv /\ [Next]_vars => ScheduledInv'
  <1> SUFFICES ASSUME TypeOK, ScheduledInv, [Next]_vars PROVE ScheduledInv'
    OBVIOUS
  <1> USE DEF facts, faults
  <1>1. ASSUME NEW f \in Facts, Change(f)
        PROVE  ScheduledInv'
    BY <1>1, ScheduledKept DEF Change
  <1>2. ASSUME NEW e \in Evaluators, Evaluate(e) \/ CrashEvaluator(e)
        PROVE  ScheduledInv'
    <2>1. DOMAIN runs' = DOMAIN runs
      BY <1>2, EvaluatorsType
    <2>2. \A i \in DOMAIN runs : runs[i] \in RunRecord
      BY RunShape
    <2>3. UNCHANGED <<handler, stale, crashes>>
      BY <1>2 DEF Evaluate, TakeRun, StartRecalculation, CompleteRecalculation, CrashEvaluator
    <2>4. \A i \in DOMAIN runs :
            runs'[i].fact = runs[i].fact /\ runs'[i].case = runs[i].case
      BY <1>2, <2>1, <2>2
         DEF Evaluate, TakeRun, StartRecalculation, CompleteRecalculation, CrashEvaluator, RunRecord
    <2> QED
      BY <2>1, <2>3, <2>4, ScheduledKept
  <1>3. CASE Redeliver
    <2>1. \A i \in DOMAIN runs : runs[i] \in RunRecord
      BY RunShape
    <2>2. \A i \in DOMAIN runs :
            /\ i \in DOMAIN runs'
            /\ runs'[i].fact = runs[i].fact /\ runs'[i].case = runs[i].case
      BY <1>3, <2>1 DEF Redeliver, RunRecord
    <2> QED
      BY <1>3, <2>2, ScheduledKept DEF Redeliver
  <1>4. CASE UNCHANGED vars
    BY <1>4, ScheduledKept DEF vars
  <1> QED
    BY <1>1, <1>2, <1>3, <1>4, HandlersScheduled DEF Next

\* As long as no handler dies on its way, whatever is marked stale has its run,
\* or a handler that is about to schedule it.
THEOREM StaleIsScheduledHolds == Spec => []StaleIsScheduled
  BY InitType, NextType, InitScheduled, NextScheduled, PTL DEF Spec, ScheduledInv

-----------------------------------------------------------------------------
(* Abandoned runs *)

\* The runs are finitely many.
LEMMA AbandonedFinite ==
  ASSUME TypeOK
  PROVE  IsFiniteSet(Abandoned) /\ Cardinality(Abandoned) \in Nat
  <1>1. DOMAIN runs = 1..Len(runs) /\ Len(runs) \in Nat
    BY DEF TypeOK
  <1>2. IsFiniteSet(DOMAIN runs)
    BY <1>1, FS_Interval
  <1> QED
    BY <1>2, FS_Subset, FS_CardinalityType DEF Abandoned

\* Initially there are no runs.
LEMMA InitAbandoned == Init => OneAbandonedPerCrash
  <1> SUFFICES ASSUME Init PROVE OneAbandonedPerCrash
    OBVIOUS
  <1>1. Abandoned = {}
    BY DEF Init, Abandoned
  <1> QED
    BY <1>1, FS_EmptySet DEF Init, OneAbandonedPerCrash

\* A step after which no more runs are abandoned.
LEMMA NoMoreAbandoned ==
  ASSUME TypeOK, OneAbandonedPerCrash, Abandoned' \subseteq Abandoned, lost' = lost
  PROVE  OneAbandonedPerCrash'
  <1>1. IsFiniteSet(Abandoned) /\ Cardinality(Abandoned) \in Nat
    BY AbandonedFinite
  <1>2. Cardinality(Abandoned') \in Nat /\ Cardinality(Abandoned') <= Cardinality(Abandoned)
    BY <1>1, FS_Subset, FS_CardinalityType
  <1> QED
    BY <1>1, <1>2 DEF OneAbandonedPerCrash, TypeOK

\* Only the death of an evaluator abandons a run.
LEMMA NextAbandoned == TypeOK /\ OneAbandonedPerCrash /\ [Next]_vars => OneAbandonedPerCrash'
  <1> SUFFICES ASSUME TypeOK, OneAbandonedPerCrash, [Next]_vars PROVE OneAbandonedPerCrash'
    OBVIOUS
  <1> USE DEF facts, faults
  <1>1. ASSUME UNCHANGED <<runs, evaluator, lost>>
        PROVE  OneAbandonedPerCrash'
    BY <1>1 DEF OneAbandonedPerCrash, Abandoned
  <1>2. ASSUME NEW h \in Handlers, ScheduleRecalculation(h)
        PROVE  OneAbandonedPerCrash'
    <2>1. handler[h] # Idle
      BY <1>2 DEF ScheduleRecalculation, Idle
    <2>2. PICK c \in handler[h].mark :
            runs' = Append(runs, [fact |-> handler[h].fact, case |-> c,
                                  status |-> "scheduled", events |-> 1])
      BY <1>2 DEF ScheduleRecalculation
    <2>3. [fact |-> handler[h].fact, case |-> c, status |-> "scheduled", events |-> 1]
            \in RunRecord
      BY <2>1, HandlerShape DEF RunRecord
    <2>4. /\ DOMAIN runs = 1..Len(runs) /\ Len(runs) \in Nat
          /\ DOMAIN runs' = 1..(Len(runs) + 1)
          /\ \A i \in DOMAIN runs : runs'[i] = runs[i]
          /\ runs'[Len(runs) + 1].status = "scheduled"
      BY <2>2, <2>3, AppendProperties DEF TypeOK
    <2>5. Abandoned' \subseteq Abandoned
      BY <1>2, <2>4 DEF ScheduleRecalculation, Abandoned
    <2> QED
      BY <1>2, <2>5, NoMoreAbandoned DEF ScheduleRecalculation
  <1>3. ASSUME NEW e \in Evaluators, NEW i \in DOMAIN runs, TakeRun(e, i)
        PROVE  OneAbandonedPerCrash'
    <2>1. \A j \in DOMAIN runs : runs[j] \in RunRecord
      BY RunShape
    <2>2. Abandoned' \subseteq Abandoned
      BY <1>3, <2>1 DEF TakeRun, Abandoned, RunRecord, TypeOK
    <2> QED
      BY <1>3, <2>2, NoMoreAbandoned DEF TakeRun
  <1>4. ASSUME NEW e \in Evaluators, StartRecalculation(e)
        PROVE  OneAbandonedPerCrash'
    <2>1. \A j \in DOMAIN runs : runs[j] \in RunRecord
      BY RunShape
    <2>2. evaluator[e] # Idle /\ evaluator'[e] = [at |-> "complete", run |-> evaluator[e].run]
      BY <1>4 DEF StartRecalculation, AfterStart, Idle, TypeOK
    <2>3. ASSUME NEW i \in Abandoned'
          PROVE  i \in Abandoned
      <3>1. DOMAIN runs' = DOMAIN runs /\ i \in DOMAIN runs
        BY <1>4, <2>3, EvaluatorsType DEF Evaluate, Abandoned
      <3>2. evaluator'[e] # Idle /\ evaluator'[e].run = evaluator[e].run
        BY <2>2 DEF Idle
      <3>3. i # evaluator[e].run
        BY <2>3, <3>2 DEF Abandoned
      <3>4. runs'[i] = runs[i] /\ \A x \in Evaluators : x # e => evaluator'[x] = evaluator[x]
        BY <1>4, <3>1, <3>3 DEF StartRecalculation, TypeOK
      <3> QED
        BY <2>3, <3>1, <3>3, <3>4 DEF Abandoned
    <2> QED
      BY <1>4, <2>3, NoMoreAbandoned DEF StartRecalculation
  <1>5. ASSUME NEW e \in Evaluators, CompleteRecalculation(e)
        PROVE  OneAbandonedPerCrash'
    <2>1. \A j \in DOMAIN runs : runs[j] \in RunRecord
      BY RunShape
    <2>2. Abandoned' \subseteq Abandoned
      BY <1>5, <2>1 DEF CompleteRecalculation, CompletedStatus, Abandoned, RunRecord, TypeOK
    <2> QED
      BY <1>5, <2>2, NoMoreAbandoned DEF CompleteRecalculation
  <1>6. ASSUME NEW e \in Evaluators, CrashEvaluator(e)
        PROVE  OneAbandonedPerCrash'
    <2>1. PICK r : r = evaluator[e].run
      OBVIOUS
    <2>2. \A j \in DOMAIN runs : runs[j] \in RunRecord
      BY RunShape
    <2>3. Abandoned' \subseteq Abandoned \cup {r}
      BY <1>6, <2>1, <2>2 DEF CrashEvaluator, Abandoned, RunRecord, TypeOK
    <2>4. IsFiniteSet(Abandoned) /\ Cardinality(Abandoned) \in Nat
      BY AbandonedFinite
    <2>5. /\ IsFiniteSet(Abandoned \cup {r})
          /\ Cardinality(Abandoned \cup {r})
               \in {Cardinality(Abandoned), Cardinality(Abandoned) + 1}
      BY <2>4, FS_AddElement
    <2>6. /\ Cardinality(Abandoned') \in Nat
          /\ Cardinality(Abandoned') <= Cardinality(Abandoned \cup {r})
      BY <2>3, <2>5, FS_Subset, FS_CardinalityType
    <2> QED
      BY <1>6, <2>4, <2>5, <2>6 DEF CrashEvaluator, OneAbandonedPerCrash, TypeOK
  <1>7. ASSUME NEW h \in Handlers, NEW f \in Facts, TakeChange(h, f)
        PROVE  OneAbandonedPerCrash'
    BY <1>1, <1>7 DEF TakeChange
  <1>8. ASSUME NEW h \in Handlers,
               InvalidateDependency(h) \/ LookForScheduled(h) \/ CrashHandler(h)
        PROVE  OneAbandonedPerCrash'
    BY <1>1, <1>8 DEF InvalidateDependency, LookForScheduled, CrashHandler
  <1>9. ASSUME NEW f \in Facts, Change(f)
        PROVE  OneAbandonedPerCrash'
    BY <1>1, <1>9 DEF Change
  <1>10. CASE Redeliver
    <2>1. \A j \in DOMAIN runs : runs[j] \in RunRecord
      BY RunShape
    <2>2. Abandoned' \subseteq Abandoned
      BY <1>10, <2>1 DEF Redeliver, Abandoned, RunRecord
    <2> QED
      BY <1>10, <2>2, NoMoreAbandoned DEF Redeliver
  <1>11. CASE UNCHANGED vars
    BY <1>1, <1>11 DEF vars
  <1> QED
    BY <1>2, <1>3, <1>4, <1>5, <1>6, <1>7, <1>8, <1>9, <1>10, <1>11
       DEF Next, HandleChange, Evaluate

\* No more runs are left running without an evaluator than evaluators died.
THEOREM OneAbandonedPerCrashHolds == Spec => []OneAbandonedPerCrash
  BY InitType, NextType, InitAbandoned, NextAbandoned, PTL DEF Spec

-----------------------------------------------------------------------------
(* What the codes of a case amount to *)

\* A code is pushed once, where it is active.
LEMMA PushedShape ==
  ASSUME NEW f
  PROVE  /\ Pushed(1, f) = IF Active("BLK_ESCAPE", f) THEN <<"BLK_ESCAPE">> ELSE <<>>
         /\ Pushed(2, f) = IF Active("BLK_SNAPSHOT_UNCONFIRMED", f)
                           THEN <<"BLK_SNAPSHOT_UNCONFIRMED">> ELSE <<>>
         /\ Pushed(3, f) = IF Active("BLK_PROCESS_PENDING", f)
                           THEN <<"BLK_PROCESS_PENDING">> ELSE <<>>
         /\ \A i \in 1..3 : Pushed(i, f) \in Seq(Codes)
  <1> USE DEF CodeOrder, Pushed
  <1>1. CodeOrder[1] = "BLK_ESCAPE" /\ CodeOrder[2] = "BLK_SNAPSHOT_UNCONFIRMED"
        /\ CodeOrder[3] = "BLK_PROCESS_PENDING"
    OBVIOUS
  <1>2. \A i \in 1..3 : CodeOrder[i] \in Codes
    BY <1>1 DEF Codes
  <1>3. \A c \in Codes : <<c>> \in Seq(Codes)
    OBVIOUS
  <1>4. <<>> \in Seq(Codes)
    OBVIOUS
  <1> QED
    BY <1>1, <1>2, <1>3, <1>4

\* The codes of a case are a sequence of codes.
LEMMA CodesShape ==
  ASSUME NEW f
  PROVE  BlockingCodes(f) \in Seq(Codes)
  BY PushedShape, ConcatProperties DEF BlockingCodes

\* A code that blocks everything comes first, whatever else is active.
LEMMA FullCodeFirst ==
  ASSUME NEW f, Active("BLK_ESCAPE", f) \/ Active("BLK_SNAPSHOT_UNCONFIRMED", f)
  PROVE  BlockingCodes(f) # <<>> /\ Head(BlockingCodes(f)) \in FullCodes
  <1> DEFINE one == Pushed(1, f)  two == Pushed(2, f)  three == Pushed(3, f)
  <1>1. one \in Seq(Codes) /\ two \in Seq(Codes) /\ three \in Seq(Codes)
    BY PushedShape
  <1>2. \/ Len(one) = 1 /\ one[1] = "BLK_ESCAPE"
        \/ Len(one) = 0 /\ Len(two) = 1 /\ two[1] = "BLK_SNAPSHOT_UNCONFIRMED"
    BY PushedShape
  <1>3. BlockingCodes(f) = (one \o two) \o three
    BY DEF BlockingCodes
  <1> HIDE DEF one, two, three
  <1>4. /\ one \o two \in Seq(Codes) /\ Len(one \o two) >= 1
        /\ (one \o two)[1] \in {"BLK_ESCAPE", "BLK_SNAPSHOT_UNCONFIRMED"}
    BY <1>1, <1>2, ConcatProperties
  <1>5. /\ Len((one \o two) \o three) >= 1
        /\ ((one \o two) \o three)[1] = (one \o two)[1]
    BY <1>1, <1>4, ConcatProperties
  <1> QED
    BY <1>3, <1>4, <1>5, CodesShape DEF FullCodes

\* A missing process number is among the codes, last.
LEMMA ProcessCodePushed ==
  ASSUME NEW f, Active("BLK_PROCESS_PENDING", f)
  PROVE  BlockingCodes(f) # <<>> /\ "BLK_PROCESS_PENDING" \in ToSet(BlockingCodes(f))
  <1> DEFINE front == Pushed(1, f) \o Pushed(2, f)  last == Pushed(3, f)
  <1>1. front \in Seq(Codes) /\ last \in Seq(Codes)
    BY PushedShape, ConcatProperties
  <1>2. Len(last) = 1 /\ last[1] = "BLK_PROCESS_PENDING"
    BY PushedShape
  <1>3. BlockingCodes(f) = front \o last
    BY DEF BlockingCodes
  <1> HIDE DEF front, last
  <1>4. /\ Len(front \o last) = Len(front) + 1
        /\ (front \o last)[Len(front) + 1] = "BLK_PROCESS_PENDING"
    BY <1>1, <1>2, ConcatProperties
  <1> QED
    BY <1>1, <1>3, <1>4, CodesShape DEF ToSet

\* What is proposed is not suppressed, and a progression meets no interruption.
LEMMA ProposalShape ==
  ASSUME NEW rules, NEW f, NEW p \in Proposals(rules, f)
  PROVE  /\ ~Suppressed(p.type, BlockingCodes(f))
         /\ p.type = "progression" => f.interruptions = {}
         /\ \E i \in DOMAIN rules : p = [rule |-> i, type |-> p.type]
  <1> DEFINE codes == BlockingCodes(f)
  <1>1. PICK i \in DOMAIN rules :
          /\ p = [rule |-> i, type |-> TypeOf(rules[i])]
          /\ Proposes(rules[i], f, codes) /\ ~Suppressed(TypeOf(rules[i]), codes)
    BY DEF Proposals
  <1>2. p.type = TypeOf(rules[i])
    BY <1>1
  <1> HIDE DEF codes
  <1>3. ASSUME TypeOf(rules[i]) = "progression" PROVE f.interruptions = {}
    <2>1. CASE \/ progressionFraction(rules[i], f, codes)
               \/ lepProgressionFraction(rules[i], f, codes)
      BY <2>1 DEF progressionFraction, lepProgressionFraction
    <2>2. CASE rules[i].evaluator \in {"lepParoleFraction", "lepRemission", "lepDetraction"}
      BY <1>3, <2>2 DEF TypeOf
    <2> QED
      BY <1>1, <2>1, <2>2 DEF Proposes
  <1> QED
    BY <1>1, <1>2, <1>3 DEF codes

\* A fully blocked case is suggested nothing, and one without a process number
\* nothing of high risk, whatever the evaluators say.
LEMMA BlockedProposals ==
  ASSUME NEW rules, NEW f
  PROVE  /\ Active("BLK_ESCAPE", f) \/ Active("BLK_SNAPSHOT_UNCONFIRMED", f)
              => Proposals(rules, f) = {}
         /\ Active("BLK_PROCESS_PENDING", f)
              => \A p \in Proposals(rules, f) : p.type \notin HighRisk
  <1>1. ASSUME Active("BLK_ESCAPE", f) \/ Active("BLK_SNAPSHOT_UNCONFIRMED", f),
               NEW p \in Proposals(rules, f)
        PROVE  FALSE
    BY <1>1, FullCodeFirst, ProposalShape DEF Suppressed
  <1>2. ASSUME Active("BLK_PROCESS_PENDING", f), NEW p \in Proposals(rules, f)
        PROVE  p.type \notin HighRisk
    BY <1>2, ProcessCodePushed, ProposalShape DEF Suppressed
  <1> QED
    BY <1>1, <1>2

\* The events after one that is read are read as well.
LEMMA LaterLoaded ==
  ASSUME NEW t \in [1..Moments -> EventKinds], NEW i \in 1..Moments, NEW k \in 1..Moments,
         i <= k, Cardinality(Later(t, i)) < EventLimit
  PROVE  LoadedEvents(t)[k] = t[k]
  <1>1. Later(t, i) \in SUBSET (1..Moments) /\ Later(t, k) \in SUBSET Later(t, i)
    BY EngineAssumption DEF Later
  <1>2. IsFiniteSet(1..Moments)
    BY FS_Interval, EngineAssumption
  <1>3. IsFiniteSet(Later(t, i)) /\ IsFiniteSet(Later(t, k))
        /\ Cardinality(Later(t, k)) <= Cardinality(Later(t, i))
    BY <1>1, <1>2, FS_Subset
  <1>4. Cardinality(Later(t, k)) \in Nat /\ Cardinality(Later(t, i)) \in Nat
    BY <1>3, FS_CardinalityType
  <1> QED
    BY <1>3, <1>4, EventAssumption DEF LoadedEvents

\* The walk over the rows sees an escape exactly if the timeline ends in one: if
\* neither a recapture, a sanction nor too many events came after it.
LEMMA LastEscapeSeen ==
  ASSUME NEW t \in [1..Moments -> EventKinds]
  PROVE  "all_liberty" \in Interruptions(t) <=> EndsInEscape(t)
  <1> DEFINE rows == LoadedEvents(t)
  <1>1. \A k \in 1..Moments : rows[k] \in {t[k], "none"}
    BY DEF LoadedEvents
  <1>2. DOMAIN rows = 1..Moments /\ DOMAIN t = 1..Moments
    BY DEF LoadedEvents
  <1>3. "all_liberty" \in Interruptions(t) <=> SeenEscapes(rows) # {}
    BY DEF Interruptions
  <1>4. ASSUME NEW i \in SeenEscapes(rows) PROVE EndsInEscape(t)
    <2>1. i \in 1..Moments /\ rows[i] = "escape"
      BY <1>2 DEF SeenEscapes, At
    <2>2. Cardinality(Later(t, i)) < EventLimit /\ t[i] = "escape"
      BY <2>1 DEF LoadedEvents
    <2>3. ASSUME NEW k \in {"recapture", "sanction"}, NEW j \in At(t, k) PROVE j < i
      <3>1. j \in 1..Moments /\ t[j] = k
        BY <1>2 DEF At
      <3>2. ASSUME i <= j PROVE FALSE
        <4>1. rows[j] = k
          BY <2>1, <2>2, <3>1, <3>2, LaterLoaded
        <4>2. j \in At(rows, k)
          BY <1>2, <3>1, <4>1 DEF At
        <4>3. j < i
          BY <4>2 DEF SeenEscapes, Before
        <4> QED
          BY <2>1, <3>1, <3>2, <4>3, EngineAssumption
      <3> QED
        BY <2>1, <3>1, <3>2, EngineAssumption
    <2> QED
      BY <1>2, <2>1, <2>2, <2>3 DEF EndsInEscape, Before, At
  <1>5. ASSUME EndsInEscape(t) PROVE SeenEscapes(rows) # {}
    <2>1. PICK i \in At(t, "escape") :
            /\ Before(t, i, "recapture") /\ Before(t, i, "sanction")
            /\ Cardinality(Later(t, i)) < EventLimit
      BY <1>5 DEF EndsInEscape
    <2>2. i \in 1..Moments /\ rows[i] = "escape"
      <3>1. i \in 1..Moments /\ t[i] = "escape"
        BY <1>2, <2>1 DEF At
      <3> QED
        BY <2>1, <3>1 DEF LoadedEvents
    <2>3. \A k \in {"recapture", "sanction"} : At(rows, k) \subseteq At(t, k)
      BY <1>1, <1>2 DEF At
    <2>4. i \in SeenEscapes(rows)
      BY <1>2, <2>1, <2>2, <2>3 DEF SeenEscapes, Before, At
    <2> QED
      BY <2>4
  <1> QED
    BY <1>3, <1>4, <1>5

-----------------------------------------------------------------------------
(* Engine runs: types *)

\* A finite set of numbers has a greatest: a set without one, as small as can be,
\* would leave none either when an element is taken out.
LEMMA FiniteHasGreatest ==
  ASSUME NEW S \in SUBSET Nat, IsFiniteSet(S), S # {}
  PROVE  \E m \in S : \A x \in S : x <= m
  <1> DEFINE Topped(X) == \E m \in X : \A x \in X : x <= m
             T == {X \in SUBSET S : X # {} /\ ~Topped(X)}
  <1>1. ASSUME T # {} PROVE FALSE
    <2>1. T \subseteq FiniteSubsetsOf(S)
      BY FS_FiniteSubsetsOfFinite
    <2>2. PICK X \in T : \A Y \in T : <<Y, X>> \notin StrictSubsetOrdering(S)
      BY <1>1, <2>1, FS_StrictSubsetOrderingWellFounded, WFMin
    <2>3. PICK a \in X : TRUE
      BY <2>2
    <2> DEFINE Y == X \ {a}
    <2>4. <<Y, X>> \in StrictSubsetOrdering(S)
      BY <2>2, <2>3 DEF StrictSubsetOrdering
    <2>5. Y = {} \/ Topped(Y)
      BY <2>2, <2>4
    <2>6. CASE Y = {}
      BY <2>2, <2>3, <2>6
    <2>7. CASE Topped(Y)
      <3>1. PICK m \in Y : \A x \in Y : x <= m
        BY <2>7
      <3>2. m \in Nat /\ a \in Nat /\ \A x \in X : x \in Nat
        BY <2>2, <2>3
      <3>3. CASE a <= m
        BY <2>2, <3>1, <3>2, <3>3
      <3>4. CASE m <= a
        BY <2>2, <2>3, <3>1, <3>2, <3>4
      <3> QED
        BY <3>2, <3>3, <3>4
    <2> QED
      BY <2>5, <2>6, <2>7
  <1> QED
    BY <1>1

\* The loaders find one of the rows that qualify, or nothing.
LEMMA NewestFound ==
  ASSUME NEW S \in SUBSET Nat, IsFiniteSet(S)
  PROVE  IF S = {} THEN Newest(S) = 0 ELSE Newest(S) \in S
  <1>1. CASE S = {}
    BY <1>1 DEF Newest
  <1>2. CASE S # {}
    <2>1. \E m \in S : \A x \in S : x <= m
      BY <1>2, FiniteHasGreatest
    <2> QED
      BY <1>2, <2>1 DEF Newest
  <1> QED
    BY <1>1, <1>2

\* What a sentence or a custody query may return.
LEMMA LoadedShape ==
  /\ Newest(LoadedSentences) \in LoadedSentences \cup {0}
  /\ Newest(LoadedSentences) \in Sentences \cup {0}
  /\ Newest(LoadedCustodies) \in Custodies \cup {0}
  <1>1. /\ LoadedSentences \in SUBSET Nat /\ IsFiniteSet(LoadedSentences)
        /\ LoadedSentences \subseteq Sentences
    BY EngineAssumption, FS_Subset DEF LoadedSentences
  <1>2. /\ LoadedCustodies \in SUBSET Nat /\ IsFiniteSet(LoadedCustodies)
        /\ LoadedCustodies \subseteq Custodies
    BY EngineAssumption, FS_Subset DEF LoadedCustodies
  <1> QED
    BY <1>1, <1>2, NewestFound

\* What the types say of an evaluation under way, and of the bound on them.
LEMMA RequestShape ==
  ASSUME EngineTypeOK
  PROVE  /\ \A e \in Requests : request[e] # NoRequest => request[e] \in Readings
         /\ IsFiniteSet(UnderWay) /\ Cardinality(UnderWay) \in Nat
         /\ Len(engineRuns) \in Nat
  <1>1. UnderWay \subseteq Requests
    BY DEF UnderWay
  <1> QED
    BY <1>1, EngineAssumption, FS_Subset, FS_CardinalityType DEF EngineTypeOK

\* A reading is under way.
LEMMA ReadingUnderWay == \A r \in Readings : r # NoRequest
  BY DEF Readings, NoRequest

\* Initially.
LEMMA EngineInitType == EngineInit => EngineTypeOK
  <1> SUFFICES ASSUME EngineInit PROVE EngineTypeOK
    OBVIOUS
  <1>1. UnderWay = {}
    BY DEF EngineInit, UnderWay
  <1>2. engineRuns \in Seq(RunRecords) /\ Len(engineRuns) = 0 /\ DOMAIN engineRuns = {}
    BY DEF EngineInit
  <1>3. timeline \in [1..Moments -> EventKinds]
    BY DEF EngineInit, EventKinds
  <1> QED
    BY <1>1, <1>2, <1>3, FS_EmptySet, EngineAssumption DEF EngineInit, EngineTypeOK, Statuses

\* The people at the case.
LEMMA PeopleType ==
  ASSUME EngineTypeOK,
         \/ \E s \in Sentences : ConfirmSentence(s) \/ \E x \in Contents : ProposeSentence(s, x)
         \/ \E s, t \in Sentences, x \in Contents : SupersedeSentence(s, t, x)
         \/ \E c \in Custodies : ProposeCustody(c) \/ ConfirmCustody(c)
         \/ \E c, d \in Custodies : SupersedeCustody(c, d)
         \/ \E i \in 1..Moments, k \in EventKinds \ {"none"} : AppendEvent(i, k)
  PROVE  EngineTypeOK' /\ UNCHANGED <<playbook, process, request, engineRuns>>
  <1>1. UNCHANGED <<playbook, process, request, engineRuns>>
    BY DEF ConfirmSentence, ProposeSentence, SupersedeSentence, ProposeCustody, ConfirmCustody,
           SupersedeCustody, AppendEvent
  <1>2. sentence' \in [Sentences -> Statuses] /\ custody' \in [Custodies -> Statuses]
    BY DEF ConfirmSentence, ProposeSentence, SupersedeSentence, ProposeCustody, ConfirmCustody,
           SupersedeCustody, AppendEvent, EngineTypeOK, Statuses
  <1>3. content' \in [Sentences -> Contents \cup {Empty}]
    BY DEF ConfirmSentence, ProposeSentence, SupersedeSentence, ProposeCustody, ConfirmCustody,
           SupersedeCustody, AppendEvent, EngineTypeOK
  <1>4. timeline' \in [1..Moments -> EventKinds]
    BY DEF ConfirmSentence, ProposeSentence, SupersedeSentence, ProposeCustody, ConfirmCustody,
           SupersedeCustody, AppendEvent, EngineTypeOK
  <1>5. changes' \subseteq {"sentence.confirmed", "sentence.superseded", "custody.created"} \X Nat
    BY EngineAssumption
       DEF ConfirmSentence, ProposeSentence, SupersedeSentence, ProposeCustody, ConfirmCustody,
           SupersedeCustody, AppendEvent, EngineTypeOK, SupersededNames
  <1>6. UnderWay' = UnderWay
    BY <1>1 DEF UnderWay
  <1> QED
    BY <1>1, <1>2, <1>3, <1>4, <1>5, <1>6 DEF EngineTypeOK

\* An update of a request under way.
LEMMA RequestKeeps ==
  ASSUME EngineTypeOK, NEW e \in Requests, request[e] # NoRequest, NEW r \in Readings,
         request' = [request EXCEPT ![e] = r], UNCHANGED <<caseRows, changes, engineRuns>>
  PROVE  EngineTypeOK'
  <1>1. request' \in [Requests -> {NoRequest} \cup Readings]
    BY DEF EngineTypeOK
  <1>2. UnderWay' = UnderWay
    BY ReadingUnderWay DEF UnderWay, EngineTypeOK
  <1> QED
    BY <1>1, <1>2 DEF EngineTypeOK, caseRows

\* One more evaluation, or one less.
LEMMA RequestsCounted ==
  ASSUME EngineTypeOK, NEW e \in Requests, NEW r \in {NoRequest} \cup Readings,
         request' = [request EXCEPT ![e] = r]
  PROVE  /\ request[e] = NoRequest /\ r # NoRequest
              => Cardinality(UnderWay') = Cardinality(UnderWay) + 1
         /\ request[e] # NoRequest /\ r = NoRequest
              => Cardinality(UnderWay') = Cardinality(UnderWay) - 1
  <1>1. request'[e] = r /\ \A q \in Requests : q # e => request'[q] = request[q]
    BY DEF EngineTypeOK
  <1>2. ASSUME request[e] = NoRequest, r # NoRequest
        PROVE  Cardinality(UnderWay') = Cardinality(UnderWay) + 1
    <2>1. UnderWay' = UnderWay \cup {e} /\ e \notin UnderWay
      BY <1>1, <1>2 DEF UnderWay
    <2> QED
      BY <2>1, RequestShape, FS_AddElement
  <1>3. ASSUME request[e] # NoRequest, r = NoRequest
        PROVE  Cardinality(UnderWay') = Cardinality(UnderWay) - 1
    <2>1. UnderWay' = UnderWay \ {e} /\ e \in UnderWay
      BY <1>1, <1>3 DEF UnderWay
    <2> QED
      BY <2>1, RequestShape, FS_RemoveElement
  <1> QED
    BY <1>2, <1>3

\* The run that a commit adds.
NewRun(e) ==
  LET r == request[e]
      f == CaseFacts(r)
  IN  [read |-> r, codes |-> BlockingCodes(f), proposals |-> Proposals(playbook, f),
       dependencies |-> buildDependencies(r), stale |-> {}]

\* It is one of its type.
LEMMA NewRunShape ==
  ASSUME EngineTypeOK, NEW e \in Requests, CommitRun(e)
  PROVE  /\ request[e] \in Readings
         /\ engineRuns' = Append(engineRuns, NewRun(e))
         /\ NewRun(e) \in RunRecords
  <1>1. request[e] \in Readings
    BY RequestShape DEF CommitRun, HasRead
  <1>2. /\ engineRuns' = Append(engineRuns, NewRun(e))
        /\ \A p \in Proposals(playbook, CaseFacts(request[e])) : p.type \in opportunityTypeEnum
    BY DEF CommitRun, NewRun
  <1>3. BlockingCodes(CaseFacts(request[e])) \in Seq(Codes)
    BY CodesShape
  <1>4. DOMAIN playbook \subseteq Nat
    BY EngineAssumption DEF EngineTypeOK
  <1>5. ASSUME NEW p \in Proposals(playbook, CaseFacts(request[e]))
        PROVE  p \in [rule : Nat, type : opportunityTypeEnum]
    <2>1. PICK i \in DOMAIN playbook : p = [rule |-> i, type |-> p.type]
      BY ProposalShape
    <2> QED
      BY <1>2, <1>4, <2>1
  <1>6. request[e].sentence \in Sentences \cup {0} /\ request[e].custody \in Custodies \cup {0}
    BY <1>1 DEF Readings
  <1>7. buildDependencies(request[e]) \subseteq Dependencies
    BY <1>6 DEF buildDependencies, Dependencies
  <1> QED
    BY <1>1, <1>2, <1>3, <1>5, <1>7 DEF NewRun, RunRecords

\* The runs after a commit are those before it and the new one.
LEMMA RunsGrow ==
  ASSUME EngineTypeOK, NEW e \in Requests, CommitRun(e)
  PROVE  \A i \in DOMAIN engineRuns' :
           \/ i \in DOMAIN engineRuns /\ engineRuns'[i] = engineRuns[i]
           \/ engineRuns'[i] = NewRun(e)
  <1>1. /\ engineRuns' = Append(engineRuns, NewRun(e)) /\ NewRun(e) \in RunRecords
        /\ engineRuns \in Seq(RunRecords)
    BY NewRunShape DEF EngineTypeOK
  <1> QED
    BY <1>1, AppendProperties

\* The evaluations.
LEMMA EvaluationType ==
  ASSUME EngineTypeOK, NEW e \in Requests, AnswerRequest(e)
  PROVE  EngineTypeOK'
  <1>1. ASSUME NEW h \in Sentences \cup {0}, StartEvaluation(e, h)
        PROVE  EngineTypeOK'
    <2> DEFINE r == [at |-> "reading", asOf |-> h, done |-> {}, sentence |-> 0, custody |-> 0,
                     timeline |-> [i \in 1..Moments |-> "none"], overtaken |-> FALSE]
    <2>1. r \in Readings
      BY DEF Readings, EventKinds
    <2>2. r # NoRequest
      BY <2>1, ReadingUnderWay
    <2>3. request' = [request EXCEPT ![e] = r] /\ request[e] = NoRequest
      BY <1>1 DEF StartEvaluation
    <2> HIDE DEF r
    <2>4. request' \in [Requests -> {NoRequest} \cup Readings]
      BY <2>1, <2>3 DEF EngineTypeOK
    <2>5. Cardinality(UnderWay') = Cardinality(UnderWay) + 1
      BY <2>1, <2>2, <2>3, RequestsCounted
    <2>6. /\ Len(engineRuns) + Cardinality(UnderWay) < MaxRuns
          /\ UNCHANGED <<caseRows, changes, engineRuns>>
      BY <1>1 DEF StartEvaluation
    <2>7. Len(engineRuns) + Cardinality(UnderWay') <= MaxRuns
      BY <2>5, <2>6, RequestShape, EngineAssumption
    <2> QED
      BY <2>4, <2>6, <2>7 DEF EngineTypeOK, caseRows
  <1>2. CASE ReadSentence(e)
    <2>1. request[e] \in Readings /\ request[e] # NoRequest
      BY <1>2, RequestShape DEF ReadSentence, Pending
    <2> DEFINE r == [request[e] EXCEPT !.done = @ \cup {"sentence"},
                                       !.sentence = Newest(LoadedSentences)]
    <2>2. r \in Readings
      BY <2>1, LoadedShape DEF Readings, Queries
    <2>3. request' = [request EXCEPT ![e] = r]
      BY <1>2 DEF ReadSentence
    <2> QED
      BY <1>2, <2>1, <2>2, <2>3, RequestKeeps DEF ReadSentence
  <1>3. CASE ReadCustody(e)
    <2>1. request[e] \in Readings /\ request[e] # NoRequest
      BY <1>3, RequestShape DEF ReadCustody, Pending
    <2> DEFINE r == [request[e] EXCEPT !.done = @ \cup {"custody"},
                                       !.custody = Newest(LoadedCustodies)]
    <2>2. r \in Readings
      BY <2>1, LoadedShape DEF Readings, Queries
    <2>3. request' = [request EXCEPT ![e] = r]
      BY <1>3 DEF ReadCustody
    <2> QED
      BY <1>3, <2>1, <2>2, <2>3, RequestKeeps DEF ReadCustody
  <1>4. CASE ReadTimeline(e)
    <2>1. request[e] \in Readings /\ request[e] # NoRequest
      BY <1>4, RequestShape DEF ReadTimeline, Pending
    <2> DEFINE r == [request[e] EXCEPT !.done = @ \cup {"timeline"}, !.timeline = timeline]
    <2>2. r \in Readings
      BY <2>1 DEF Readings, Queries, EngineTypeOK
    <2>3. request' = [request EXCEPT ![e] = r]
      BY <1>4 DEF ReadTimeline
    <2> QED
      BY <1>4, <2>1, <2>2, <2>3, RequestKeeps DEF ReadTimeline
  <1>5. CASE CommitRun(e)
    <2>1. /\ NewRun(e) \in RunRecords /\ engineRuns' = Append(engineRuns, NewRun(e))
          /\ request' = [request EXCEPT ![e] = NoRequest] /\ request[e] # NoRequest
          /\ UNCHANGED <<caseRows, changes>>
      BY <1>5, NewRunShape DEF CommitRun, HasRead
    <2>2. request' \in [Requests -> {NoRequest} \cup Readings]
      BY <2>1 DEF EngineTypeOK
    <2>3. engineRuns' \in Seq(RunRecords) /\ Len(engineRuns') = Len(engineRuns) + 1
      BY <2>1, AppendProperties DEF EngineTypeOK
    <2>4. NewRun(e).stale = {}
      BY DEF NewRun
    <2>5. Cardinality(UnderWay') = Cardinality(UnderWay) - 1
      BY <2>1, RequestsCounted
    <2>6. Len(engineRuns') + Cardinality(UnderWay') <= MaxRuns
      BY <2>3, <2>5, RequestShape, EngineAssumption DEF EngineTypeOK
    <2> QED
      BY <1>5, <2>1, <2>2, <2>3, <2>4, <2>6, RunsGrow DEF EngineTypeOK, caseRows
  <1>6. CASE FailRun(e)
    <2>1. /\ request' = [request EXCEPT ![e] = NoRequest] /\ request[e] # NoRequest
          /\ UNCHANGED <<caseRows, changes, engineRuns>>
      BY <1>6 DEF FailRun
    <2>2. request' \in [Requests -> {NoRequest} \cup Readings]
      BY <2>1 DEF EngineTypeOK
    <2>3. Cardinality(UnderWay') = Cardinality(UnderWay) - 1
      BY <2>1, RequestsCounted
    <2>4. Len(engineRuns) + Cardinality(UnderWay') <= MaxRuns
      BY <2>3, RequestShape, EngineAssumption DEF EngineTypeOK
    <2> QED
      BY <2>1, <2>2, <2>4 DEF EngineTypeOK, caseRows
  <1> QED
    BY <1>1, <1>2, <1>3, <1>4, <1>5, <1>6 DEF AnswerRequest

\* What a job leaves of a run and of an evaluation.
LEMMA MarkedShape ==
  ASSUME EngineTypeOK, NEW change \in changes, Invalidate(change)
  PROVE  /\ DOMAIN engineRuns' = DOMAIN engineRuns
         /\ \A i \in DOMAIN engineRuns :
              /\ engineRuns'[i] \in RunRecords
              /\ engineRuns'[i].read = engineRuns[i].read
              /\ engineRuns'[i].codes = engineRuns[i].codes
              /\ engineRuns'[i].proposals = engineRuns[i].proposals
              /\ engineRuns'[i].dependencies = engineRuns[i].dependencies
              /\ engineRuns'[i].stale =
                   engineRuns[i].stale \cup (engineRuns[i].dependencies \cap {Concerns(change)})
         /\ \A e \in Requests :
              \/ request'[e] = request[e]
              \/ request[e] # NoRequest /\ request'[e] = [request[e] EXCEPT !.overtaken = TRUE]
  <1>1. engineRuns' = [i \in DOMAIN engineRuns |-> Marked(engineRuns[i], Concerns(change))]
    BY DEF Invalidate
  <1>2. ASSUME NEW i \in DOMAIN engineRuns
        PROVE  /\ Marked(engineRuns[i], Concerns(change)) \in RunRecords
               /\ Marked(engineRuns[i], Concerns(change)) =
                    [engineRuns[i] EXCEPT
                       !.stale = @ \cup (engineRuns[i].dependencies \cap {Concerns(change)})]
    <2>1. engineRuns[i] \in RunRecords
      BY DEF EngineTypeOK
    <2> QED
      BY <2>1 DEF Marked, RunRecords
  <1>3. \A i \in DOMAIN engineRuns : engineRuns[i] \in RunRecords
    BY DEF EngineTypeOK
  <1>4. \A e \in Requests :
          \/ request'[e] = request[e]
          \/ request[e] # NoRequest /\ request'[e] = [request[e] EXCEPT !.overtaken = TRUE]
    BY DEF Invalidate
  <1> QED
    BY <1>1, <1>2, <1>3, <1>4 DEF RunRecords

\* The jobs.
LEMMA InvalidateType ==
  ASSUME EngineTypeOK, NEW change \in changes, Invalidate(change)
  PROVE  EngineTypeOK'
  <1>1. /\ engineRuns' = [i \in 1..Len(engineRuns) |-> engineRuns'[i]]
        /\ \A i \in 1..Len(engineRuns) : engineRuns'[i] \in RunRecords
    BY MarkedShape DEF Invalidate, EngineTypeOK
  <1>2. engineRuns' \in Seq(RunRecords) /\ Len(engineRuns') = Len(engineRuns)
    BY <1>1, RequestShape
  <1>3. \A i \in DOMAIN engineRuns' : engineRuns'[i].stale \subseteq engineRuns'[i].dependencies
    BY MarkedShape DEF EngineTypeOK
  <1>4. ASSUME NEW e \in Requests
        PROVE  /\ request'[e] \in {NoRequest} \cup Readings
               /\ request'[e] # NoRequest <=> request[e] # NoRequest
    <2>1. CASE request'[e] = request[e]
      BY <2>1 DEF EngineTypeOK
    <2>2. CASE request[e] # NoRequest /\ request'[e] = [request[e] EXCEPT !.overtaken = TRUE]
      <3>1. [request[e] EXCEPT !.overtaken = TRUE] \in Readings
        BY <2>2, RequestShape DEF Readings
      <3> QED
        BY <2>2, <3>1, ReadingUnderWay
    <2> QED
      BY <2>1, <2>2, MarkedShape
  <1>5. request' \in [Requests -> {NoRequest} \cup Readings]
    BY <1>4 DEF Invalidate
  <1>6. UnderWay' = UnderWay
    BY <1>4 DEF UnderWay
  <1>7. changes' \subseteq changes /\ UNCHANGED caseRows
    BY DEF Invalidate
  <1> QED
    BY <1>2, <1>3, <1>5, <1>6, <1>7 DEF EngineTypeOK, caseRows

\* Every step keeps the types.
LEMMA EngineNextType == EngineTypeOK /\ [EngineNext]_engineVars => EngineTypeOK'
  <1> SUFFICES ASSUME EngineTypeOK, [EngineNext]_engineVars PROVE EngineTypeOK'
    OBVIOUS
  <1>1. CASE UNCHANGED engineVars
    BY <1>1 DEF engineVars, caseRows, EngineTypeOK, UnderWay
  <1> QED
    BY <1>1, PeopleType, EvaluationType, InvalidateType DEF EngineNext

\* Engine runs have their types, for any rows, playbooks and evaluations.
THEOREM EngineTypeCorrect == EngineSpec => []EngineTypeOK
  BY EngineInitType, EngineNextType, PTL DEF EngineSpec

-----------------------------------------------------------------------------
(* A blocked case is suggested nothing *)

\* What NothingWhileBlocked says of one run.
SuggestsNoMore(run) ==
  /\ run.read.sentence <= run.read.asOf => run.proposals = {}
  /\ EndsInEscape(run.read.timeline) => run.proposals = {}
  /\ ~process => TypesOf(run) \cap HighRisk = {}
  /\ At(LoadedEvents(run.read.timeline), "sanction") # {} => "progression" \notin TypesOf(run)
SuggestsAt(i) == SuggestsNoMore(engineRuns[i])

\* A commit adds such a run, because every evaluator's result passes the codes that
\* the same readings gave.
LEMMA CommitSuggestsNoMore ==
  ASSUME EngineTypeOK, NEW e \in Requests, CommitRun(e)
  PROVE  SuggestsNoMore(NewRun(e))
  <1> DEFINE r == request[e]
             f == CaseFacts(r)
             run == NewRun(e)
  <1>1. r \in Readings
    BY NewRunShape
  <1>2. r.timeline \in [1..Moments -> EventKinds]
    BY <1>1 DEF Readings
  <1>3. r.sentence \in Nat /\ r.asOf \in Nat
    <2>1. r.sentence \in Sentences \cup {0} /\ r.asOf \in Sentences \cup {0}
      BY <1>1 DEF Readings
    <2>2. \A s \in Sentences \cup {0} : s \in Nat
      BY EngineAssumption
    <2> QED
      BY <2>1, <2>2, Zenon
  <1>4. run.read = r /\ run.proposals = Proposals(playbook, f)
    BY DEF NewRun
  <1>5. /\ f.recent <=> r.sentence > r.asOf
        /\ f.process = process
        /\ f.interruptions = Interruptions(r.timeline)
    BY DEF CaseFacts
  <1> HIDE DEF r, f, run
  <1>6. ASSUME r.sentence <= r.asOf PROVE run.proposals = {}
    <2>1. Active("BLK_SNAPSHOT_UNCONFIRMED", f)
      BY <1>3, <1>5, <1>6 DEF Active
    <2> QED
      BY <1>4, <2>1, BlockedProposals
  <1>7. ASSUME EndsInEscape(r.timeline) PROVE run.proposals = {}
    <2>1. Active("BLK_ESCAPE", f)
      BY <1>2, <1>5, <1>7, LastEscapeSeen DEF Active
    <2> QED
      BY <1>4, <2>1, BlockedProposals
  <1>8. ASSUME ~process PROVE TypesOf(run) \cap HighRisk = {}
    <2>1. Active("BLK_PROCESS_PENDING", f)
      BY <1>5, <1>8 DEF Active
    <2> QED
      BY <1>4, <2>1, BlockedProposals DEF TypesOf
  <1>9. ASSUME At(LoadedEvents(r.timeline), "sanction") # {} PROVE "progression" \notin TypesOf(run)
    <2>1. f.interruptions # {}
      BY <1>5, <1>9 DEF Interruptions
    <2>2. \A p \in Proposals(playbook, f) : p.type # "progression"
      BY <2>1, ProposalShape
    <2> QED
      BY <1>4, <2>2 DEF TypesOf
  <1> QED
    BY <1>4, <1>6, <1>7, <1>8, <1>9 DEF SuggestsNoMore, run

\* A run never loses what it said when it is marked, or others are added.
LEMMA NextSuggestsNoMore ==
  EngineTypeOK /\ NothingWhileBlocked /\ [EngineNext]_engineVars => NothingWhileBlocked'
  <1> SUFFICES ASSUME EngineTypeOK, NothingWhileBlocked, [EngineNext]_engineVars,
                      NEW i \in DOMAIN engineRuns'
               PROVE  SuggestsAt(i)'
    BY DEF NothingWhileBlocked, SuggestsAt, SuggestsNoMore
  <1>1. \A j \in DOMAIN engineRuns : SuggestsNoMore(engineRuns[j])
    BY DEF NothingWhileBlocked, SuggestsNoMore
  <1>2. process' = process
    BY PeopleType DEF EngineNext, AnswerRequest, StartEvaluation, ReadSentence, ReadCustody,
                      ReadTimeline, CommitRun, FailRun, Invalidate, caseRows, engineVars
  <1>3. ASSUME engineRuns' = engineRuns PROVE SuggestsAt(i)'
    BY <1>1, <1>2, <1>3 DEF SuggestsAt, SuggestsNoMore
  <1>4. ASSUME NEW e \in Requests, CommitRun(e) PROVE SuggestsAt(i)'
    <2>1. \/ i \in DOMAIN engineRuns /\ engineRuns'[i] = engineRuns[i]
          \/ engineRuns'[i] = NewRun(e)
      BY <1>4, RunsGrow
    <2>2. SuggestsNoMore(engineRuns'[i])
      BY <1>1, <1>4, <2>1, CommitSuggestsNoMore
    <2> QED
      BY <1>2, <2>2 DEF SuggestsAt, SuggestsNoMore
  <1>5. ASSUME NEW change \in changes, Invalidate(change) PROVE SuggestsAt(i)'
    <2>1. /\ i \in DOMAIN engineRuns /\ engineRuns'[i].read = engineRuns[i].read
          /\ engineRuns'[i].proposals = engineRuns[i].proposals
      BY <1>5, MarkedShape
    <2> QED
      BY <1>1, <1>2, <2>1 DEF SuggestsAt, SuggestsNoMore, TypesOf
  <1>6. CASE UNCHANGED engineVars
    BY <1>3, <1>6 DEF engineVars
  <1> QED
    BY <1>3, <1>4, <1>5, <1>6, PeopleType
       DEF EngineNext, AnswerRequest, StartEvaluation, ReadSentence, ReadCustody, ReadTimeline,
           FailRun

\* Whatever people change while an evaluation reads, and whatever playbook is in force,
\* a run suggests nothing that the facts it has read block.
THEOREM NothingWhileBlockedHolds == EngineSpec => []NothingWhileBlocked
  <1>1. EngineInit => NothingWhileBlocked
    BY DEF EngineInit, NothingWhileBlocked
  <1> QED
    BY <1>1, EngineInitType, EngineNextType, NextSuggestsNoMore, PTL DEF EngineSpec

-----------------------------------------------------------------------------
(* Which escapes block *)

\* EscapeBlocks with the exceptions the code makes: the walk over the events ends at
\* a sanction (loader.ts:216), and only the newest events are read (loader.ts:178).
\* A run that reads the timeline has BLK_ESCAPE among its codes exactly if an escape
\* is followed by neither recapture nor sanction and by fewer events than are read.
EscapeCoded(run) ==
  "BLK_ESCAPE" \in ToSet(run.codes) <=> EndsInEscape(run.read.timeline)
EscapeBlocksExactly == \A i \in DOMAIN engineRuns : EscapeCoded(engineRuns[i])

\* The code is the first of those pushed, and no other stands for it.
LEMMA EscapeCodePushed ==
  ASSUME NEW f
  PROVE  "BLK_ESCAPE" \in ToSet(BlockingCodes(f)) <=> Active("BLK_ESCAPE", f)
  <1> DEFINE one == Pushed(1, f)  two == Pushed(2, f)  three == Pushed(3, f)
  <1>1. /\ one \in Seq(Codes) /\ two \in Seq(Codes) /\ three \in Seq(Codes)
        /\ Active("BLK_ESCAPE", f) => Len(one) = 1 /\ one[1] = "BLK_ESCAPE"
        /\ ~Active("BLK_ESCAPE", f) => Len(one) = 0
        /\ \A i \in 1..Len(two) : two[i] # "BLK_ESCAPE"
        /\ \A i \in 1..Len(three) : three[i] # "BLK_ESCAPE"
    BY PushedShape
  <1>2. BlockingCodes(f) = (one \o two) \o three
    BY DEF BlockingCodes
  <1> HIDE DEF one, two, three
  <1>3. CASE Active("BLK_ESCAPE", f)
    <2>0. Len(one) = 1 /\ one[1] = "BLK_ESCAPE"
      BY <1>1, <1>3
    <2>1. one \o two \in Seq(Codes) /\ Len(one \o two) >= 1 /\ (one \o two)[1] = "BLK_ESCAPE"
      BY <1>1, <2>0, ConcatProperties
    <2>2. Len((one \o two) \o three) >= 1 /\ ((one \o two) \o three)[1] = "BLK_ESCAPE"
      BY <1>1, <2>1, ConcatProperties
    <2> QED
      BY <1>2, <1>3, <2>2, CodesShape DEF ToSet
  <1>4. CASE ~Active("BLK_ESCAPE", f)
    <2>1. /\ one \o two \in Seq(Codes)
          /\ \A i \in 1..Len(one \o two) : (one \o two)[i] # "BLK_ESCAPE"
      BY <1>1, <1>4, ConcatProperties
    <2>2. \A i \in 1..Len((one \o two) \o three) : ((one \o two) \o three)[i] # "BLK_ESCAPE"
      BY <1>1, <2>1, ConcatProperties
    <2> QED
      BY <1>2, <1>4, <2>2, CodesShape DEF ToSet
  <1> QED
    BY <1>3, <1>4

\* The run that a commit adds.
LEMMA CommitCodesEscape ==
  ASSUME EngineTypeOK, NEW e \in Requests, CommitRun(e)
  PROVE  EscapeCoded(NewRun(e))
  <1> DEFINE f == CaseFacts(request[e])
             t == request[e].timeline
  <1>1. f.interruptions = Interruptions(t)
    BY DEF CaseFacts
  <1>2. NewRun(e).read.timeline = t /\ NewRun(e).codes = BlockingCodes(f)
    BY DEF NewRun
  <1>3. t \in [1..Moments -> EventKinds]
    <2>1. request[e] \in Readings
      BY NewRunShape
    <2> QED
      BY <2>1 DEF Readings
  <1> HIDE DEF f, t
  <1>4. Active("BLK_ESCAPE", f) <=> EndsInEscape(t)
    BY <1>1, <1>3, LastEscapeSeen DEF Active
  <1> QED
    BY <1>2, <1>4, EscapeCodePushed DEF EscapeCoded

\* Whatever people change while evaluations read, and however many events the loader
\* reads: an escape gets past the block if a recapture, a sanction or that many events
\* came after it, and in no other way.
THEOREM EscapeBlocksExactlyHolds == EngineSpec => []EscapeBlocksExactly
  <1>1. EngineInit => EscapeBlocksExactly
    BY DEF EngineInit, EscapeBlocksExactly
  <1>2. EngineTypeOK /\ EscapeBlocksExactly /\ [EngineNext]_engineVars
          => EscapeBlocksExactly'
    <2> SUFFICES ASSUME EngineTypeOK, EscapeBlocksExactly, [EngineNext]_engineVars,
                        NEW i \in DOMAIN engineRuns'
                 PROVE  EscapeCoded(engineRuns'[i])
      BY DEF EscapeBlocksExactly, EscapeCoded
    <2>1. \A j \in DOMAIN engineRuns : EscapeCoded(engineRuns[j])
      BY DEF EscapeBlocksExactly
    <2>2. ASSUME engineRuns' = engineRuns PROVE EscapeCoded(engineRuns'[i])
      BY <2>1, <2>2
    <2>3. ASSUME NEW e \in Requests, CommitRun(e) PROVE EscapeCoded(engineRuns'[i])
      <3>1. \/ i \in DOMAIN engineRuns /\ engineRuns'[i] = engineRuns[i]
            \/ engineRuns'[i] = NewRun(e)
        BY <2>3, RunsGrow
      <3> QED
        BY <2>1, <2>3, <3>1, CommitCodesEscape
    <2>4. ASSUME NEW change \in changes, Invalidate(change) PROVE EscapeCoded(engineRuns'[i])
      <3>1. /\ i \in DOMAIN engineRuns
            /\ engineRuns'[i].read = engineRuns[i].read
            /\ engineRuns'[i].codes = engineRuns[i].codes
        BY <2>4, MarkedShape
      <3> QED
        BY <2>1, <3>1 DEF EscapeCoded
    <2>5. CASE UNCHANGED engineVars
      BY <2>2, <2>5 DEF engineVars
    <2> QED
      BY <2>2, <2>3, <2>4, <2>5, PeopleType
         DEF EngineNext, AnswerRequest, StartEvaluation, ReadSentence, ReadCustody, ReadTimeline,
             FailRun
  <1> QED
    BY <1>1, <1>2, EngineInitType, EngineNextType, PTL DEF EngineSpec

\* No commit is refused for the type of a proposal under the playbook that the seed
\* installs, whatever the facts; the LEP playbook also proposes types that the
\* opportunities table does not have (TypeOf).
THEOREM SeedNeverRefused ==
  \A f : \A p \in Proposals(SeedPlaybook, f) : p.type \in opportunityTypeEnum
  <1> SUFFICES ASSUME NEW f, NEW p \in Proposals(SeedPlaybook, f)
               PROVE  p.type \in opportunityTypeEnum
    OBVIOUS
  <1>1. PICK i \in DOMAIN SeedPlaybook : p = [rule |-> i, type |-> TypeOf(SeedPlaybook[i])]
    BY DEF Proposals
  <1>2. SeedPlaybook[i].evaluator = "progressionFraction"
    BY DEF SeedPlaybook, Rule
  <1> QED
    BY <1>1, <1>2 DEF TypeOf, opportunityTypeEnum

-----------------------------------------------------------------------------
(* A run on a replaced sentence is marked, unless the mark came too early *)

\* An evaluation that has read a sentence replaced since still has the job ahead of
\* it, or has been overtaken: so its run will be marked, or is excused.
ReadersRaced ==
  \A e \in Requests : \A s \in Sentences :
    request[e] # NoRequest /\ request[e].sentence = s /\ sentence[s] = "superseded"
      => <<"sentence.superseded", s>> \in changes \/ request[e].overtaken
RaceInv == ReadersRaced /\ MarkedOrRaced

\* What RaceInv says of one evaluation and of one run.
Raced(r, s) ==
  r.sentence = s /\ sentence[s] = "superseded"
    => <<"sentence.superseded", s>> \in changes \/ r.overtaken
MarkedRun(run, s) ==
  <<"sentence", s>> \in run.dependencies \ run.stale /\ sentence[s] = "superseded"
    => <<"sentence.superseded", s>> \in changes \/ run.read.overtaken
RacedBy(e, s) == Raced(request[e], s)
MarkedAt(i, s) == MarkedRun(engineRuns[i], s)
LEMMA RaceParts ==
  RaceInv <=> /\ \A e \in Requests : request[e] # NoRequest
                   => \A s \in Sentences : Raced(request[e], s)
              /\ \A i \in DOMAIN engineRuns : \A s \in Sentences : MarkedRun(engineRuns[i], s)
  BY DEF RaceInv, ReadersRaced, MarkedOrRaced, Raced, MarkedRun

\* People replace a sentence and record it in the same transaction.
LEMMA PeopleRace ==
  ASSUME EngineTypeOK, RaceInv,
         \/ \E s \in Sentences : ConfirmSentence(s) \/ \E x \in Contents : ProposeSentence(s, x)
         \/ \E s, t \in Sentences, x \in Contents : SupersedeSentence(s, t, x)
         \/ \E c \in Custodies : ProposeCustody(c) \/ ConfirmCustody(c)
         \/ \E c, d \in Custodies : SupersedeCustody(c, d)
         \/ \E i \in 1..Moments, k \in EventKinds \ {"none"} : AppendEvent(i, k)
  PROVE  RaceInv'
  <1>1. UNCHANGED <<request, engineRuns>>
    BY PeopleType
  <1>2. changes \subseteq changes'
    BY DEF ConfirmSentence, ProposeSentence, SupersedeSentence, ProposeCustody, ConfirmCustody,
           SupersedeCustody, AppendEvent
  <1>3. ASSUME NEW s \in Sentences, sentence'[s] = "superseded"
        PROVE  sentence[s] = "superseded" \/ <<"sentence.superseded", s>> \in changes'
    BY <1>3 DEF ConfirmSentence, ProposeSentence, SupersedeSentence, ProposeCustody, ConfirmCustody,
                SupersedeCustody, AppendEvent, EngineTypeOK, SupersededNames
  <1> QED
    BY <1>1, <1>2, <1>3 DEF RaceInv, ReadersRaced, MarkedOrRaced

\* An evaluation reads a sentence that is confirmed at that moment, and its run has
\* the sentence it read.
LEMMA EvaluationRace ==
  ASSUME EngineTypeOK, RaceInv, NEW e \in Requests, AnswerRequest(e)
  PROVE  RaceInv'
  <1>1. UNCHANGED <<sentence, changes>>
    BY DEF AnswerRequest, StartEvaluation, ReadSentence, ReadCustody, ReadTimeline, CommitRun,
           FailRun, caseRows
  <1>2. ASSUME engineRuns' = engineRuns,
               \A q \in Requests : q # e => request'[q] = request[q],
               request'[e] # NoRequest => \A s \in Sentences : Raced(request'[e], s)
        PROVE  RaceInv'
    BY <1>1, <1>2 DEF RaceInv, ReadersRaced, MarkedOrRaced, Raced
  <1>3. ASSUME NEW h \in Sentences \cup {0}, StartEvaluation(e, h)
        PROVE  RaceInv'
    <2>1. request'[e].sentence = 0 /\ \A q \in Requests : q # e => request'[q] = request[q]
      BY <1>3 DEF StartEvaluation, EngineTypeOK
    <2>2. \A s \in Sentences : Raced(request'[e], s)
      BY <2>1, EngineAssumption DEF Raced
    <2> QED
      BY <1>2, <1>3, <2>1, <2>2 DEF StartEvaluation
  <1>4. CASE ReadSentence(e)
    <2>1. /\ request[e] \in Readings
          /\ request'[e] = [request[e] EXCEPT !.done = @ \cup {"sentence"},
                                              !.sentence = Newest(LoadedSentences)]
          /\ \A q \in Requests : q # e => request'[q] = request[q]
      BY <1>4, RequestShape DEF ReadSentence, Pending, EngineTypeOK
    <2>2. request'[e].sentence \in LoadedSentences \cup {0}
      BY <2>1, LoadedShape DEF Readings
    <2>3. \A s \in Sentences : Raced(request'[e], s)
      BY <2>2, EngineAssumption DEF Raced, LoadedSentences
    <2> QED
      BY <1>2, <1>4, <2>1, <2>3 DEF ReadSentence
  <1>5. CASE ReadCustody(e) \/ ReadTimeline(e)
    <2>1. request[e] # NoRequest /\ request[e] \in Readings /\ engineRuns' = engineRuns
      BY <1>5, RequestShape DEF ReadCustody, ReadTimeline, Pending
    <2>2. /\ request'[e].sentence = request[e].sentence
          /\ request'[e].overtaken = request[e].overtaken
          /\ \A q \in Requests : q # e => request'[q] = request[q]
      BY <1>5, <2>1 DEF ReadCustody, ReadTimeline, EngineTypeOK, Readings
    <2>3. \A s \in Sentences : Raced(request'[e], s)
      BY <2>1, <2>2, RaceParts DEF Raced
    <2> QED
      BY <1>2, <2>1, <2>2, <2>3
  <1>6. CASE CommitRun(e)
    <2>1. /\ request[e] # NoRequest /\ request'[e] = NoRequest
          /\ \A q \in Requests : q # e => request'[q] = request[q]
      BY <1>6 DEF CommitRun, HasRead, EngineTypeOK
    <2>2. ASSUME NEW s \in Sentences PROVE MarkedRun(NewRun(e), s)
      <3>1. /\ NewRun(e).read = request[e]
            /\ NewRun(e).dependencies = buildDependencies(request[e])
        BY DEF NewRun
      <3>2. <<"sentence", s>> \in buildDependencies(request[e]) => request[e].sentence = s
        BY DEF buildDependencies
      <3>3. Raced(request[e], s)
        BY <2>1, RaceParts
      <3> QED
        BY <3>1, <3>2, <3>3 DEF MarkedRun, Raced
    <2>3. \A i \in DOMAIN engineRuns' :
            \/ i \in DOMAIN engineRuns /\ engineRuns'[i] = engineRuns[i]
            \/ engineRuns'[i] = NewRun(e)
      BY <1>6, RunsGrow
    <2>4. ASSUME NEW i \in DOMAIN engineRuns', NEW s \in Sentences
          PROVE  MarkedRun(engineRuns'[i], s)
      BY <2>2, <2>3, RaceParts
    <2>5. MarkedOrRaced'
      BY <1>1, <2>4 DEF MarkedOrRaced, MarkedRun
    <2>6. ReadersRaced'
      BY <1>1, <2>1 DEF RaceInv, ReadersRaced
    <2> QED
      BY <2>5, <2>6 DEF RaceInv
  <1>7. CASE FailRun(e)
    <2>1. request'[e] = NoRequest /\ \A q \in Requests : q # e => request'[q] = request[q]
      BY <1>7 DEF FailRun, EngineTypeOK
    <2> QED
      BY <1>2, <1>7, <2>1 DEF FailRun
  <1> QED
    BY <1>3, <1>4, <1>5, <1>6, <1>7 DEF AnswerRequest

\* A job that is gone has marked the runs committed and overtaken the others.
LEMMA InvalidateRace ==
  ASSUME EngineTypeOK, RaceInv, NEW change \in changes, Invalidate(change)
  PROVE  RaceInv'
  <1>1. sentence' = sentence /\ \A x \in changes : x # change => x \in changes'
    BY DEF Invalidate, caseRows
  <1>2. ASSUME NEW e \in Requests, NEW s \in Sentences, request'[e] # NoRequest
        PROVE  RacedBy(e, s)'
    <2>1. request[e] # NoRequest /\ request[e] \in Readings
      BY <1>2, MarkedShape, RequestShape
    <2>2. /\ request'[e].sentence = request[e].sentence
          /\ request[e].overtaken => request'[e].overtaken
      BY <2>1, MarkedShape DEF Readings
    <2>3. request[e].sentence = s /\ change = <<"sentence.superseded", s>>
            => request'[e].overtaken
      BY <2>1 DEF Invalidate, Readings
    <2> QED
      BY <1>1, <2>1, <2>2, <2>3, RaceParts DEF RacedBy, Raced
  <1>3. ASSUME NEW i \in DOMAIN engineRuns', NEW s \in Sentences
        PROVE  MarkedAt(i, s)'
    <2>1. /\ i \in DOMAIN engineRuns /\ engineRuns'[i].read = engineRuns[i].read
          /\ engineRuns'[i].dependencies = engineRuns[i].dependencies
          /\ engineRuns'[i].stale =
               engineRuns[i].stale \cup (engineRuns[i].dependencies \cap {Concerns(change)})
      BY <1>3, MarkedShape
    <2>2. change = <<"sentence.superseded", s>> => Concerns(change) = <<"sentence", s>>
      BY DEF Concerns
    <2>3. MarkedRun(engineRuns[i], s)
      BY <2>1, RaceParts
    <2> QED
      BY <1>1, <2>1, <2>2, <2>3 DEF MarkedAt, MarkedRun
  <1> QED
    BY <1>2, <1>3 DEF RaceInv, ReadersRaced, MarkedOrRaced, RacedBy, MarkedAt, Raced, MarkedRun

\* However evaluations, replacements and jobs interleave, an unmarked run on a replaced
\* sentence still has its job to come, or was being evaluated when that job was handled.
THEOREM MarkedOrRacedHolds == EngineSpec => []MarkedOrRaced
  <1>1. EngineInit => RaceInv
    BY DEF EngineInit, RaceInv, ReadersRaced, MarkedOrRaced
  <1>2. EngineTypeOK /\ RaceInv /\ [EngineNext]_engineVars => RaceInv'
    <2> SUFFICES ASSUME EngineTypeOK, RaceInv, [EngineNext]_engineVars PROVE RaceInv'
      OBVIOUS
    <2>1. CASE UNCHANGED engineVars
      BY <2>1 DEF engineVars, caseRows, RaceInv, ReadersRaced, MarkedOrRaced
    <2> QED
      BY <2>1, PeopleRace, EvaluationRace, InvalidateRace DEF EngineNext
  <1>3. RaceInv => MarkedOrRaced
    BY DEF RaceInv
  <1> QED
    BY <1>1, <1>2, <1>3, EngineInitType, EngineNextType, PTL DEF EngineSpec
=============================================================================
