--------------------------- MODULE DeadlineProofs ---------------------------
(***************************************************************************)
(* Proofs about DeadlineLifecycle for any deadlines, requests, sweeps and   *)
(* faults: what its history can be trusted for although requests act on     *)
(* stale reads.                                                             *)
(***************************************************************************)
EXTENDS DeadlineLifecycle, TLAPS

\* A status from which a row of deadline d's history may start, the row
\* standing after the first n.
Reached(d, before, n) ==
  /\ before \notin Terminal
  /\ before = "open" \/ \E j \in 1..n : history[d][j].next = before

\* What a request read in the past is still in the history.
ReadReached ==
  \A r \in Requests :
    request[r] # Idle =>
      Reached(request[r].deadline, request[r].previous, Len(history[request[r].deadline]))

\* Nobody has decided on an open deadline yet.
OpenUntouched == \A d \in Deadlines : status[d] \in {"none", "open"} => history[d] = <<>>

IInv ==
  /\ TypeOK
  /\ HistoryTrail
  /\ LegalTrail
  /\ OverdueFirst
  /\ OpenUntouched
  /\ ReadReached

Row == [previous : Statuses, next : EventKinds]

-----------------------------------------------------------------------------
\* Appending a row keeps the rows before it and makes it the last.
LEMMA AppendRow ==
  ASSUME NEW s \in Seq(Row), NEW x \in Row
  PROVE  /\ Append(s, x) \in Seq(Row)
         /\ Append(s, x) # <<>>
         /\ Len(Append(s, x)) = Len(s) + 1
         /\ Len(s) \in Nat
         /\ \A i \in 1..Len(s) : Append(s, x)[i] = s[i]
         /\ Append(s, x)[Len(s) + 1] = x
  OBVIOUS

\* The invariant holds before the first deadline.
LEMMA InitInv == Init => IInv
  BY DeadlineAssumption, SMT
  DEF Init, IInv, TypeOK, HistoryTrail, LegalTrail, OverdueFirst, OpenUntouched, ReadReached,
      Trail, Told, NoWork, Idle, Statuses, EventKinds, Terminal, EntryStates, AllEvents

-----------------------------------------------------------------------------
\* Every step keeps the types.
LEMMA NextTypes == TypeOK /\ [Next]_vars => TypeOK'
<1> SUFFICES ASSUME TypeOK, [Next]_vars PROVE TypeOK'
  OBVIOUS
<1> USE DEF TypeOK
<1>t. ASSUME NEW d \in Deadlines, NEW previous \in Statuses, NEW next \in EventKinds,
             Transition(d, previous, next)
      PROVE  /\ status' \in [Deadlines -> {"none"} \cup Statuses]
             /\ history' \in [Deadlines -> Seq([previous : Statuses, next : EventKinds])]
             /\ pending' \subseteq AllEvents
             /\ pending \subseteq pending'
  <2>1. history[d] \in Seq(Row) /\ [previous |-> previous, next |-> next] \in Row
    BY DEF Row
  <2>2. Append(history[d], [previous |-> previous, next |-> next]) \in Seq(Row)
    BY <2>1, AppendRow
  <2>3. status' \in [Deadlines -> {"none"} \cup Statuses]
    BY <1>t DEF Transition, EventKinds
  <2>4. history' \in [Deadlines -> Seq([previous : Statuses, next : EventKinds])]
    BY <1>t, <2>2 DEF Transition, Row
  <2>5. pending' \subseteq AllEvents /\ pending \subseteq pending'
    BY <1>t DEF Transition, AllEvents
  <2> QED
    BY <2>3, <2>4, <2>5
<1>f. Fault => faults' \in 0..MaxFaults
  BY DeadlineAssumption DEF Fault
<1>j. ASSUME NEW e \in AllEvents, JobDone(e)
      PROVE  pending' \subseteq pending /\ pending \ {e} \subseteq pending' /\ faults' \in 0..MaxFaults
  BY <1>j, <1>f DEF JobDone
<1>1. ASSUME NEW d \in Deadlines, Create(d) PROVE TypeOK'
  BY <1>1 DEF Create, Statuses, queues
<1>2. ASSUME NEW d \in Deadlines, PassDue(d) PROVE TypeOK'
  BY <1>2 DEF PassDue, record, queues
<1>3. ASSUME NEW d \in Deadlines, Supersede(d) PROVE TypeOK'
  BY <1>3 DEF Supersede, Statuses, Terminal, queues
<1>4. ASSUME NEW r \in Requests, NEW d \in Deadlines, NEW target \in Targets,
             ReadDeadline(r, d, target)
      PROVE  TypeOK'
  <2>1. [at |-> "write", deadline |-> d, previous |-> status[d], target |-> target] \in Reading
    BY <1>4 DEF ReadDeadline, Reading
  <2> QED
    BY <1>4, <2>1 DEF ReadDeadline, record, queues
<1>5. ASSUME NEW r \in Requests, WriteDeadline(r) PROVE TypeOK'
  <2>1. request[r] \in Reading
    BY <1>5 DEF WriteDeadline
  <2>2. /\ request[r].deadline \in Deadlines
        /\ request[r].previous \in Statuses
        /\ request[r].target \in EventKinds
    BY <2>1 DEF Reading, Targets, EventKinds, Statuses, Terminal
  <2>3. Transition(request[r].deadline, request[r].previous, request[r].target)
    BY <1>5 DEF WriteDeadline
  <2>4. request' \in [Requests -> {Idle} \cup Reading]
    BY <1>5 DEF WriteDeadline
  <2>5. /\ status' \in [Deadlines -> {"none"} \cup Statuses]
        /\ history' \in [Deadlines -> Seq([previous : Statuses, next : EventKinds])]
        /\ pending' \subseteq AllEvents
        /\ pending \subseteq pending'
    BY <1>t, <2>2, <2>3
  <2> QED
    BY <1>5, <2>4, <2>5 DEF WriteDeadline, queues
<1>6. ASSUME NEW r \in Requests, AbandonRequest(r) PROVE TypeOK'
  BY <1>6 DEF AbandonRequest, record, queues
<1>7. ASSUME NEW s \in Sweeps, BeginSweep(s) PROVE TypeOK'
  <2>1. PICK batch \in SUBSET Overdue :
          sweep' = [sweep EXCEPT ![s] = [todo |-> batch, projecting |-> {}]]
    BY <1>7 DEF BeginSweep
  <2>2. sweep' \in [Sweeps -> [todo : SUBSET Deadlines, projecting : SUBSET Deadlines]]
    BY <2>1 DEF Overdue
  <2> QED
    BY <1>7, <2>2 DEF BeginSweep, record, queues
<1>8. ASSUME NEW s \in Sweeps, NEW d \in Deadlines, SweepTransition(s, d) PROVE TypeOK'
  <2>1. /\ status' \in [Deadlines -> {"none"} \cup Statuses]
        /\ history' \in [Deadlines -> Seq([previous : Statuses, next : EventKinds])]
        /\ pending' \subseteq AllEvents
        /\ pending \subseteq pending'
    <3>1. CASE SweepMatches(d)
      <4>1. "open" \in Statuses /\ "overdue" \in EventKinds
        BY DEF Statuses, EventKinds
      <4> QED
        BY <1>8, <1>t, <3>1, <4>1 DEF SweepTransition
    <3>2. CASE ~SweepMatches(d)
      BY <1>8, <3>2 DEF SweepTransition, SweepMiss, record
    <3> QED
      BY <3>1, <3>2
  <2>2. sweep' \in [Sweeps -> [todo : SUBSET Deadlines, projecting : SUBSET Deadlines]]
    BY <1>8 DEF SweepTransition
  <2> QED
    BY <1>8, <2>1, <2>2 DEF SweepTransition, queues
<1>9. ASSUME NEW s \in Sweeps, NEW d \in Deadlines, SweepProject(s, d) PROVE TypeOK'
  BY <1>9 DEF SweepProject, record, EntryStates
<1>10. ASSUME NEW s \in Sweeps, NEW d \in Deadlines, SweepSkips(s, d) PROVE TypeOK'
  <2>1. sweep' \in [Sweeps -> [todo : SUBSET Deadlines, projecting : SUBSET Deadlines]]
    <3>1. sweep[s] \in [todo : SUBSET Deadlines, projecting : SUBSET Deadlines]
      OBVIOUS
    <3>2. [todo |-> sweep[s].todo \ {d}, projecting |-> {}]
            \in [todo : SUBSET Deadlines, projecting : SUBSET Deadlines]
      BY <3>1
    <3>3. [todo |-> sweep[s].todo, projecting |-> {}]
            \in [todo : SUBSET Deadlines, projecting : SUBSET Deadlines]
      BY <3>1
    <3> QED
      BY <1>10, <3>2, <3>3 DEF SweepSkips
  <2>2. faults' \in 0..MaxFaults
    BY <1>10, <1>f DEF SweepSkips
  <2> QED
    BY <1>10, <2>1, <2>2 DEF SweepSkips, record, queues
<1>11. ASSUME NEW s \in Sweeps, SweepDies(s) PROVE TypeOK'
  BY <1>11, <1>f DEF SweepDies, NoWork, record, queues
<1>12. ASSUME NEW e \in AllEvents, HandleAcknowledged(e) PROVE TypeOK'
  <2>1. half \subseteq {x \in pending \ {e} : x.kind \in Terminal}
    BY <1>12 DEF HandleAcknowledged, Terminal
  <2> QED
    BY <1>12, <1>j, <2>1 DEF HandleAcknowledged, record, EntryStates, AllEvents
<1>13. ASSUME NEW e \in AllEvents, HandleOverdue(e) PROVE TypeOK'
  <2>1. half \subseteq {x \in pending \ {e} : x.kind \in Terminal}
    BY <1>13 DEF HandleOverdue, Terminal
  <2> QED
    BY <1>13, <1>j, <2>1 DEF HandleOverdue, ListOverdue, record, EntryStates, AllEvents
<1>14. ASSUME NEW e \in AllEvents, ResolveTasks(e) PROVE TypeOK'
  BY <1>14 DEF ResolveTasks, Resolved, record, EntryStates, AllEvents
<1>15. ASSUME NEW e \in AllEvents, ResolveOverdue(e) PROVE TypeOK'
  <2>1. half' \subseteq {x \in pending' : x.kind \in Terminal}
    BY <1>15, <1>j DEF ResolveOverdue
  <2> QED
    BY <1>15, <1>j, <2>1 DEF ResolveOverdue, Resolved, record, EntryStates, AllEvents
<1>16. ASSUME NEW e \in AllEvents, ConsumerDies(e) PROVE TypeOK'
  BY <1>16, <1>f DEF ConsumerDies, record, queues
<1>17. CASE UNCHANGED vars
  BY <1>17 DEF vars, record, queues
<1> QED
  BY <1>1, <1>2, <1>3, <1>4, <1>5, <1>6, <1>7, <1>8, <1>9, <1>10, <1>11, <1>12, <1>13, <1>14,
     <1>15, <1>16, <1>17
  DEF Next, Sweep, Handle

-----------------------------------------------------------------------------
\* A transition recorded from a status the deadline was in keeps the history
\* sound, whether or not that status is still the current one.
LEMMA TransitionKeeps ==
  ASSUME IInv, TypeOK',
         NEW d \in Deadlines, NEW previous \in Statuses, NEW next \in EventKinds,
         Transition(d, previous, next),
         Reached(d, previous, Len(history[d])),
         next = "overdue" => history[d] = <<>>,
         \A r \in Requests : request'[r] \in {request[r], Idle}
  PROVE  IInv'
<1> DEFINE row == [previous |-> previous, next |-> next]
<1>1. history[d] \in Seq(Row) /\ row \in Row
  BY DEF IInv, TypeOK, Row
<1>2. /\ history' = [history EXCEPT ![d] = Append(history[d], row)]
      /\ status' = [status EXCEPT ![d] = next]
      /\ history \in [Deadlines -> Seq([previous : Statuses, next : EventKinds])]
      /\ status \in [Deadlines -> {"none"} \cup Statuses]
  BY DEF IInv, TypeOK, Transition
<1>3. /\ history'[d] = Append(history[d], row)
      /\ status'[d] = next
      /\ \A f \in Deadlines \ {d} : history'[f] = history[f] /\ status'[f] = status[f]
  BY <1>2
<1> HIDE DEF row
<1>4. /\ history'[d] # <<>>
      /\ Len(history'[d]) = Len(history[d]) + 1
      /\ Len(history[d]) \in Nat
      /\ \A i \in 1..Len(history[d]) : history'[d][i] = history[d][i]
      /\ history'[d][Len(history[d]) + 1] = row
  BY <1>1, <1>3, AppendRow
<1>5. row.previous = previous /\ row.next = next
  BY DEF row
<1>6. HistoryTrail'
  <2>1. status'[d] = Told(d)'
    BY <1>3, <1>4, <1>5 DEF Told
  <2>2. \A f \in Deadlines \ {d} : Told(f)' = Told(f)
    BY <1>3 DEF Told
  <2> QED
    BY <1>3, <2>1, <2>2 DEF IInv, HistoryTrail
<1>7. LegalTrail'
  <2> SUFFICES ASSUME NEW f \in Deadlines, NEW i \in 1..Len(history'[f])
               PROVE  /\ history'[f][i].previous \notin Terminal
                      /\ \/ history'[f][i].previous = "open"
                         \/ \E j \in 1..(i - 1) : history'[f][j].next = history'[f][i].previous
    BY DEF LegalTrail, Trail
  <2>1. CASE f # d
    BY <1>3, <2>1 DEF IInv, LegalTrail, Trail
  <2>2. CASE f = d /\ i \in 1..Len(history[d])
    <3>1. history'[d][i] = history[d][i] /\ \A j \in 1..(i - 1) : history'[d][j] = history[d][j]
      BY <1>4, <2>2
    <3>2. /\ history[d][i].previous \notin Terminal
          /\ \/ history[d][i].previous = "open"
             \/ \E j \in 1..(i - 1) : history[d][j].next = history[d][i].previous
      BY <2>2 DEF IInv, LegalTrail, Trail
    <3> QED
      BY <2>2, <3>1, <3>2
  <2>3. CASE f = d /\ i = Len(history[d]) + 1
    BY <1>4, <1>5, <2>3 DEF Reached
  <2> QED
    BY <1>4, <2>1, <2>2, <2>3
<1>8. OverdueFirst'
  <2> SUFFICES ASSUME NEW f \in Deadlines, NEW i \in 1..Len(history'[f]),
                      history'[f][i].next = "overdue"
               PROVE  i = 1
    BY DEF OverdueFirst, Trail
  <2>1. CASE f # d
    BY <1>3, <2>1 DEF IInv, OverdueFirst, Trail
  <2>2. CASE f = d /\ i \in 1..Len(history[d])
    BY <1>4, <2>2 DEF IInv, OverdueFirst, Trail
  <2>3. CASE f = d /\ i = Len(history[d]) + 1
    <3>1. history[d] = <<>>
      BY <1>4, <1>5, <2>3
    <3> QED
      BY <2>3, <3>1
  <2> QED
    BY <1>4, <2>1, <2>2, <2>3
<1>9. OpenUntouched'
  BY <1>3 DEF IInv, OpenUntouched, EventKinds, Statuses, Terminal
<1>10. ReadReached'
  <2> SUFFICES ASSUME NEW r \in Requests, request'[r] # Idle
               PROVE  Reached(request[r].deadline, request[r].previous,
                              Len(history[request[r].deadline]))'
    BY DEF ReadReached
  <2>1. request'[r] = request[r] /\ request[r] \in Reading
    BY DEF IInv, TypeOK
  <2> DEFINE f == request[r].deadline
             b == request[r].previous
  <2>2. f \in Deadlines /\ Reached(f, b, Len(history[f]))
    BY <2>1 DEF IInv, ReadReached, Reading
  <2>3. \A j \in 1..Len(history[f]) : j \in 1..Len(history'[f]) /\ history'[f][j] = history[f][j]
    <3>1. CASE f = d
      BY <1>4, <3>1
    <3>2. CASE f # d
      BY <1>3, <2>2, <3>2
    <3> QED
      BY <3>1, <3>2
  <2>4. request'[r].deadline = f /\ request'[r].previous = b
    BY <2>1
  <2> HIDE DEF f, b
  <2>5. b \notin Terminal /\ (b = "open" \/ \E j \in 1..Len(history'[f]) : history'[f][j].next = b)
    BY <2>2, <2>3 DEF Reached
  <2> QED
    BY <2>4, <2>5 DEF Reached
<1> QED
  BY <1>6, <1>7, <1>8, <1>9, <1>10 DEF IInv

\* A step that leaves the records alone and starts no request keeps them sound.
LEMMA OthersKeep ==
  ASSUME IInv, TypeOK', UNCHANGED record,
         \A r \in Requests : request'[r] \in {request[r], Idle}
  PROVE  IInv'
<1>1. status' = status /\ history' = history
  BY DEF record
<1>2. HistoryTrail' /\ LegalTrail' /\ OverdueFirst' /\ OpenUntouched'
  BY <1>1 DEF IInv, HistoryTrail, LegalTrail, OverdueFirst, OpenUntouched, Trail, Told
<1>3. ReadReached'
  BY <1>1 DEF IInv, ReadReached, Reached
<1> QED
  BY <1>2, <1>3 DEF IInv

\* Every action keeps the invariant: the two that record a transition, the
\* one that reads a status, the two that set a status without a record, and
\* the rest.
LEMMA NextInv == IInv /\ [Next]_vars => IInv'
<1> SUFFICES ASSUME IInv, [Next]_vars PROVE IInv'
  OBVIOUS
<1>t. TypeOK'
  BY NextTypes DEF IInv
<1>1. ASSUME NEW d \in Deadlines, Create(d) \/ Supersede(d) PROVE IInv'
  <2>1. history' = history /\ request' = request
    BY <1>1 DEF Create, Supersede
  <2>2. status[d] \in {"none", "open"} /\ history[d] = <<>>
    BY <1>1 DEF Create, Supersede, IInv, OpenUntouched
  <2>3. \A f \in Deadlines \ {d} : status'[f] = status[f]
    BY <1>1 DEF Create, Supersede, IInv, TypeOK
  <2>4. status'[d] = "open" \/ (d \in Rules /\ status'[d] = "dismissed")
    BY <1>1 DEF Create, Supersede, IInv, TypeOK
  <2>5. HistoryTrail'
    BY <2>1, <2>2, <2>3, <2>4 DEF IInv, HistoryTrail, Told
  <2>6. OpenUntouched'
    BY <2>1, <2>2, <2>3 DEF IInv, OpenUntouched
  <2>7. LegalTrail' /\ OverdueFirst' /\ ReadReached'
    BY <2>1 DEF IInv, LegalTrail, OverdueFirst, ReadReached, Reached, Trail
  <2> QED
    BY <1>t, <2>5, <2>6, <2>7 DEF IInv
<1>2. ASSUME NEW r \in Requests, NEW d \in Deadlines, NEW target \in Targets,
             ReadDeadline(r, d, target)
      PROVE  IInv'
  <2>1. /\ status' = status /\ history' = history
        /\ status[d] \notin Terminal /\ status[d] # "none"
        /\ request' = [request EXCEPT ![r] =
             [at |-> "write", deadline |-> d, previous |-> status[d], target |-> target]]
    BY <1>2 DEF ReadDeadline, Allowed, record
  <2>2. HistoryTrail' /\ LegalTrail' /\ OverdueFirst' /\ OpenUntouched'
    BY <2>1 DEF IInv, HistoryTrail, LegalTrail, OverdueFirst, OpenUntouched, Trail, Told
  <2>3. Reached(d, status[d], Len(history[d]))
    <3>1. status[d] = Told(d)
      BY <2>1 DEF IInv, HistoryTrail, Terminal
    <3>2. history[d] # <<>> => Len(history[d]) \in 1..Len(history[d])
      BY DEF IInv, TypeOK
    <3> QED
      BY <2>1, <3>1, <3>2 DEF Reached, Told
  <2>4. \A q \in Requests \ {r} : request'[q] = request[q]
    BY <2>1 DEF IInv, TypeOK
  <2>5. request'[r].deadline = d /\ request'[r].previous = status[d]
    BY <2>1 DEF IInv, TypeOK
  <2>6. ReadReached'
    BY <2>1, <2>3, <2>4, <2>5 DEF IInv, ReadReached, Reached
  <2> QED
    BY <1>t, <2>2, <2>6 DEF IInv
<1>3. ASSUME NEW r \in Requests, WriteDeadline(r) PROVE IInv'
  <2>1. request[r] \in Reading /\ request[r] # Idle
    BY <1>3 DEF WriteDeadline, IInv, TypeOK
  <2>2. /\ request[r].deadline \in Deadlines
        /\ request[r].previous \in Statuses
        /\ request[r].target \in EventKinds
        /\ request[r].target # "overdue"
    BY <2>1 DEF Reading, Targets, EventKinds, Statuses, Terminal
  <2>3. Transition(request[r].deadline, request[r].previous, request[r].target)
    BY <1>3 DEF WriteDeadline
  <2>4. Reached(request[r].deadline, request[r].previous, Len(history[request[r].deadline]))
    BY <2>1 DEF IInv, ReadReached
  <2>5. \A q \in Requests : request'[q] \in {request[q], Idle}
    BY <1>3 DEF WriteDeadline, IInv, TypeOK
  <2> QED
    BY <1>t, <2>2, <2>3, <2>4, <2>5, TransitionKeeps
<1>4. ASSUME NEW s \in Sweeps, NEW d \in Deadlines, SweepTransition(s, d) PROVE IInv'
  <2>1. request' = request
    BY <1>4 DEF SweepTransition
  <2>2. CASE SweepMatches(d)
    <3>1. Transition(d, "open", "overdue") /\ history[d] = <<>>
      BY <1>4, <2>2 DEF SweepTransition, SweepMatches, IInv, OpenUntouched
    <3>2. "open" \in Statuses /\ "overdue" \in EventKinds /\ Reached(d, "open", Len(history[d]))
      BY DEF Statuses, EventKinds, Reached, Terminal
    <3> QED
      BY <1>t, <2>1, <3>1, <3>2, TransitionKeeps
  <2>3. CASE ~SweepMatches(d)
    BY <1>4, <1>t, <2>1, <2>3, OthersKeep DEF SweepTransition, SweepMiss, record
  <2> QED
    BY <2>2, <2>3
<1>5. ASSUME UNCHANGED record, \A r \in Requests : request'[r] \in {request[r], Idle}
      PROVE  IInv'
  BY <1>5, <1>t, OthersKeep
<1>6. ASSUME NEW r \in Requests, AbandonRequest(r) PROVE IInv'
  BY <1>5, <1>6 DEF AbandonRequest, IInv, TypeOK
<1>7. ASSUME NEW d \in Deadlines, PassDue(d) PROVE IInv'
  BY <1>5, <1>7 DEF PassDue
<1>8. ASSUME NEW s \in Sweeps, BeginSweep(s) \/ SweepDies(s) PROVE IInv'
  BY <1>5, <1>8 DEF BeginSweep, SweepDies
<1>9. ASSUME NEW s \in Sweeps, NEW d \in Deadlines, SweepProject(s, d) \/ SweepSkips(s, d)
      PROVE  IInv'
  BY <1>5, <1>9 DEF SweepProject, SweepSkips
<1>10. ASSUME NEW e \in AllEvents, Handle(e) \/ ConsumerDies(e) PROVE IInv'
  BY <1>5, <1>10
  DEF Handle, HandleAcknowledged, HandleOverdue, ResolveTasks, ResolveOverdue, ConsumerDies
<1>11. CASE UNCHANGED vars
  BY <1>5, <1>11 DEF vars
<1> QED
  BY <1>1, <1>2, <1>3, <1>4, <1>6, <1>7, <1>8, <1>9, <1>10, <1>11 DEF Next, Sweep

-----------------------------------------------------------------------------
\* Every reachable state of the deadlines satisfies the invariant.
THEOREM InvariantHolds == Spec => []IInv
  BY InitInv, NextInv, PTL DEF Spec

\* The types hold for any number of deadlines, requests and sweeps.
THEOREM TypeCorrect == Spec => []TypeOK
<1>1. IInv => TypeOK
  BY DEF IInv
<1> QED
  BY <1>1, InvariantHolds, PTL

\* However many requests race, the last history row names the status, save
\* for a deadline a re-analysis dismissed.
THEOREM HistoryTrailHolds == Spec => []HistoryTrail
<1>1. IInv => HistoryTrail
  BY DEF IInv
<1> QED
  BY <1>1, InvariantHolds, PTL

\* No history row starts from a terminal status or from one never reached.
THEOREM LegalTrailHolds == Spec => []LegalTrail
<1>1. IInv => LegalTrail
  BY DEF IInv
<1> QED
  BY <1>1, InvariantHolds, PTL

\* However many sweeps race, a deadline becomes overdue at most once and
\* before any decision.
THEOREM OverdueFirstHolds == Spec => []OverdueFirst
<1>1. IInv => OverdueFirst
  BY DEF IInv
<1> QED
  BY <1>1, InvariantHolds, PTL
=============================================================================
