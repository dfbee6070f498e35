---------------------------- MODULE OutboxProofs ----------------------------
(***************************************************************************)
(* Machine-checked facts about Outbox, for any set of events and relays and *)
(* any value of the bounds: its safety invariants and the fact that it      *)
(* implements the safety part of EventLog.                                  *)
(***************************************************************************)
EXTENDS Outbox, TLAPS

\* Row locks exclude: no row is in two open cycles.
Exclusive ==
  \A r1, r2 \in Relays : r1 # r2 => batch[r1] \cap batch[r2] = {}

\* A locked row is pending and has a try left: nobody else can mark it.
BatchPending ==
  \A r \in Relays : \A e \in batch[r] :
    status[e] = "pending" /\ retryCount[e] < MaxRetries

\* The two lists of a cycle are disjoint, only sends can fail, and what the
\* cycle will mark published has its job if it needs one.
ListsOK ==
  \A r \in Relays :
    /\ published[r] \cap failed[r] = {}
    /\ failed[r] \subseteq Consumed
    /\ \A e \in published[r] : e \in Consumed => jobs[e] > 0

Tried(e) == \E r \in Relays : e \in published[r] \cup failed[r]

\* DuplicatesAccounted, sharpened for the rows no open cycle has sent yet.
UntriedJobs ==
  \A e \in Events : status[e] = "pending" /\ ~Tried(e) =>
    jobs[e] <= crashes + retryCount[e]

IInv ==
  /\ TypeOK
  /\ RetryBudget
  /\ Exclusive
  /\ BatchPending
  /\ ListsOK
  /\ UntriedJobs
  /\ DuplicatesAccounted

-----------------------------------------------------------------------------
\* No row is out of tries at the start, since MAX_RETRIES is not zero.
LEMMA InitInv == Init => IInv
  <1> SUFFICES ASSUME Init PROVE IInv
    OBVIOUS
  <1> USE OutboxAssumption DEF Init
  <1>1. TypeOK
    BY DEF TypeOK, Statuses
  <1>2. RetryBudget
    BY DEF RetryBudget
  <1>3. Exclusive /\ BatchPending /\ ListsOK
    BY DEF Exclusive, BatchPending, ListsOK
  <1>4. UntriedJobs /\ DuplicatesAccounted
    BY DEF UntriedJobs, DuplicatesAccounted, JobAllowance
  <1> QED
    BY <1>1, <1>2, <1>3, <1>4 DEF IInv

\* A new row is in no batch and has no job.
LEMMA RecordInv ==
  ASSUME IInv, NEW e \in Events, Record(e)
  PROVE  IInv'
  <1> USE OutboxAssumption DEF IInv, Record, table, cycle
  <1>1. TypeOK'
    BY DEF TypeOK, Statuses
  <1>2. RetryBudget'
    BY DEF TypeOK, RetryBudget
  <1>3. Exclusive' /\ BatchPending' /\ ListsOK'
    BY DEF TypeOK, Exclusive, BatchPending, ListsOK
  <1>4. UntriedJobs' /\ DuplicatesAccounted'
    BY DEF TypeOK, UntriedJobs, DuplicatesAccounted, JobAllowance, Tried
  <1> QED
    BY <1>1, <1>2, <1>3, <1>4

\* SKIP LOCKED keeps the batches disjoint.
LEMMA BeginInv ==
  ASSUME IInv, NEW r \in Relays, BeginCycle(r)
  PROVE  IInv'
  <1> USE OutboxAssumption DEF IInv, BeginCycle, table
  <1>1. Oldest(Eligible) \subseteq Eligible
    BY DEF Oldest
  <1>2. TypeOK'
    BY <1>1 DEF TypeOK, Eligible
  <1>3. RetryBudget'
    BY DEF RetryBudget
  <1>4. Exclusive' /\ BatchPending'
    BY <1>1 DEF TypeOK, Exclusive, BatchPending, Eligible, RowLocked
  <1>5. ListsOK'
    BY DEF ListsOK
  <1>6. UntriedJobs' /\ DuplicatesAccounted'
    BY DEF UntriedJobs, DuplicatesAccounted, JobAllowance, Tried
  <1> QED
    BY <1>2, <1>3, <1>4, <1>5, <1>6

\* Trying a row uses up the one job the allowance had left for it.
LEMMA TryInv ==
  ASSUME IInv, NEW r \in Relays, TryRow(r)
  PROVE  IInv'
  <1> USE OutboxAssumption DEF IInv, table, cycle
  <1> PICK e \in Events : SkipRow(r, e) \/ SendRow(r, e) \/ SendFails(r, e)
    BY DEF TryRow
  <1>1. /\ e \in batch[r]
        /\ e \notin published[r] \cup failed[r]
        /\ status[e] = "pending"
    BY DEF SkipRow, SendRow, SendFails, NextRow, Unsent, BatchPending
  <1>2. /\ UNCHANGED <<status, retryCount, batch, crashes>>
        /\ jobs' \in [Events -> Nat]
        /\ \A f \in Events \ {e} : jobs'[f] = jobs[f]
        /\ jobs'[e] \in {jobs[e], jobs[e] + 1}
        /\ e \notin Consumed => jobs'[e] = jobs[e]
    BY DEF SkipRow, SendRow, SendFails, TypeOK
  <1>3. \/ /\ published' = [published EXCEPT ![r] = @ \cup {e}]
           /\ failed' = failed
           /\ e \in Consumed => jobs'[e] > 0
        \/ /\ failed' = [failed EXCEPT ![r] = @ \cup {e}]
           /\ published' = published
           /\ e \in Consumed
    BY DEF SkipRow, SendRow, SendFails, TypeOK
  <1>4. TypeOK'
    BY <1>1, <1>2, <1>3 DEF TypeOK
  <1>5. RetryBudget' /\ Exclusive' /\ BatchPending'
    BY <1>2 DEF RetryBudget, Exclusive, BatchPending
  <1>6. ListsOK'
    <2> SUFFICES ASSUME NEW q \in Relays
                 PROVE  /\ published'[q] \cap failed'[q] = {}
                        /\ failed'[q] \subseteq Consumed
                        /\ \A f \in published'[q] : f \in Consumed => jobs'[f] > 0
      BY DEF ListsOK
    <2>1. \A f \in published[q] : f \in Consumed => jobs'[f] > 0
      BY <1>2 DEF ListsOK, TypeOK
    <2>2. published[q] \cap failed[q] = {} /\ failed[q] \subseteq Consumed
      BY DEF ListsOK
    <2>3. CASE q = r
      <3>1. CASE /\ published' = [published EXCEPT ![r] = @ \cup {e}]
                 /\ failed' = failed
                 /\ e \in Consumed => jobs'[e] > 0
        <4>1. published'[q] = published[q] \cup {e} /\ failed'[q] = failed[q]
          BY <2>3, <3>1 DEF TypeOK
        <4> QED
          BY <1>1, <2>1, <2>2, <2>3, <3>1, <4>1
      <3>2. CASE /\ failed' = [failed EXCEPT ![r] = @ \cup {e}]
                 /\ published' = published
                 /\ e \in Consumed
        <4>1. published'[q] = published[q] /\ failed'[q] = failed[q] \cup {e}
          BY <2>3, <3>2 DEF TypeOK
        <4> QED
          BY <1>1, <2>1, <2>2, <2>3, <3>2, <4>1
      <3> QED
        BY <1>3, <3>1, <3>2
    <2>4. CASE q # r
      BY <1>3, <2>1, <2>2, <2>4 DEF TypeOK
    <2> QED
      BY <2>3, <2>4
  <1>7. ~Tried(e) /\ Tried(e)'
    <2>1. \A q \in Relays : q # r => e \notin batch[q]
      BY <1>1 DEF Exclusive
    <2>2. ~Tried(e)
      BY <1>1, <2>1 DEF Tried, TypeOK
    <2> QED
      BY <2>2, <1>3 DEF Tried, TypeOK
  <1>8. \A f \in Events \ {e} : Tried(f)' <=> Tried(f)
    BY <1>3 DEF Tried, TypeOK
  <1>9. UntriedJobs'
    BY <1>2, <1>7, <1>8 DEF UntriedJobs
  <1>10. DuplicatesAccounted'
    <2>1. jobs[e] <= crashes + retryCount[e]
      BY <1>1, <1>7 DEF UntriedJobs
    <2> QED
      BY <1>1, <1>2, <2>1 DEF DuplicatesAccounted, JobAllowance, TypeOK
  <1> QED
    BY <1>4, <1>5, <1>6, <1>9, <1>10

\* After EndCycle the relay holds nothing, the others are as they were.
LEMMA EndCycleLists ==
  ASSUME TypeOK, NEW r \in Relays, EndCycle(r)
  PROVE  /\ batch' \in [Relays -> SUBSET Events]
         /\ published' \in [Relays -> SUBSET Events]
         /\ failed' \in [Relays -> SUBSET Events]
         /\ batch'[r] = {} /\ published'[r] = {} /\ failed'[r] = {}
         /\ \A q \in Relays \ {r} : /\ batch'[q] = batch[q]
                                    /\ published'[q] = published[q]
                                    /\ failed'[q] = failed[q]
  BY DEF TypeOK, EndCycle

\* A commit settles rows no other cycle holds; a failed one has either a try
\* left or has just used the last.
LEMMA CommitInv ==
  ASSUME IInv, NEW r \in Relays, CommitCycle(r)
  PROVE  IInv'
  <1> USE OutboxAssumption DEF IInv, CommitCycle
  <1> DEFINE Pub == published[r]
             Bad == failed[r]
  <1>1. /\ Pub \subseteq Events /\ Bad \subseteq Events /\ Pub \cap Bad = {}
        /\ batch[r] = Pub \cup Bad
    BY DEF TypeOK, ListsOK, Unsent
  <1>2. \A e \in Events :
          /\ retryCount[e] \in 0..MaxRetries
          /\ e \in batch[r] => status[e] = "pending" /\ retryCount[e] < MaxRetries
    BY DEF TypeOK, BatchPending
  <1>3. \A e \in Events :
          /\ e \in Pub => status'[e] = "published" /\ retryCount'[e] = retryCount[e]
          /\ e \in Bad => /\ retryCount'[e] = retryCount[e] + 1
                          /\ status'[e] = IF retryCount'[e] = MaxRetries
                                          THEN "failed" ELSE "pending"
          /\ e \notin batch[r] => /\ status'[e] = status[e]
                                  /\ retryCount'[e] = retryCount[e]
    <2> SUFFICES ASSUME NEW e \in Events
                 PROVE  /\ e \in Pub => /\ status'[e] = "published"
                                        /\ retryCount'[e] = retryCount[e]
                        /\ e \in Bad => /\ retryCount'[e] = retryCount[e] + 1
                                        /\ status'[e] = IF retryCount'[e] = MaxRetries
                                                        THEN "failed" ELSE "pending"
                        /\ e \notin batch[r] => /\ status'[e] = status[e]
                                                /\ retryCount'[e] = retryCount[e]
      OBVIOUS
    <2>1. /\ status'[e] = MarkedStatus(r, e)
          /\ retryCount'[e] = IF e \in Bad THEN retryCount[e] + 1 ELSE retryCount[e]
      OBVIOUS
    <2>2. CASE e \in Pub
      BY <1>1, <2>1, <2>2 DEF MarkedStatus
    <2>3. CASE e \in Bad
      <3>1. retryCount[e] \in Nat /\ retryCount[e] < MaxRetries /\ status[e] = "pending"
        BY <1>1, <1>2, <2>3
      <3>2. status'[e] = IF retryCount[e] + 1 >= MaxRetries THEN "failed" ELSE "pending"
        BY <1>1, <2>1, <2>3, <3>1 DEF MarkedStatus, FailedStatus, Exhausted
      <3> QED
        BY <1>1, <2>1, <2>3, <3>1, <3>2
    <2>4. CASE e \notin batch[r]
      BY <1>1, <2>1, <2>4 DEF MarkedStatus
    <2> QED
      BY <1>1, <2>2, <2>3, <2>4
  <1>4. TypeOK'
    <2>1. status' \in [Events -> Statuses]
      BY <1>1, <1>2 DEF TypeOK, Statuses, MarkedStatus, FailedStatus
    <2>2. retryCount' \in [Events -> 0..MaxRetries]
      BY <1>1, <1>2 DEF TypeOK
    <2> QED
      BY <2>1, <2>2, EndCycleLists DEF TypeOK
  <1>5. RetryBudget'
    <2> SUFFICES ASSUME NEW e \in Events
                 PROVE  (status'[e] = "failed") <=> (retryCount'[e] = MaxRetries)
      BY DEF RetryBudget
    <2>1. (status[e] = "failed") <=> (retryCount[e] = MaxRetries)
      BY DEF RetryBudget
    <2>2. CASE e \in Pub
      BY <1>1, <1>2, <1>3, <2>2
    <2>3. CASE e \in Bad
      BY <1>3, <2>3
    <2>4. CASE e \notin batch[r]
      BY <1>3, <2>1, <2>4
    <2> QED
      BY <1>1, <2>2, <2>3, <2>4
  <1>6. Exclusive'
    <2> SUFFICES ASSUME NEW r1 \in Relays, NEW r2 \in Relays, r1 # r2
                 PROVE  batch'[r1] \cap batch'[r2] = {}
      BY DEF Exclusive
    <2>1. batch[r1] \cap batch[r2] = {}
      BY DEF Exclusive
    <2>2. \A q \in Relays : batch'[q] \subseteq batch[q]
      BY EndCycleLists
    <2> QED
      BY <2>1, <2>2
  <1>7. BatchPending'
    <2> SUFFICES ASSUME NEW q \in Relays, NEW e \in batch'[q]
                 PROVE  status'[e] = "pending" /\ retryCount'[e] < MaxRetries
      BY DEF BatchPending
    <2>1. q # r /\ e \in batch[q] /\ e \in Events
      BY EndCycleLists DEF TypeOK
    <2>2. e \notin batch[r]
      BY <2>1 DEF Exclusive
    <2> QED
      BY <1>3, <2>1, <2>2 DEF BatchPending
  <1>8. ListsOK'
    BY EndCycleLists DEF ListsOK
  <1>9. \A e \in Events \ batch[r] : Tried(e)' <=> Tried(e)
    BY <1>1, EndCycleLists DEF Tried
  <1>10. UntriedJobs' /\ DuplicatesAccounted'
    <2> SUFFICES ASSUME NEW e \in Events
                 PROVE  /\ jobs'[e] <= JobAllowance(e)'
                        /\ status'[e] = "pending" /\ ~Tried(e)'
                             => jobs'[e] <= crashes' + retryCount'[e]
      BY DEF UntriedJobs, DuplicatesAccounted
    <2>1. jobs[e] \in Nat /\ retryCount[e] \in Nat /\ crashes \in Nat
      BY DEF TypeOK
    <2>2. jobs[e] <= JobAllowance(e)
      BY DEF DuplicatesAccounted
    <2>3. CASE e \in Pub
      BY <1>1, <1>2, <1>3, <2>1, <2>2, <2>3 DEF JobAllowance
    <2>4. CASE e \in Bad
      <3>1. status[e] = "pending" /\ e \in Consumed
        BY <1>1, <1>2, <2>4 DEF ListsOK
      <3>2. jobs[e] <= crashes + retryCount'[e]
        BY <1>3, <2>1, <2>2, <2>4, <3>1 DEF JobAllowance
      <3> QED
        BY <1>3, <2>1, <2>4, <3>1, <3>2 DEF JobAllowance
    <2>5. CASE e \notin batch[r]
      BY <1>3, <1>9, <2>2, <2>5 DEF JobAllowance, UntriedJobs
    <2> QED
      BY <1>1, <2>3, <2>4, <2>5
  <1> QED
    BY <1>4, <1>5, <1>6, <1>7, <1>8, <1>10

\* An aborted cycle forgets what it sent: the crash pays for the resend.
LEMMA AbortInv ==
  ASSUME IInv, NEW r \in Relays, AbortCycle(r)
  PROVE  IInv'
  <1> USE OutboxAssumption DEF IInv, AbortCycle, table
  <1>1. TypeOK'
    BY EndCycleLists DEF TypeOK
  <1>2. RetryBudget'
    BY DEF RetryBudget
  <1>3. Exclusive' /\ BatchPending' /\ ListsOK'
    BY EndCycleLists DEF Exclusive, BatchPending, ListsOK
  <1>4. UntriedJobs' /\ DuplicatesAccounted'
    <2> SUFFICES ASSUME NEW e \in Events
                 PROVE  /\ jobs[e] <= JobAllowance(e)'
                        /\ status[e] = "pending" => jobs[e] <= crashes' + retryCount[e]
      BY DEF UntriedJobs, DuplicatesAccounted
    <2>1. /\ jobs[e] \in Nat /\ retryCount[e] \in Nat /\ crashes \in Nat
          /\ crashes' = crashes + 1
      BY DEF TypeOK
    <2>2. jobs[e] <= JobAllowance(e)
      BY DEF DuplicatesAccounted
    <2> QED
      BY <2>1, <2>2 DEF JobAllowance
  <1> QED
    BY <1>1, <1>2, <1>3, <1>4

\* A step that changes nothing keeps the invariant.
LEMMA StutterInv ==
  ASSUME IInv, UNCHANGED vars
  PROVE  IInv'
  BY DEF vars, table, cycle, IInv, TypeOK, RetryBudget, Exclusive, BatchPending,
         ListsOK, UntriedJobs, Tried, DuplicatesAccounted, JobAllowance

\* The strengthened invariant holds in every reachable state.
THEOREM InvariantHolds == Spec => []IInv
  <1>1. IInv /\ [Next]_vars => IInv'
    BY RecordInv, BeginInv, TryInv, CommitInv, AbortInv, StutterInv
       DEF Next, Relay
  <1> QED
    BY InitInv, <1>1, PTL DEF Spec

\* Every variable keeps its type (TypeOK).
THEOREM TypeCorrect == Spec => []TypeOK
  BY InvariantHolds, PTL DEF IInv

\* A row is marked failed exactly when its tries are used up (RetryBudget).
THEOREM RetryBudgetHolds == Spec => []RetryBudget
  BY InvariantHolds, PTL DEF IInv

\* Duplicate jobs never outnumber crashes and failed sends
\* (DuplicatesAccounted).
THEOREM DuplicatesAccountedHolds == Spec => []DuplicatesAccounted
  BY InvariantHolds, PTL DEF IInv

-----------------------------------------------------------------------------
\* A commit of a cycle is one Settle of the contract.
LEMMA CommitSettles ==
  ASSUME IInv, NEW r \in Relays, CommitCycle(r)
  PROVE  Log!LogNext
  <1> DEFINE pub == published[r]
             fail == {e \in failed[r] : Exhausted(e)}
  <1> USE DEF IInv, CommitCycle
  <1>1. pub \in SUBSET Events /\ fail \in SUBSET Events /\ pub \cap fail = {}
    BY DEF TypeOK, ListsOK
  <1>2. \A e \in pub \cup fail : e \in batch[r] /\ status[e] = "pending"
    BY DEF TypeOK, BatchPending
  <1>3. pub \cap Consumed \subseteq {e \in Events : jobs[e] > 0}
    BY <1>1 DEF ListsOK
  <1>4. fail \subseteq Consumed
    BY DEF ListsOK
  <1>5. status' = [e \in Events |-> IF e \in pub THEN "published"
                                    ELSE IF e \in fail THEN "failed"
                                    ELSE status[e]]
    BY DEF MarkedStatus, FailedStatus
  <1>6. {e \in Events : jobs[e] > 0}' = {e \in Events : jobs[e] > 0}
    OBVIOUS
  <1>7. Log!Settle(pub, fail)
    BY <1>1, <1>2, <1>3, <1>4, <1>5, <1>6 DEF Log!Settle
  <1> QED
    BY <1>1, <1>7 DEF Log!LogNext

\* A first send hands the event over, a later one changes nothing there.
LEMMA TryHandsOver ==
  ASSUME IInv, NEW r \in Relays, TryRow(r)
  PROVE  [Log!LogNext]_(Log!logVars)
  <1> USE DEF IInv, table
  <1> DEFINE handed == {e \in Events : jobs[e] > 0}
  <1> PICK e \in Events : SkipRow(r, e) \/ SendRow(r, e) \/ SendFails(r, e)
    BY DEF TryRow
  <1>1. status[e] = "pending"
    BY DEF SkipRow, SendRow, SendFails, NextRow, Unsent, BatchPending
  <1>2. UNCHANGED status /\ (UNCHANGED jobs \/ e \in Consumed)
    BY DEF SkipRow, SendRow, SendFails
  <1>3. UNCHANGED jobs \/ jobs' = [jobs EXCEPT ![e] = @ + 1]
    BY DEF SkipRow, SendRow, SendFails
  <1>4. CASE UNCHANGED jobs
    BY <1>2, <1>4 DEF Log!logVars
  <1>5. CASE ~UNCHANGED jobs
    <2>1. handed' = handed \cup {e}
      BY <1>3, <1>5 DEF TypeOK
    <2>2. Log!HandOver(e)
      BY <1>1, <1>2, <1>5, <2>1 DEF Log!HandOver
    <2> QED
      BY <2>2 DEF Log!LogNext
  <1> QED
    BY <1>4, <1>5

\* The relay implements the safety part of the outbox contract: an event is
\* published only after its job exists, settles once, fails only if it had a
\* queue (ImplementsLog).
THEOREM Refinement == Spec => ImplementsLog
  <1>1. Init => Log!LogInit
    BY DEF Init, Log!LogInit
  <1>2. IInv /\ [Next]_vars => [Log!LogNext]_(Log!logVars)
    <2> SUFFICES ASSUME IInv, [Next]_vars
                 PROVE  [Log!LogNext]_(Log!logVars)
      OBVIOUS
    <2>1. ASSUME NEW e \in Events, Record(e)
          PROVE  Log!LogNext
      BY <2>1 DEF Record, Log!Record, Log!LogNext
    <2>2. ASSUME NEW r \in Relays, BeginCycle(r) \/ AbortCycle(r)
          PROVE  UNCHANGED Log!logVars
      BY <2>2 DEF BeginCycle, AbortCycle, table, Log!logVars
    <2>3. CASE UNCHANGED vars
      BY <2>3 DEF vars, table, Log!logVars
    <2> QED
      BY <2>1, <2>2, <2>3, TryHandsOver, CommitSettles DEF Next, Relay
  <1> QED
    BY <1>1, <1>2, InvariantHolds, PTL DEF Spec, ImplementsLog, Log!LogSafety
=============================================================================
