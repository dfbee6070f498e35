------------------------------- MODULE Outbox -------------------------------
(***************************************************************************)
(* The transactional outbox relay, packages/workers/src/outbox/relay.ts.   *)
(*                                                                         *)
(* Business code writes a domain_events row in the transaction of its own   *)
(* change.  Each worker process runs one relay: every tick it opens ONE     *)
(* transaction, locks a batch of pending rows, sends the rows one by one to *)
(* pg-boss over another connection, and marks them at the end of the        *)
(* transaction.  If the process or the connection dies before the commit,   *)
(* the locks and the marks are gone but the jobs already sent stay.         *)
(*                                                                         *)
(* locked_until is written and cleared inside that one transaction, so no   *)
(* other relay ever reads it set; the row lock is what excludes them, and   *)
(* is modelled by membership of a batch.                                    *)
(***************************************************************************)
EXTENDS Naturals, FiniteSets

CONSTANTS
  Events,      \* domain_events rows, numbered in the order of recorded_at
  Consumed,    \* those whose event_type names a pg-boss queue (KNOWN_QUEUES)
  Relays,      \* worker processes running the relay
  MaxRetries,  \* MAX_RETRIES
  BatchSize,   \* BATCH_SIZE
  MaxCrashes   \* bound: cycles that die before their commit

ASSUME OutboxAssumption ==
  /\ Events \subseteq Nat
  /\ Consumed \subseteq Events
  /\ MaxRetries \in Nat \ {0}
  /\ BatchSize \in Nat \ {0}
  /\ MaxCrashes \in Nat

VARIABLES
  status,      \* domain_events.processing_status, "unrecorded" before insert
  retryCount,  \* domain_events.retry_count
  jobs,        \* pg-boss jobs inserted for the event so far
  batch,       \* per relay: the rows its open transaction holds locked
  published,   \* per relay: the cycle's local list `published`
  failed,      \* per relay: the cycle's local list `failed`
  crashes      \* cycles that ended without a commit

table == <<status, retryCount>>
cycle == <<batch, published, failed>>
vars == <<table, jobs, cycle, crashes>>

\* The enum has dead_lettered for a row out of tries; no code writes it.
Statuses == {"unrecorded", "pending", "published", "failed", "dead_lettered"}

Init ==
  /\ status = [e \in Events |-> "unrecorded"]
  /\ retryCount = [e \in Events |-> 0]
  /\ jobs = [e \in Events |-> 0]
  /\ batch = [r \in Relays |-> {}]
  /\ published = [r \in Relays |-> {}]
  /\ failed = [r \in Relays |-> {}]
  /\ crashes = 0

-----------------------------------------------------------------------------
\* A business transaction commits with its event.  recorded_at is taken
\* before the commit, so rows become visible in any order.
Record(e) ==
  /\ status[e] = "unrecorded"
  /\ status' = [status EXCEPT ![e] = "pending"]
  /\ UNCHANGED <<retryCount, jobs, cycle, crashes>>

\* Fault: SELECT without FOR UPDATE SKIP LOCKED.
RowLockedIgnored(e) == FALSE
RowLocked(e) == \E r \in Relays : e \in batch[r]

Eligible ==
  {e \in Events : /\ status[e] = "pending"
                  /\ retryCount[e] < MaxRetries
                  /\ ~RowLocked(e)}

\* ORDER BY recorded_at LIMIT BATCH_SIZE
Oldest(S) == {e \in S : Cardinality({f \in S : f < e}) < BatchSize}

\* A tick of an idle relay that finds rows.  A relay inside a cycle ignores
\* its ticks, and a cycle that finds none commits without a change.
BeginCycle(r) ==
  /\ batch[r] = {}
  /\ Eligible # {}
  /\ batch' = [batch EXCEPT ![r] = Oldest(Eligible)]
  /\ UNCHANGED <<table, jobs, published, failed, crashes>>

Unsent(r) == batch[r] \ (published[r] \cup failed[r])
NextRow(r, e) == e \in Unsent(r) /\ \A f \in Unsent(r) : e <= f

\* An event nobody consumes: its row is the product, nothing is sent.
SkipRow(r, e) ==
  /\ NextRow(r, e)
  /\ e \notin Consumed
  /\ published' = [published EXCEPT ![r] = @ \cup {e}]
  /\ UNCHANGED <<table, jobs, batch, failed, crashes>>

\* boss.send resolves.  pg-boss commits the job on a connection of its own;
\* it may drop a send whose singletonKey already has a job.
SendRow(r, e) ==
  /\ NextRow(r, e)
  /\ e \in Consumed
  /\ \/ jobs' = [jobs EXCEPT ![e] = @ + 1]
     \/ jobs[e] > 0 /\ UNCHANGED jobs
  /\ published' = [published EXCEPT ![r] = @ \cup {e}]
  /\ UNCHANGED <<table, batch, failed, crashes>>

\* boss.send rejects: the job was not inserted, or it was and the answer
\* was lost.
SendFails(r, e) ==
  /\ NextRow(r, e)
  /\ e \in Consumed
  /\ \/ jobs' = [jobs EXCEPT ![e] = @ + 1]
     \/ UNCHANGED jobs
  /\ failed' = [failed EXCEPT ![r] = @ \cup {e}]
  /\ UNCHANGED <<table, batch, published, crashes>>

\* Fault: the two lists outlive the cycle.
EndCycleKeepsLists(r) ==
  /\ batch' = [batch EXCEPT ![r] = {}]
  /\ UNCHANGED <<published, failed>>
EndCycle(r) ==
  /\ batch' = [batch EXCEPT ![r] = {}]
  /\ published' = [published EXCEPT ![r] = {}]
  /\ failed' = [failed EXCEPT ![r] = {}]

\* Fault: the CASE of the UPDATE and the filter of the SELECT disagree by one.
ExhaustedLate(e) == retryCount[e] + 1 > MaxRetries
Exhausted(e) == retryCount[e] + 1 >= MaxRetries

FailedStatus(e) == IF Exhausted(e) THEN "failed" ELSE status[e]

\* Fault: a row counts as published once it was tried.
MarkedTried(r, e) == IF e \in batch[r] THEN "published" ELSE status[e]
MarkedStatus(r, e) ==
  IF e \in published[r] THEN "published"
  ELSE IF e \in failed[r] THEN FailedStatus(e) ELSE status[e]

\* Every row of the batch was tried: mark them and commit.
CommitCycle(r) ==
  /\ batch[r] # {}
  /\ Unsent(r) = {}
  /\ status' = [e \in Events |-> MarkedStatus(r, e)]
  /\ retryCount' = [e \in Events |-> IF e \in failed[r] THEN retryCount[e] + 1
                                     ELSE retryCount[e]]
  /\ EndCycle(r)
  /\ UNCHANGED <<jobs, crashes>>

\* The process or its database connection dies inside the transaction: the
\* locks and marks are rolled back, the lists are lost, sent jobs remain.
AbortCycle(r) ==
  /\ batch[r] # {}
  /\ crashes < MaxCrashes
  /\ crashes' = crashes + 1
  /\ EndCycle(r)
  /\ UNCHANGED <<table, jobs>>

TryRow(r) == \E e \in Events : SkipRow(r, e) \/ SendRow(r, e) \/ SendFails(r, e)

Relay(r) == BeginCycle(r) \/ TryRow(r) \/ CommitCycle(r)

Next ==
  \/ \E e \in Events : Record(e)
  \/ \E r \in Relays : Relay(r) \/ AbortCycle(r)

\* setInterval keeps every live relay ticking, and a cycle is a finite loop.
Fairness == \A r \in Relays : WF_vars(Relay(r))

Spec == Init /\ [][Next]_vars
FairSpec == Spec /\ Fairness

-----------------------------------------------------------------------------
\* Every variable has its type; a cycle only keeps lists of rows it locked.
TypeOK ==
  /\ status \in [Events -> Statuses]
  /\ retryCount \in [Events -> 0..MaxRetries]
  /\ jobs \in [Events -> Nat]
  /\ batch \in [Relays -> SUBSET Events]
  /\ published \in [Relays -> SUBSET Events]
  /\ failed \in [Relays -> SUBSET Events]
  /\ \A r \in Relays : published[r] \cup failed[r] \subseteq batch[r]
  /\ crashes \in 0..MaxCrashes

\* The two places that read MAX_RETRIES agree: a row is out of tries exactly
\* when it is marked failed, so no pending row is invisible to the SELECT
\* (relay.ts:102, :196-199).  This is the code's own use of failed, and not the
\* documented one: relay.ts:26-27 and domain-event.ts:241-244 say that such a
\* row becomes dead_lettered, _enums.ts:122-123 that a failed one is retried.
RetryBudget ==
  \A e \in Events : (status[e] = "failed") <=> (retryCount[e] = MaxRetries)

\* However the relays interleave, an event gets a second job only for a
\* reason: a cycle that died after sending it, or a send counted as failed
\* ("preventing double-publication", relay.ts:17-20).  A failed event needs
\* no allowance of its own, and events nobody consumes get no job.
JobAllowance(e) ==
  IF e \notin Consumed \/ status[e] = "unrecorded" THEN 0
  ELSE IF status[e] = "failed" THEN crashes + retryCount[e]
  ELSE 1 + crashes + retryCount[e]
DuplicatesAccounted == \A e \in Events : jobs[e] <= JobAllowance(e)

\* The relay implements the outbox contract of EventLog: published implies
\* handed over, settled is final, unconsumed events never fail.
Log == INSTANCE EventLog WITH stage <- status,
                              handed <- {e \in Events : jobs[e] > 0}
ImplementsLog == Log!LogSafety

\* With ticking relays no recorded event stays pending for ever, whatever
\* sends reject (domain-event.ts: pending is picked up by the relay).
NothingForgotten == Log!EverySettled
=============================================================================
