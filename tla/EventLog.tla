------------------------------ MODULE EventLog ------------------------------
(***************************************************************************)
(* What the transactional outbox promises to the code that records domain  *)
(* events, with no relay, lock, batch or retry in sight: an event that was  *)
(* recorded is handed to its queue before it is called published, is        *)
(* settled once and for good, and no recorded event stays pending forever.  *)
(* Source: packages/db/src/schema/domain-event.ts (the table's contract)    *)
(* and packages/workers/src/outbox/relay.ts (the code that keeps it).       *)
(***************************************************************************)
CONSTANTS
  Events,    \* identities of domain_events rows
  Consumed   \* the events whose type names a pg-boss queue

VARIABLES
  stage,     \* unrecorded, pending, published or failed
  handed     \* events for which the queue holds at least one job

logVars == <<stage, handed>>

LogInit ==
  /\ stage = [e \in Events |-> "unrecorded"]
  /\ handed = {}

\* A business transaction commits together with its event.
Record(e) ==
  /\ stage[e] = "unrecorded"
  /\ stage' = [stage EXCEPT ![e] = "pending"]
  /\ UNCHANGED handed

\* The queue receives a job for a pending event (again, perhaps).
HandOver(e) ==
  /\ stage[e] = "pending"
  /\ e \in Consumed
  /\ handed' = handed \cup {e}
  /\ UNCHANGED stage

\* A group of pending events is settled together: the published ones have
\* reached their queue, or have none; the failed ones had a queue to reach.
Settle(pub, fail) ==
  /\ pub \cap fail = {}
  /\ \A e \in pub \cup fail : stage[e] = "pending"
  /\ pub \cap Consumed \subseteq handed
  /\ fail \subseteq Consumed
  /\ stage' = [e \in Events |-> IF e \in pub THEN "published"
                                ELSE IF e \in fail THEN "failed"
                                ELSE stage[e]]
  /\ UNCHANGED handed

LogNext ==
  \/ \E e \in Events : Record(e) \/ HandOver(e)
  \/ \E pub, fail \in SUBSET Events : Settle(pub, fail)

LogSafety == LogInit /\ [][LogNext]_logVars

\* No recorded event is forgotten.
Settled(e) == stage[e] \in {"published", "failed"}
EverySettled == \A e \in Events : (stage[e] = "pending") ~> Settled(e)

LogSpec == LogSafety /\ EverySettled
=============================================================================
