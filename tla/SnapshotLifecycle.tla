------------------------- MODULE SnapshotLifecycle -------------------------
(***************************************************************************)
(* From a confirmed extraction to snapshots of a sentence or of custody     *)
(* that the engine may trust.  The worker proposes one                      *)
(* (packages/workers/src/snapshot-promotion/runner.ts), people propose,     *)
(* confirm, reject and supersede them (apps/api/src/services/               *)
(* extraction-promotion.ts, snapshot-review.ts, sentence-snapshot.ts,       *)
(* custody-snapshot.ts).                                                    *)
(*                                                                         *)
(* A sentence snapshot has one status column; a custody snapshot has three  *)
(* columns (confirmed, rejected, superseded) that are written one by one.   *)
(* Both are a set of marks here, empty while the snapshot is proposed.      *)
(***************************************************************************)
EXTENDS Naturals, FiniteSets

CONSTANTS
  Runs,           \* extraction runs whose class has a promotion rule
  Snapshots,      \* identities of the snapshot rows, positive numbers
  Handlers,       \* concurrent snapshot.promotion.requested handlers
  Users,          \* people with a request under way
  MaxExtra        \* bound on the sum of: snapshots proposed by requests,
                  \* handlers and requests lost half-way, and extra deliveries
                  \* of a snapshot.promotion.requested event

\* The maker of a snapshot that no worker made.
Nobody == "nobody"

ASSUME SnapshotAssumption ==
  /\ Nobody \notin Runs
  /\ Snapshots \subseteq Nat \ {0}
  /\ IsFiniteSet(Snapshots)
  /\ MaxExtra \in Nat

VARIABLES
  class,         \* what the rules make of a run: a snapshot of a kind, or
                 \* figures that do not add up; settled by its extraction
  confirmed,     \* runs confirmed by a person, with their document.confirmed
  promotion,     \* snapshot_promotions.status, "none" before the insert
  target,        \* snapshot_promotions.snapshot_id, 0 if null
  jobs,          \* snapshot.promotion.requested jobs waiting, per run
  kind,          \* which table holds the snapshot, "none" before the insert
  madeBy,        \* the run a worker made the snapshot from, if any
  amends,        \* amends_snapshot_id, 0 if null
  marks,         \* what happened to the snapshot
  rejections,    \* rows of review_decisions that reject the snapshot
  triggers,      \* snapshot.confirmed events, which set off a recalculation
  replacedBy,    \* the replacements that its superseded events name
  queue,         \* the snapshot's row in the snapshot_review queue
  handler, user, \* where each is, with its local variables
  asked, crashes, duplicates

prom == <<promotion, target>>
row == <<kind, madeBy, amends, marks>>
decisions == <<rejections, triggers, replacedBy>>
budget == <<asked, crashes, duplicates>>
vars == <<class, confirmed, prom, jobs, row, decisions, queue, handler, user, budget>>

Idle == [at |-> "idle"]
Proposing == [at : {"propose"}, run : Runs]
Showing == [at : {"show"}, run : Runs, snap : Snapshots]
Deciding ==
  [at : {"approve", "reject", "confirm", "supersede", "resolve", "list"}, snap : Snapshots]
Promoting == [at : {"link"}, run : Runs, snap : Snapshots]

Init ==
  /\ class \in [Runs -> {"sentence", "custody", "unmappable"}]
  /\ confirmed = {}
  /\ promotion = [r \in Runs |-> "none"]
  /\ target = [r \in Runs |-> 0]
  /\ jobs = [r \in Runs |-> 0]
  /\ kind = [s \in Snapshots |-> "none"]
  /\ madeBy = [s \in Snapshots |-> Nobody]
  /\ amends = [s \in Snapshots |-> 0]
  /\ marks = [s \in Snapshots |-> {}]
  /\ rejections = [s \in Snapshots |-> 0]
  /\ triggers = [s \in Snapshots |-> 0]
  /\ replacedBy = [s \in Snapshots |-> {}]
  /\ queue = [s \in Snapshots |-> "absent"]
  /\ handler = [h \in Handlers |-> Idle]
  /\ user = [u \in Users |-> Idle]
  /\ asked = 0 /\ crashes = 0 /\ duplicates = 0

Affordable == asked + crashes + duplicates < MaxExtra

Fresh(s) == kind[s] = "none" /\ \A t \in Snapshots : t < s => kind[t] # "none"

\* A row for snapshot s: of a kind, made from a run or not, amending o or none.
Insert(s, k, maker, o) ==
  /\ Fresh(s)
  /\ kind' = [kind EXCEPT ![s] = k]
  /\ madeBy' = [madeBy EXCEPT ![s] = maker]
  /\ amends' = [amends EXCEPT ![s] = o]

-----------------------------------------------------------------------------
\* The reviewer confirms the extraction; document.confirmed is recorded.
ConfirmExtraction(r) ==
  /\ confirmed' = confirmed \cup {r}
  /\ UNCHANGED <<class, prom, jobs, row, decisions, queue, handler, user, budget>>

\* A delivery of document.confirmed.  A promotion that a request inserted
\* first has no trigger: the insert then breaks the unique index on the run,
\* and the job fails each time it is tried.
RequestPromotion(r) ==
  /\ r \in confirmed
  /\ promotion[r] = "none"
  /\ promotion' = [promotion EXCEPT ![r] = "requested"]
  /\ jobs' = [jobs EXCEPT ![r] = @ + 1]
  /\ UNCHANGED <<class, confirmed, target, row, decisions, queue, handler, user, budget>>

\* Fault: a promotion that has its snapshot is executed again.
AwaitsProposalOrHasIt(r) == promotion[r] \in {"requested", "proposed"}
AwaitsProposal(r) == promotion[r] = "requested"

\* A handler takes a job and reads the promotion; nothing is locked.
ReadPromotion(h, r) ==
  /\ handler[h] = Idle
  /\ jobs[r] > 0
  /\ jobs' = [jobs EXCEPT ![r] = @ - 1]
  /\ handler' = [handler EXCEPT ![h] =
                   IF AwaitsProposal(r) THEN [at |-> "propose", run |-> r] ELSE Idle]
  /\ UNCHANGED <<class, confirmed, prom, row, decisions, queue, user, budget>>

\* Figures that do not add up fail the promotion, by id alone.
FailPromotion(h) ==
  /\ handler[h].at = "propose"
  /\ class[handler[h].run] = "unmappable"
  /\ promotion' = [promotion EXCEPT ![handler[h].run] = "failed"]
  /\ handler' = [handler EXCEPT ![h] = Idle]
  /\ UNCHANGED <<class, confirmed, target, jobs, row, decisions, queue, user, budget>>

\* Fault: the handler is done once the snapshot is proposed.
ProposedIsDone(r, s) == Idle
Proposed(r, s) == [at |-> "show", run |-> r, snap |-> s]

\* Snapshot and promotion in one transaction; the promotion is written by id
\* alone, over what another handler has made of it.
Propose(h) ==
  /\ handler[h].at = "propose"
  /\ class[handler[h].run] # "unmappable"
  /\ LET r == handler[h].run IN
     \E s \in Snapshots :
       /\ Insert(s, class[r], r, 0)
       /\ promotion' = [promotion EXCEPT ![r] = "proposed"]
       /\ target' = [target EXCEPT ![r] = s]
       /\ handler' = [handler EXCEPT ![h] = Proposed(r, s)]
  /\ UNCHANGED <<class, confirmed, jobs, marks, decisions, queue, user, budget>>

\* After its transaction the handler lists the snapshot for review.
Show(h) ==
  /\ handler[h].at = "show"
  /\ queue' = [queue EXCEPT ![handler[h].snap] = "active"]
  /\ handler' = [handler EXCEPT ![h] = Idle]
  /\ UNCHANGED <<class, confirmed, prom, jobs, row, decisions, user, budget>>

\* The worker dies; pg-boss expires the job and offers it again.
Crash(h) ==
  /\ handler[h] # Idle
  /\ Affordable
  /\ crashes' = crashes + 1
  /\ jobs' = [jobs EXCEPT ![handler[h].run] = @ + 1]
  /\ handler' = [handler EXCEPT ![h] = Idle]
  /\ UNCHANGED <<class, confirmed, prom, row, decisions, queue, user, asked, duplicates>>

\* A repeated delivery of snapshot.promotion.requested.
Redeliver(r) ==
  /\ promotion[r] # "none"
  /\ Affordable
  /\ duplicates' = duplicates + 1
  /\ jobs' = [jobs EXCEPT ![r] = @ + 1]
  /\ UNCHANGED <<class, confirmed, prom, row, decisions, queue, handler, user, asked, crashes>>

-----------------------------------------------------------------------------
\* A person enters a snapshot by hand, which may say that it amends any other
\* of its table: that one is left as it is, and nothing is listed for review.
Amendable(k) == {0} \cup {o \in Snapshots : kind[o] = k}
ProposeByHand(k) ==
  /\ Affordable
  /\ asked' = asked + 1
  /\ \E s \in Snapshots, o \in Amendable(k) : Insert(s, k, Nobody, o)
  /\ UNCHANGED <<class, confirmed, prom, jobs, marks, decisions, queue, handler, user, crashes,
                 duplicates>>

\* A person promotes a run under review or confirmed, whatever its class, into
\* a sentence snapshot: a first transaction proposes it.  The look for an
\* earlier promotion only heeds a status that no request ever writes.
PromoteByHand(u, r) ==
  /\ user[u] = Idle
  /\ Affordable
  /\ asked' = asked + 1
  /\ \E s \in Snapshots :
       /\ Insert(s, "sentence", Nobody, 0)
       /\ user' = [user EXCEPT ![u] = [at |-> "link", run |-> r, snap |-> s]]
  /\ UNCHANGED <<class, confirmed, prom, jobs, marks, decisions, queue, handler, crashes, duplicates>>

\* A second transaction links the two; a run that has a promotion refuses it,
\* and the proposed snapshot stays behind.
Link(u) ==
  /\ user[u].at = "link"
  /\ LET r == user[u].run  s == user[u].snap IN
     \/ /\ promotion[r] = "none"
        /\ promotion' = [promotion EXCEPT ![r] = "proposed"]
        /\ target' = [target EXCEPT ![r] = s]
        /\ user' = [user EXCEPT ![u] = [at |-> "list", snap |-> s]]
     \/ /\ promotion[r] # "none"
        /\ user' = [user EXCEPT ![u] = Idle]
        /\ UNCHANGED prom
  /\ UNCHANGED <<class, confirmed, jobs, row, decisions, queue, handler, budget>>

\* A third statement lists it for review.
List(u) ==
  /\ user[u].at = "list"
  /\ queue' = [queue EXCEPT ![user[u].snap] = "active"]
  /\ user' = [user EXCEPT ![u] = Idle]
  /\ UNCHANGED <<class, confirmed, prom, jobs, row, decisions, handler, budget>>

\* Fault: the row is no longer looked at once it has been read.
RejectableUnchecked(s) == TRUE
SupersedableUnchecked(s) == TRUE

\* What the guarded updates still find in the row.
Confirmable(s) ==
  IF kind[s] = "sentence" THEN marks[s] = {}
  ELSE marks[s] \cap {"confirmed", "superseded"} = {}
Rejectable(s) == kind[s] = "sentence" => marks[s] = {}
Supersedable(s) ==
  IF kind[s] = "sentence" THEN marks[s] = {"confirmed"} ELSE "superseded" \notin marks[s]

\* What a request reads before its transaction.
Allowed(act, s) ==
  \/ act \in {"approve", "reject"} /\ marks[s] = {}
  \/ act = "confirm" /\ Confirmable(s)
  \/ act = "supersede" /\ "confirmed" \in marks[s] /\ "superseded" \notin marks[s]

ReadSnapshot(u, s) ==
  /\ user[u] = Idle
  /\ kind[s] # "none"
  /\ \E act \in {"approve", "reject", "confirm", "supersede"} :
       /\ Allowed(act, s)
       /\ user' = [user EXCEPT ![u] = [at |-> act, snap |-> s]]
  /\ UNCHANGED <<class, confirmed, prom, jobs, row, decisions, queue, handler, budget>>

\* The guarded update matched nothing: the transaction is rolled back.
Conflict(u) ==
  /\ \/ user[u].at \in {"approve", "confirm"} /\ ~Confirmable(user[u].snap)
     \/ user[u].at = "reject" /\ ~Rejectable(user[u].snap)
     \/ user[u].at = "supersede" /\ ~Supersedable(user[u].snap)
  /\ user' = [user EXCEPT ![u] = Idle]
  /\ UNCHANGED <<class, confirmed, prom, jobs, row, decisions, queue, handler, budget>>

\* Two ways to confirm: the review takes the snapshot off the queue after it,
\* the snapshot's own route does not.
Approve(u) ==
  /\ user[u].at \in {"approve", "confirm"}
  /\ LET s == user[u].snap  reviewed == user[u].at = "approve" IN
     /\ Confirmable(s)
     /\ marks' = [marks EXCEPT ![s] = @ \cup {"confirmed"}]
     /\ triggers' = [triggers EXCEPT ![s] = @ + 1]
     /\ user' = [user EXCEPT ![u] = IF reviewed THEN [at |-> "resolve", snap |-> s] ELSE Idle]
  /\ UNCHANGED <<class, confirmed, prom, jobs, kind, madeBy, amends, rejections, replacedBy, queue,
                 handler, budget>>

\* A custody snapshot is rejected whatever it has become.
Reject(u) ==
  /\ user[u].at = "reject"
  /\ LET s == user[u].snap IN
     /\ Rejectable(s)
     /\ marks' = [marks EXCEPT ![s] = @ \cup {"rejected"}]
     /\ rejections' = [rejections EXCEPT ![s] = @ + 1]
     /\ user' = [user EXCEPT ![u] = [at |-> "resolve", snap |-> s]]
  /\ UNCHANGED <<class, confirmed, prom, jobs, kind, madeBy, amends, triggers, replacedBy, queue,
                 handler, budget>>

\* The confirmed row is closed and its replacement proposed, in one
\* transaction; the replacement is not listed for review.
Supersede(u) ==
  /\ user[u].at = "supersede"
  /\ Affordable
  /\ asked' = asked + 1
  /\ LET o == user[u].snap IN
     /\ Supersedable(o)
     /\ \E s \in Snapshots :
          /\ Insert(s, kind[o], Nobody, o)
          /\ replacedBy' = [replacedBy EXCEPT ![o] = @ \cup {s}]
     /\ marks' = [marks EXCEPT ![o] =
                    IF kind[o] = "sentence" THEN {"superseded"} ELSE @ \cup {"superseded"}]
  /\ user' = [user EXCEPT ![u] = Idle]
  /\ UNCHANGED <<class, confirmed, prom, jobs, rejections, triggers, queue, handler, crashes,
                 duplicates>>

\* Fault: a status the queue does not know.
OffQueueDismissed(q) == IF q = "active" THEN "dismissed" ELSE q
\* Only an active row is resolved.
OffQueue(q) == IF q = "active" THEN "resolved" ELSE q

\* A decided review takes the snapshot off the queue.
Resolve(u) ==
  /\ user[u].at = "resolve"
  /\ queue' = [queue EXCEPT ![user[u].snap] = OffQueue(@)]
  /\ user' = [user EXCEPT ![u] = Idle]
  /\ UNCHANGED <<class, confirmed, prom, jobs, row, decisions, handler, budget>>

\* The API dies between two of a request's writes: nobody asks again.
RequestLost(u) ==
  /\ user[u].at \in {"link", "list", "resolve"}
  /\ Affordable
  /\ crashes' = crashes + 1
  /\ user' = [user EXCEPT ![u] = Idle]
  /\ UNCHANGED <<class, confirmed, prom, jobs, row, decisions, queue, handler, asked, duplicates>>

-----------------------------------------------------------------------------
Execute(h) ==
  \/ \E r \in Runs : ReadPromotion(h, r)
  \/ FailPromotion(h) \/ Propose(h) \/ Show(h)

Request(u) ==
  \/ \E r \in Runs : PromoteByHand(u, r)
  \/ \E s \in Snapshots : ReadSnapshot(u, s)
  \/ Link(u) \/ List(u) \/ Conflict(u) \/ Approve(u) \/ Reject(u) \/ Supersede(u)
  \/ Resolve(u) \/ RequestLost(u)

Next ==
  \/ \E r \in Runs : ConfirmExtraction(r) \/ RequestPromotion(r) \/ Redeliver(r)
  \/ \E h \in Handlers : Execute(h) \/ Crash(h)
  \/ \E k \in {"sentence", "custody"} : ProposeByHand(k)
  \/ \E u \in Users : Request(u)

Spec == Init /\ [][Next]_vars

-----------------------------------------------------------------------------
\* Every variable has its type.
TypeOK ==
  /\ class \in [Runs -> {"sentence", "custody", "unmappable"}]
  /\ confirmed \subseteq Runs
  /\ promotion \in [Runs -> {"none", "requested", "proposed", "failed"}]
  /\ target \in [Runs -> Snapshots \cup {0}]
  /\ jobs \in [Runs -> Nat]
  /\ kind \in [Snapshots -> {"none", "sentence", "custody"}]
  /\ madeBy \in [Snapshots -> Runs \cup {Nobody}]
  /\ amends \in [Snapshots -> Snapshots \cup {0}]
  /\ marks \in [Snapshots -> SUBSET {"confirmed", "rejected", "superseded"}]
  /\ rejections \in [Snapshots -> Nat]
  /\ triggers \in [Snapshots -> Nat]
  /\ replacedBy \in [Snapshots -> SUBSET Snapshots]
  /\ queue \in [Snapshots -> {"absent", "active", "resolved"}]
  /\ handler \in [Handlers -> {Idle} \cup Proposing \cup Showing]
  /\ user \in [Users -> {Idle} \cup Deciding \cup Promoting]
  /\ asked \in Nat /\ crashes \in Nat /\ duplicates \in Nat
  /\ asked + crashes + duplicates <= MaxExtra

\* However people and routes race, a sentence snapshot gets one decision at
\* most, and its status is the one the decision gave it
\* (docs/review-confirmation-report.md:87-103).
SentenceDecidedOnce ==
  \A s \in Snapshots : kind[s] = "sentence" =>
    /\ rejections[s] + triggers[s] <= 1
    /\ rejections[s] = 1 <=> marks[s] = {"rejected"}
    /\ triggers[s] = 1 <=> marks[s] \in {{"confirmed"}, {"superseded"}}

\* Of either kind, a snapshot sets the engine off once at most, by whichever of
\* the routes it is confirmed; and it is superseded once at most, after it was
\* confirmed, with one event that names its replacement, a row of the same table
\* that amends it.  Rows entered by hand may say that they amend it too, and
\* supersede nothing (docs/snapshot-lifecycle-api-report.md:58-59,
\* sentence-snapshot.ts:95-104).
ConfirmedOnce ==
  /\ \A s \in Snapshots : triggers[s] <= 1
  /\ \A o \in Snapshots :
       /\ "superseded" \in marks[o] <=> replacedBy[o] # {}
       /\ "superseded" \in marks[o] => triggers[o] = 1
       /\ \A s, t \in replacedBy[o] : s = t
       /\ \A s \in replacedBy[o] : amends[s] = o /\ kind[s] = kind[o]

\* A worker makes one snapshot of a run, and one more per repeated delivery at
\* most; crashes make none, and a failed promotion has none
\* (snapshot-promotion/runner.ts:184-211).
MadeFrom(r) == {s \in Snapshots : madeBy[s] = r}
OneSnapshotPerDelivery ==
  \A r \in Runs :
    /\ promotion[r] \in {"none", "requested", "failed"} => MadeFrom(r) = {} /\ target[r] = 0
    /\ Cardinality(MadeFrom(r)) <= 1 + duplicates

\* A snapshot the worker made and nobody decided on is on the reviewers' list,
\* or its handler is about to put it there, but for one per crash between the
\* two writes: the job comes back, finds the promotion proposed and returns
\* (snapshot-promotion/runner.ts:184, :288).
Unlisted ==
  {s \in Snapshots :
     /\ madeBy[s] # Nobody /\ marks[s] = {} /\ queue[s] # "active"
     /\ \A h \in Handlers : handler[h].at = "show" => handler[h].snap # s}
ProposedListed == Cardinality(Unlisted) <= crashes
=============================================================================
