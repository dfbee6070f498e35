# A TLA+ verification of EXECFLOW

EXECFLOW is a legal operations system: an HTTP API writes business changes and
domain events to PostgreSQL, and worker processes turn the events into jobs,
runs, deadlines in work queues, and recalculations. What is hard in it is not
in any one function but between them: several worker processes, five
concurrent handlers per queue, jobs delivered at least once and in no order
across queues, checks made before the transaction that relies on them, and
crashes between two database interactions. That is what these modules model.

Paths below are relative to the repository's root; `W/` is
`packages/workers/src/` and `A/` is `apps/api/src/`.

## The system

| Part | State it keeps | Operations | Talks to |
|---|---|---|---|
| Domain event store (`A/repositories/domain-event.ts`, `packages/db/src/schema/domain-event.ts`) | `domain_events`: delivery status, retry count | insert with the business change | written by every service, read by the relay |
| Outbox relay (`W/outbox/relay.ts`) | row locks of the open transaction, two local lists | tick: select and lock, send, mark, commit | store, pg-boss |
| pg-boss (library) | jobs | deliver, retry, expire | relay, consumers |
| OCR pipeline (`W/consumers/ocr-events.ts`, `W/ocr/runner.ts`) | `ocr_runs`, `documents.ocr_status`, results | schedule, claim, run the provider, store, fail | events, provider |
| Extraction pipeline and review (`W/extraction/runner.ts`, `A/services/extraction-review.ts`, `A/services/document.ts`) | `extraction_runs`, `documents.status`, results, review queue | schedule, claim, run, ask for review, confirm, reject; associate, archive | OCR, promotion |
| Snapshot promotion (`W/snapshot-promotion/runner.ts`, `A/services/extraction-promotion.ts`) | `snapshot_promotions` | request, propose, fail, list for review; promote by hand | extraction, review |
| Sentence and custody snapshots (`A/services/snapshot-review.ts`, `sentence-snapshot.ts`, `custody-snapshot.ts`) | a status column (sentence), three columns (custody) | propose, confirm by two routes, reject, supersede | promotion, engine |
| Deadlines (`A/services/deadline.ts`, `W/sla/overdue-sweep.ts`, `W/consumers/deadline-events.ts`) | `deadlines`, `deadline_history` | create, acknowledge, complete, dismiss, sweep | queue projections |
| Queue projections (`W/projections/queue-projection.ts`) | `queue_projections` | upsert, resolve | all consumers |
| Escalation and tasks (`W/sla/escalation-engine.ts`, `A/services/workflow-task.ts`) | escalation levels, breach marks, `escalation_records`, `workflow_tasks` | two sweeps; claim, release, complete | queue projections |
| Opportunities (`A/services/opportunity.ts`, `W/consumers/opportunity-events.ts`) | `opportunities`, their history, queue rows, tasks | create, detect, re-analyse, review | queues, tasks, notifications |
| Recalculation (`W/consumers/engine-events.ts`, `packages/engine/src/propagation`) | `recalculation_runs`, stale marks | invalidate, schedule, start, complete | snapshots, engine |
| Engine (`packages/engine`, `A/routes/engine.ts`) | `engine_runs`, proposals, `snapshot_dependencies` | load facts, block, evaluate rules, commit; replay | snapshots, timeline, opportunities |
| Documents, intake, court syncs, notifications | their own tables | their services | events |

Hard behaviour, part by part:

* **Relay**: a job is committed by pg-boss before the row that asked for it is
  marked; the process may die in between; sends may reject after succeeding;
  two processes relay at once. Right means: no event lost or called published
  without its job, duplicates only where one of these happened, no event
  pending for ever.
* **OCR and extraction**: a claim that other handlers can lose, a slow external
  call, and writes after it that no longer look at the row. Right means: run
  and document agree, a finished run stays finished, none is stranded by a crash.
* **Review**: a worker writes the queue row after its transaction, and people's
  decisions race with it and with each other over `documents.status`. Right
  means: one approval per run, nothing confirmed without it, and what waits for
  a decision is on the list people work from.
* **Deadlines**: API requests act on a status read before their transaction,
  against each other and against the sweep; their events reach the queues in
  any order. Right means: terminal is terminal, the history tells the truth,
  the queues follow.
* **Snapshots**: decisions by several routes rest on a status read before the
  transaction, and a promotion has no claim. Right means: one decision per
  sentence snapshot, the engine set off once per snapshot, and every proposal
  on the reviewers' list.
* **Opportunities**: a review overwrites what another one wrote; events arrive
  late and twice. Right means: no opportunity moves without a recorded review,
  and none is lost to the office.
* **Recalculation and engine**: dependencies are marked one by one without a
  transaction, while evaluations read the same facts and commit later. Right
  means: what is stale gets recalculated, and a blocked case is suggested
  nothing.
* **Escalation**: sweeps overlap each other and people, in three statements per
  item without a transaction. Right means: nothing is taken back and a row in
  breach gets to the top.

## The modules

* `EventLog` says what the outbox promises, with no relay in it: an event is
  handed over before it is published, settled once, and never forgotten.
* `Outbox` is `relay.ts`. One cycle is `BeginCycle` (the SELECT ... FOR UPDATE
  SKIP LOCKED), a `SkipRow`, `SendRow` or `SendFails` per row, and
  `CommitCycle`; `AbortCycle` is a cycle that dies. `batch` holds the rows a
  transaction has locked, so `locked_until`, which no other transaction ever
  sees set, is not a variable. It implements `EventLog` (`ImplementsLog`).
* `OcrPipeline` is `ocr-events.ts` and `ocr/runner.ts`. A handler's program
  counter and locals are `handler[h]`; each database interaction of
  `executeOcrRun` is an action: `ReadRun`, `Claim`, then `StoreResult` or
  `ProviderFails` and `RecordFailure`. `Crash` and `Redeliver` are the queue's.
* `ExtractionPipeline` is `extraction-events.ts`, `extraction/runner.ts`,
  `extraction-review.ts` and the requests of `document.ts` that write the same
  status. A handler goes `ReadRun`, `Claim`, then `StoreResult` and
  `ShowForReview`, or `ProviderFails` and `RecordFailure`; a person's request is
  `ReadRequest` (the check) followed by `Confirm`, `Reject`, `Associate` or
  `Archive` (the transaction) and, for a decision, `Resolve` (the queue row).
  OCR is two actions here, `OcrCompletes` and `OcrReopens`: what `OcrPipeline`
  shows it can do to `ocr_status` after a first completion, and `OcrReopens` is
  final, the worst case. Documents are of none of the classes that promotion
  treats apart (`AUTOS_CLASSES`). `confirmExtractionRun` of the runner is called by
  tests only. `document.associated` and `document.confirmed` are delivered at
  any time and any number of times, so they need no queue of their own.
* `DeadlineLifecycle` is the deadline service, the overdue sweep, the
  re-analysis that dismisses deadlines in bulk, the consumers and the two queue
  rows of a deadline. A request is `ReadDeadline` (outside the transaction) and
  `WriteDeadline` (the transaction); a sweep is `BeginSweep`, `SweepTransition`
  and `SweepProject`; an event is an element of `pending` until its job is done.
* `SnapshotLifecycle` follows a confirmed extraction to snapshots: a handler goes
  `ReadPromotion`, `Propose` (the transaction) and `Show` (the queue row), or
  `FailPromotion`; a person's decision is `ReadSnapshot` followed by `Approve`,
  `Reject` or `Supersede`, each with the guard its repository's UPDATE has, and
  `Resolve`. A row's columns are a set of marks, empty while it is proposed. A row
  entered by hand (`ProposeByHand`) may say that it amends any row of its table
  (`Amendable`), as the routes take `amendsSnapshotId` for what it is; it supersedes
  nothing. `replacedBy` holds the replacements that superseded events name.
* `Opportunity` is the service, the analysis that detects and dismisses
  opportunities in bulk, and the consumers of `opportunity.created` and
  `opportunity.qualified`. A review is `Read` and `Review`; a handler goes
  `HandleCreated` (queue row), `TaskExistsForEvent`, `CreateReviewTask`,
  `RequestNotification`, `Acknowledge`. The consumers of `opportunity.dismissed`
  and `opportunity.reviewed` are never called (see `opportunity_settled`).
* `Recalculation` is the consumers of the changes and of
  `engine.evaluation.requested`: `TakeChange`, one `InvalidateDependency` per
  dependency, then per case `LookForScheduled` and `ScheduleRecalculation`; an
  evaluator goes `TakeRun`, `StartRecalculation`, `CompleteRecalculation`. In
  the source this consumer no longer evaluates (`W/consumers/engine-events.ts:526`).
* `SlaSweeps` is the two sweeps of `escalation-engine.ts`, statement by statement
  (`BeginEscalation`, `MarkBreached`, `RaiseLevel`, `RecordLevel`; `BeginStale`,
  `EscalateTask`, `RecordTask`), with `SkipItem` for the caught error of an item
  and `SweepDies`, the upsert and resolution of rows, and people at the tasks.
* `Evaluation` has no state: it is what the engine concludes from a case's facts,
  as operators. `LoadedEvents` is what the loader reads of a timeline, its newest
  events up to `EventLimit` (50 in the code), whatever their kind, and
  `Interruptions` its walk over them,
  `BlockingCodes` and `Suppressed` are `blocking.ts`, the evaluators keep their
  names, `SeedPlaybook` is the playbook the seed installs and `LepPlaybook` the
  one of `v3-lep-2019.ts`. Percentages are hundredths and sixths, so there is no
  rounding; confidence, uncertainty and explanations, on which no suggestion
  depends, are left out.
* `EngineRuns` is an evaluation asked for over the API (`A/routes/engine.ts`)
  while people enter, confirm and replace snapshots and events. Its queries run
  side by side (`Promise.all` in `loadCaseFacts`), so `ReadSentence`,
  `ReadCustody` and `ReadTimeline` are actions in any order; `CommitRun` is the
  one transaction of `commitEngineRun`, `FailRun` everything that makes it fail,
  `Invalidate` a job of `engine-events.ts` that marks dependencies. `AnswerRequest`
  is one step of a request, `MaxRuns` bounds the runs committed or under way. Its
  variables and `EngineSpec` have names of their own, so that one module can prove
  about both modules of the engine. Snapshots and events are numbered by legal time, not by time of entry: both may be
  entered late.
* An `MC` module with `.cfg` per specification gives TLC its instances; the
  eight `...Proofs` modules hold the theorems.

Definitions marked "Fault:" are deliberately wrong variants of the definition
after them. Nothing uses them; each shows which property notices that mistake.

## The runs

| Run | Shows |
|---|---|
| `outbox` | two relays, three events (one without consumer), two tries, one cycle that dies: the relay implements the contract, explains every duplicate and settles every event; one out of tries is failed for good, not dead-lettered |
| `ocr` | three handlers, two attempts, one crash, two repeated deliveries: document and run agree, no run is stranded, every run settles |
| `ocr_duplicate` (violated) | a repeated delivery turns a completed run back to requested |
| `extraction` | two handlers, two people, two attempts, one crash or repeated delivery: no run is stranded while its text stands, a run under review is listed, no run is approved twice, every run settles |
| `deadline` | two racing requests, a sweep, a re-analysis and the consumers on one deadline, or two overlapping sweeps over three deadlines in batches of two, with one fault: the history stays faithful and legal, a deadline becomes overdue once, soon, and listed |
| `snapshot` | two handlers of a promotion, two people, three snapshots, two faults: one decision per sentence snapshot, the engine set off at most once and each snapshot superseded at most once, proposals listed, one snapshot per delivery |
| `opportunity` | two reviewers, two handlers, three reviews, one fault: recorded reviews only, one task per delivery at most, what is created reaches people |
| `opportunity_settled` (violated) | a rejected opportunity stays on its queue for good, without any fault |
| `recalculation` | a fact two cases may depend on, two handlers, two evaluators, two faults: stale results are scheduled, a change is recalculated, each stranded run has its crash |
| `sla` | two sweeps on a row or a task, two people, all levels, one fault: nothing taken back, escalations recorded, a breach gets to the top |
| `engine` | an evaluation while two sentence snapshots, two custody snapshots and two events are entered, confirmed and replaced, with either playbook: a blocked case is suggested nothing, a run on a replaced sentence is marked unless the mark came before its commit |
| `engine_escape` (violated) | an escape followed by a sanction no longer blocks |

**Bounds.** Two actors are enough for every race in this code: each is between
one reader whose read grows stale and one writer; OCR has three handlers so that
a crashed one, its replacement and a duplicate can meet. Two tries or attempts
distinguish the first, the last and the one after the last. One fault per run is
the worst the recovery code distinguishes, as it keeps no count of crashes.
Three events with a batch of two, and three deadlines with a batch of two, make
batches that are full, partial and overlapping. Extraction has one document,
because handlers, requests and consumers relate only rows of the same document,
and one fault that may be a crash or a repeated delivery. A behaviour of `deadline`
plays in one of two scenes that `MCDeadline` keeps apart, to afford three deadlines:
requests, a re-analysis and one sweep work on one deadline, or two sweeps work through
three that no request touches. Its fairness is that of `FairSpec`, less the
actions a scene does not have. `snapshot` has room for a promotion,
its duplicate and a replacement; users and handlers are interchangeable there,
and nothing in the run is a liveness property, so symmetry is sound.
`opportunity` bounds the reviews begun by three: one to move on, one on a stale
read, one after. `recalculation` needs a second case only to be affected through a
dependency, and `Home` says to which case the fact belongs. `sla` has one row or
one task, since sweeps relate items only through their batch; the thresholds of
the levels are 2 and 3 and time runs to 4, so that each level is reached and
passed, and its batch of 1 holds all there is: with more breached rows than
`LIMIT` (200, without an order) a sweep may pass one over for ever, and
`BreachEscalated` does not say otherwise. `engine` enters at most three rows
(`MaxFacts`) and commits one run: a replaced sentence with a custody snapshot, or
a sentence with an escape and a sanction; what the next run would read is again
what people have entered, and runs share nothing but the facts. The loader reads one
of its two events, so that a newer one of any kind hides an escape; in
`engine_escape` it reads both, so that the violation is the walk's alone. Its two sentences
are one that qualifies for progression without crimes listed and one with a
crime that forbids parole and a remission that the opportunities table refuses.

**Fairness.** The relay's `setInterval` ticks for as long as the process lives and
a cycle is a finite loop: weak fairness of `Relay(r)`. pg-boss offers a job
until it is completed and providers answer or reject: weak fairness of a
handler's steps (`Execute`, `HandleChange`, `Evaluate`, `Handle`). The overdue
sweep is a cron: weak fairness of `Sweep(s)`. The two escalation sweeps are crons
that come back however often an upsert or a resolution disables them meanwhile:
strong fairness of each, and weak fairness of the clock. No request or review is
ever assumed to come, so nothing is assumed to be decided; `snapshot` and `engine`,
which people drive, have no fairness and no liveness property. Crashes, repeated
deliveries and caught errors are bounded by constants. pg-boss stops after
three retries (`W/queues/config.ts:36`); the liveness results are for jobs
that do not fail that often.

**Deadlock** is not checked: every system here may come to rest when its
events, runs or deadlines are settled.

## What the runs found

Three runs show the code at odds with what the repository says of it by violating
it, and one by what holds:

1. *OCR, `W/ocr/runner.ts:160` (`ocr_duplicate`).* The handler that lost the claim
   returns from the transaction callback only. It calls the provider, fails on
   the unique index of the result, and its catch block undoes the completed
   run. The obvious repair, to stop when the run is running, would strand the
   run of a crashed handler: `NoOrphanRun` and `RunSettles` break (the variant
   `FinishedOrRunning`). A claim needs an owner or a lease.
2. *Engine, `packages/engine/src/snapshots/loader.ts:216` (`engine_escape`).* The
   `break` at the newest sanction, meant to count one sanction, ends the search
   for older escapes too: a fugitive who is then sanctioned is evaluated without
   `BLK_ESCAPE`. Progression stays blocked by the sanction; parole and detraction
   do not. Besides, the query reads the newest 50 events of any kind
   (`loader.ts:178`): an escape with as many events after it is not seen either,
   sanction or not. `EscapeBlocksExactly`, proved for every limit,
   says which escapes block.
3. *Opportunities, `W/consumers/opportunity-events.ts:253` (`opportunity_settled`).*
   The consumers that take a dismissed, rejected or realized opportunity off its queue
   wait for `opportunity.dismissed` and `opportunity.reviewed`. A review emits
   `opportunity.rejected` or `opportunity.realized` instead
   (`A/services/opportunity.ts:535`), for which there is no queue, so a rejected
   suggestion stays active. An early rejection would have a second way to end so,
   if these consumers were called: `opportunity.created` has a queue of its own,
   and its upsert activates the row whatever was handled before.
4. *Outbox, `W/outbox/relay.ts:197` (`outbox`).* An event out of tries is marked
   `failed` and no SELECT ever returns it. The header (`W/outbox/relay.ts:26-27`) and
   the schema (`packages/db/src/schema/domain-event.ts:243-244`) say that it becomes
   `dead_lettered`, and `packages/db/src/schema/_enums.ts:122-123` that a `failed` one
   will be retried. `RetryBudget` states what the code does, failed exactly when the
   tries are used up; `dead_lettered` is a status of the model, as it is of the column,
   that no step writes.

The models contain, without a run of their own:

* *Deadlines.* Terminal states are checked on a stale read
  (`A/services/deadline.ts:242`), so a decision can be overwritten, and the
  history shows every transition as legal all the same (`LegalTrail`). A
  re-analysis changes statuses without history or event
  (`A/services/case-analysis.ts:466`). An acknowledgement handled after the
  completion puts the deadline back in its queue for good
  (`W/consumers/deadline-events.ts:178`), and a sweep that lost the race lists a
  deadline somebody just settled (`W/sla/overdue-sweep.ts:126`).
* *Review.* A rejection that comes too late rejects the document and records the
  decision while the run stays confirmed or is executed again
  (`A/services/extraction-review.ts:308`). The extraction of a document uploaded
  into its case takes back the confirmation the upload gave it
  (`W/extraction/runner.ts:194`).
* *Snapshots.* A custody snapshot that was rejected can be confirmed
  (`A/repositories/custody-snapshot.ts:54`, while
  `docs/review-confirmation-report.md:182` calls a rejection a hard stop). A row
  entered by hand may name any row of its table as the one it amends
  (`A/routes/case-snapshots.ts:56,68`), of which only the existence is checked
  (`A/services/sentence-snapshot.ts:95-104`, `A/services/custody-snapshot.ts:89`): several may
  amend one snapshot, which stays as it was, although the schema says that the
  amended row "remains with superseded_at set"
  (`packages/db/src/schema/custody-snapshot.ts:208`). `ConfirmedOnce` therefore
  speaks of the replacements that superseded events name.
* *Opportunities.* Two handlers of a repeated event insert two tasks
  (`W/projections/workflow-task.ts:145`); `TasksAccounted` bounds them by the deliveries.
* *Engine.* `livramento` and `remission_impact` are not among the types of the
  opportunities table: with the LEP playbook any such proposal makes the whole
  commit fail, and `failEngineRun` then updates a run that was never inserted. No
  seed installs that playbook. A superseded custody snapshot is still loaded
  (`loader.ts` asks only who confirmed it). The job of a new custody snapshot
  marks the dependencies on that new id, on which nothing depends yet; the runs
  that used the one before it stay unmarked. A run whose evaluation was under way when its
  sentence's replacement was handled is never marked (`MarkedOrRaced` names the
  case). With crimes known, all four progression rules of the LEP playbook give
  the same answer, four proposals.

## The proofs

TLAPS proves, for every value of the constants under each module's assumption
(bounds are naturals, limits positive, subsets are subsets):

* `OutboxProofs`: types, `RetryBudget`, `DuplicatesAccounted`, and that every
  step of the relay is a step or a stutter of `EventLog` (`Refinement`). The
  invariant adds that batches of two relays are disjoint and hold pending rows
  with tries left, and that a row in `published` has its job; without them a
  commit could overwrite another relay's mark.
* `OcrProofs`: types, `Mirrored`, `NoOrphanRun`. The invariant adds where a
  result, a job or an active handler pins the run's status. Three more say how far
  the finding of `ocr_duplicate` reaches: until a request is delivered twice, one
  handler at a time executes a run (`OneExecution`), a run that is over stays so
  (`SettledStays`) and `attempt_count` stays within its maximum
  (`AttemptsBounded`), whatever crashes, since a run that is not over has exactly one
  job or handler (`OneCarrier`), whose attempt is one ahead of the count when it is
  to claim (`AttemptsInv`). After a repeated delivery all three fail. TLC agrees on
  the instance of `ocr`; they are not among that run's properties, which are about
  what repeated deliveries leave intact.
* `ExtractionProofs`: types, `NoOrphanRun`, `ApprovedOnce`, `ReviewListed`. For
  the first, a handler that only has the queue row left to write does not count
  as help (`Cared`): another handler's failure can undo the run meanwhile. For
  the others, a run comes under review only with its first result
  (`ReviewedOnce`), so who has decided left nothing under review (`Deciding`);
  and every step but a crash keeps each document `Settled`. `OneExecution` is the
  OCR pipeline's, with the bound on attempts, and `OneCarrier` its invariant; that
  a run which is over stays so is not true here, as a handler that stored the facts
  and cannot list them undoes whatever was decided meanwhile.
* `DeadlineProofs`: types, `HistoryTrail`, `LegalTrail`, `OverdueFirst`. The
  invariant adds that what a request read is still in the history
  (`ReadReached`) and that an open deadline has an empty one (`OpenUntouched`),
  which is why a sweep can only come first.
* `SnapshotProofs`: types, `SentenceDecidedOnce`, `ConfirmedOnce`, `ProposedListed`,
  `OneSnapshotPerDelivery`.
  `DecisionInv` adds which marks the two kinds can carry (`SentenceMarks`,
  `CustodyMarks`), that a request under way decides on a snapshot that exists
  (`RequestsFounded`), that a mark, its event and the replacement it names come
  together (`ReplacedOnce`) and
  that a number not yet used carries nothing (`NoneIsNew`). For the list, the set
  of unlisted proposals is finite and grows by one per crash at most. For the last,
  `DeliveryInv`: deliveries pay for the snapshots made and for the handlers that are
  about to make one.
* `OpportunityProofs`: types, `HumanGate`, `TasksAccounted`. `GateInv` adds
  that the status a reviewer read is backed by the history too (`ReadBacked`),
  which is why a stale read does no harm. `TaskInv` counts, per opportunity, the jobs
  waiting with the handlers at work, and the tasks with the handlers about to
  insert one: both are one and one more per repeated delivery at most, since a handler
  goes on to insert only when there is no task yet.
* `EngineProofs`, of `Recalculation`: types, `StaleIsScheduled`, `OneAbandonedPerCrash`. A
  case a handler has marked stays in that handler's list until it is scheduled
  (`MarkedIsCarried`); abandoned runs grow by at most one per dead evaluator.
* `EngineProofs`, of `EngineRuns`: types (the newest of a finite set of snapshots
  exists by well-founded induction on sets), `NothingWhileBlocked` and
  `MarkedOrRaced`. The first rests on lemmas about the codes: one that blocks
  everything comes first and the missing process number is among them, so what
  `Suppressed` sees does not depend on the evaluators, whose sums over a list of
  crimes need not be computed. For the second, `RaceInv` adds what a run must
  have inherited when it is committed: an evaluation under way that has read a
  superseded sentence is overtaken or its job still waits (`ReadersRaced`).
  `EscapeBlocksExactly` is `EscapeBlocks` with the code's two exceptions, as an
  equivalence: `BLK_ESCAPE` is among the codes of a run exactly if its timeline holds an
  escape after which came no recapture, no sanction and fewer events than the
  loader reads. It rests on `LaterLoaded`: what comes after an event that is read is read
  too. `SeedNeverRefused`:
  the proposals of the seed's playbook always have a type the table accepts.
* `SlaProofs`: types, `NothingTakenBack` (an action property, for which the types
  suffice), `EscalationsRecorded`: the set of missing records is finite and grows
  by at most one per failed statement or dead sweep.

Each follows one argument: the invariant holds initially, every action keeps it
(one lemma or step per group of actions), and it implies the property.

Only model-checked: every liveness property (`NothingForgotten`, `RunSettles`,
`OverdueNoticed`, `OverdueListed`, `CreatedServed`, `ChangeIsRecalculated`,
`BreachEscalated`), because TLAPS does not reason about fairness and ENABLED. What
the evaluators' sums (`Needed`) come to for every list of crimes is neither
proved nor needed: no property depends on it.

## Not modelled

* The web applications, authentication and read services: no state of their
  own. They and the routes and seeds are most of the repository's lines, which is
  why the modules cover the state-changing core and not a large share of the
  code.
* Providers, scraping and parsing of courts, notifications: calls to services
  outside; where a consumer waits for one it is an outcome of its action.
* Upload and intake of bundles and blobs, the movements and syncs of court
  systems, the freshness of autos: sequential inserts with a unique key, whose
  few meetings with the modelled tables are in `ExtractionPipeline`.
* The engine's replay and point-in-time queries (reads only), playbook
  resolution and merging, confidence and uncertainty, the mock playbooks, the
  MVP engine that only a script calls.
* The arithmetic of a snapshot's figures, and the analysis of the autos, a model
  call followed by inserts (what it does to deadlines and opportunities is in
  their modules).
* The composition of outbox and consumers in one module: consumers are given
  what `EventLog` promises, at-least-once delivery in any order, which is what
  `ImplementsLog` shows of the relay.
