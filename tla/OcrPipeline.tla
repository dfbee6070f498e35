----------------------------- MODULE OcrPipeline -----------------------------
(***************************************************************************)
(* One OCR run per document, from document.registered to ocr.completed:     *)
(* packages/workers/src/consumers/ocr-events.ts and ocr/runner.ts.          *)
(*                                                                         *)
(* executeOcrRun is four separate database interactions with a provider     *)
(* call in the middle, run by up to five handlers at once in every worker   *)
(* process.  Its claim transaction returns early when another handler owns  *)
(* the run, but that return leaves only the transaction's callback: the     *)
(* handler goes on to the provider and to the writes after it.              *)
(***************************************************************************)
EXTENDS Naturals, FiniteSets

CONSTANTS
  Documents,      \* documents; a document's registration makes one run
  Eligible,       \* those with a mime type OCR reads
  Handlers,       \* concurrent ocr.requested handlers, over all processes
  MaxAttempts,    \* ocr_runs.max_attempts (resolveOcrMaxAttempts)
  MaxCrashes,     \* bound: handlers lost in flight; their job is retried
  MaxDuplicates   \* bound: extra deliveries of an ocr.requested event

ASSUME OcrAssumption ==
  /\ Eligible \subseteq Documents
  /\ MaxAttempts \in Nat \ {0}
  /\ MaxCrashes \in Nat
  /\ MaxDuplicates \in Nat

VARIABLES
  ocrStatus,   \* documents.ocr_status, "unregistered" before the insert
  runStatus,   \* ocr_runs.status, "none" before the insert
  attempts,    \* ocr_runs.attempt_count
  result,      \* documents whose run has its row in document_ocr_results
  requests,    \* ocr.requested jobs waiting in the queue, per document
  handler,     \* where each handler is, with its local variables
  crashes, duplicates

tables == <<ocrStatus, runStatus, attempts, result>>
budget == <<crashes, duplicates>>
vars == <<tables, requests, handler, budget>>

OcrStatuses == {"unregistered", "pending", "running", "completed", "failed",
                "not_applicable"}
RunStatuses == {"none", "requested", "running", "completed", "failed"}

\* doc and attempt are the handler's locals, read once at its start.
Idle == [at |-> "idle"]
Active == [at : {"claim", "provider"}, doc : Documents, attempt : Nat]
Failing == [at : {"failing"}, doc : Documents, attempt : Nat,
            retryable : BOOLEAN]

Init ==
  /\ ocrStatus = [d \in Documents |-> "unregistered"]
  /\ runStatus = [d \in Documents |-> "none"]
  /\ attempts = [d \in Documents |-> 0]
  /\ result = {}
  /\ requests = [d \in Documents |-> 0]
  /\ handler = [h \in Handlers |-> Idle]
  /\ crashes = 0
  /\ duplicates = 0

-----------------------------------------------------------------------------
\* The API stores the document with its document.registered event.
Register(d) ==
  /\ ocrStatus[d] = "unregistered"
  /\ ocrStatus' = [ocrStatus EXCEPT ![d] = "pending"]
  /\ UNCHANGED <<runStatus, attempts, result, requests, handler, budget>>

\* The transaction of scheduleOcrForDocument finds the run of this trigger or
\* inserts it with its event; the unique index stops a concurrent second insert.
ScheduleRun(d) ==
  /\ runStatus[d] = "none"
  /\ runStatus' = [runStatus EXCEPT ![d] = "requested"]
  /\ requests' = [requests EXCEPT ![d] = @ + 1]
  /\ UNCHANGED ocrStatus

\* A delivery, first or repeated, of document.registered.
HandleRegistered(d) ==
  /\ ocrStatus[d] = "pending"
  /\ \/ /\ d \notin Eligible
        /\ ocrStatus' = [ocrStatus EXCEPT ![d] = "not_applicable"]
        /\ UNCHANGED <<runStatus, requests>>
     \/ d \in Eligible /\ ScheduleRun(d)
  /\ UNCHANGED <<attempts, result, handler, budget>>

\* Fault: a run that is running is left to whoever claimed it.
FinishedOrRunning(d) == runStatus[d] \in {"completed", "failed", "running"}
\* The run is over, as far as the status read shows.
Finished(d) ==
  \/ runStatus[d] = "completed"
  \/ runStatus[d] = "failed" /\ attempts[d] >= MaxAttempts

\* A handler takes a job and reads the run; nothing is locked.
ReadRun(h, d) ==
  /\ handler[h] = Idle
  /\ requests[d] > 0
  /\ requests' = [requests EXCEPT ![d] = @ - 1]
  /\ handler' = [handler EXCEPT ![h] =
       IF Finished(d) THEN Idle
       ELSE [at |-> "claim", doc |-> d, attempt |-> attempts[d] + 1]]
  /\ UNCHANGED <<tables, budget>>

\* Fault: the document is marked without looking at what the update matched.
ClaimMissedMarksDocument(d) ==
  /\ ocrStatus' = [ocrStatus EXCEPT ![d] = "running"]
  /\ UNCHANGED <<runStatus, attempts>>
ClaimMissed(d) == UNCHANGED <<runStatus, attempts, ocrStatus>>

ClaimTaken(d, attempt) ==
  /\ runStatus' = [runStatus EXCEPT ![d] = "running"]
  /\ attempts' = [attempts EXCEPT ![d] = attempt]
  /\ ocrStatus' = [ocrStatus EXCEPT ![d] = "running"]

\* The claim transaction.  Whether or not the guarded update matched, the
\* handler continues with the provider.
Claim(h) ==
  /\ handler[h].at = "claim"
  /\ LET d == handler[h].doc IN
       IF runStatus[d] \in {"requested", "failed"}
       THEN ClaimTaken(d, handler[h].attempt)
       ELSE ClaimMissed(d)
  /\ handler' = [handler EXCEPT ![h].at = "provider"]
  /\ UNCHANGED <<result, requests, budget>>

Fail(h, canRetry) ==
  handler' = [handler EXCEPT ![h] =
    [at |-> "failing", doc |-> @.doc, attempt |-> @.attempt, retryable |-> canRetry]]

\* The provider rejects, or the transaction after it does.
ProviderFails(h) ==
  /\ handler[h].at = "provider"
  /\ \E canRetry \in BOOLEAN : Fail(h, canRetry)
  /\ UNCHANGED <<tables, requests, budget>>

\* The provider answers: insert the result, complete the run and the document
\* and emit ocr.completed, in one transaction.  The unique index on the run
\* rejects a second result, and the rejection lands in the catch block.
StoreResult(h) ==
  /\ handler[h].at = "provider"
  /\ LET d == handler[h].doc IN
     \/ /\ d \notin result
        /\ result' = result \cup {d}
        /\ runStatus' = [runStatus EXCEPT ![d] = "completed"]
        /\ ocrStatus' = [ocrStatus EXCEPT ![d] = "completed"]
        /\ handler' = [handler EXCEPT ![h] = Idle]
        /\ UNCHANGED attempts
     \/ /\ d \in result
        /\ Fail(h, TRUE)
        /\ UNCHANGED tables
  /\ UNCHANGED <<requests, budget>>

Final(h) == handler[h].attempt >= MaxAttempts \/ ~handler[h].retryable

\* Fault: the run gets the document's word for it.
FailedRunPending(h) == IF Final(h) THEN "failed" ELSE "pending"
FailedRun(h) == IF Final(h) THEN "failed" ELSE "requested"

\* The catch block: its updates select by id alone, whatever the run has
\* become; a failure that is not final requests the next attempt.
RecordFailure(h) ==
  /\ handler[h].at = "failing"
  /\ LET d == handler[h].doc IN
     /\ runStatus' = [runStatus EXCEPT ![d] = FailedRun(h)]
     /\ ocrStatus' = [ocrStatus EXCEPT ![d] = IF Final(h) THEN "failed" ELSE "pending"]
     /\ requests' = [requests EXCEPT ![d] = IF Final(h) THEN @ ELSE @ + 1]
  /\ handler' = [handler EXCEPT ![h] = Idle]
  /\ UNCHANGED <<attempts, result, budget>>

\* The process dies; pg-boss expires the job and offers it again.
Crash(h) ==
  /\ handler[h] # Idle
  /\ crashes < MaxCrashes
  /\ crashes' = crashes + 1
  /\ requests' = [requests EXCEPT ![handler[h].doc] = @ + 1]
  /\ handler' = [handler EXCEPT ![h] = Idle]
  /\ UNCHANGED <<tables, duplicates>>

\* The relay sends an ocr.requested event twice, or the queue gives up on a
\* slow handler and offers its job to another while the first still runs.
Redeliver(d) ==
  /\ runStatus[d] # "none"
  /\ duplicates < MaxDuplicates
  /\ duplicates' = duplicates + 1
  /\ requests' = [requests EXCEPT ![d] = @ + 1]
  /\ UNCHANGED <<tables, handler, crashes>>

Execute(h) ==
  \/ \E d \in Documents : ReadRun(h, d)
  \/ Claim(h) \/ ProviderFails(h) \/ StoreResult(h) \/ RecordFailure(h)

Next ==
  \/ \E d \in Documents : Register(d) \/ HandleRegistered(d) \/ Redeliver(d)
  \/ \E h \in Handlers : Execute(h) \/ Crash(h)

\* Jobs are delivered at least once and the provider call returns.
Fairness ==
  /\ \A d \in Documents : WF_vars(HandleRegistered(d))
  /\ \A h \in Handlers : WF_vars(Execute(h))

Spec == Init /\ [][Next]_vars
FairSpec == Spec /\ Fairness

-----------------------------------------------------------------------------
\* Every variable has its type.
TypeOK ==
  /\ ocrStatus \in [Documents -> OcrStatuses]
  /\ runStatus \in [Documents -> RunStatuses]
  /\ attempts \in [Documents -> Nat]
  /\ result \subseteq Documents
  /\ requests \in [Documents -> Nat]
  /\ handler \in [Handlers -> {Idle} \cup Active \cup Failing]
  /\ crashes \in 0..MaxCrashes
  /\ duplicates \in 0..MaxDuplicates

\* Four transactions write the run and the document side by side; however
\* handlers interleave, the document shows the state of its run
\* (ocr/runner.ts:143-187, :203-249, :255-325).
DocumentState(run) == IF run = "requested" THEN "pending" ELSE run
Mirrored ==
  \A d \in Documents :
    runStatus[d] # "none" => ocrStatus[d] = DocumentState(runStatus[d])

\* No crash or race strands a run: while it is not over, a job for it waits
\* or a handler is on its way.  Nothing else would ever look at it again, as
\* no sweep reads ocr_runs (ocr/runner.ts:127-129, :160).
InFlight(d) == \E h \in Handlers : handler[h] # Idle /\ handler[h].doc = d
NoOrphanRun ==
  \A d \in Documents :
    runStatus[d] \in {"requested", "running"} => requests[d] > 0 \/ InFlight(d)

\* Every eligible document that was registered ends, for good, with a run that
\* completed or failed, whatever the provider answers.
RunSettles ==
  \A d \in Eligible :
    (ocrStatus[d] = "pending") ~> [](runStatus[d] \in {"completed", "failed"})

\* What queues/config.ts:5 asks of every consumer, here of executeOcrRun: a
\* repeated delivery finds a completed run and leaves it completed.
CompletedStays ==
  [][\A d \in Documents : runStatus[d] = "completed" => runStatus'[d] = "completed"]_vars
=============================================================================
