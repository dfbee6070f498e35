------------------------- MODULE ExtractionPipeline -------------------------
(***************************************************************************)
(* From the text OCR read to a human decision on the facts found in it:    *)
(* packages/workers/src/extraction/runner.ts with its consumers, and the    *)
(* requests that review, associate and archive documents                    *)
(* (apps/api/src/services/extraction-review.ts, document.ts).               *)
(*                                                                         *)
(* One document has one extraction run.  Its worker is the OCR worker's     *)
(* twin, with one write more after its transaction (the review queue row).  *)
(* Requests check a status they read before their transaction.  All of them *)
(* write documents.status, most without looking at what it has become.      *)
(***************************************************************************)
EXTENDS Naturals, FiniteSets

CONSTANTS
  Documents,      \* documents, none of the classes AUTOS_CLASSES
  Handlers,       \* concurrent extraction.requested handlers
  Users,          \* people with a request under way
  MaxAttempts,    \* extraction_runs.max_attempts (resolveExtractionMaxAttempts)
  MaxFaults       \* bound: handlers and requests lost half-way, and extra
                  \* deliveries of an extraction.requested event

ASSUME ExtractionAssumption ==
  /\ IsFiniteSet(Documents)
  /\ MaxAttempts \in Nat \ {0}
  /\ MaxFaults \in Nat

VARIABLES
  docStatus,   \* documents.status, "unregistered" before the insert
  direct,      \* documents uploaded by hand into their case
  ocr,         \* documents.ocr_status: completed, or not (yet, any more)
  runStatus,   \* extraction_runs.status, "none" before the insert
  attempts,    \* extraction_runs.attempt_count
  result,      \* documents with a row in document_extraction_results
  approvals, rejections,   \* rows of review_decisions, by decision
  associated,  \* documents with a document.associated event
  queue,       \* the document's row in the extraction_review queue
  requests,    \* extraction.requested jobs waiting, per document
  handler, user,           \* where each is, with its local variables
  crashes, duplicates

run == <<runStatus, attempts, result>>
doc == <<docStatus, direct, ocr, associated>>
decisions == <<approvals, rejections>>
budget == <<crashes, duplicates>>
vars == <<run, doc, decisions, queue, requests, handler, user, budget>>

DocStatuses ==
  {"unregistered", "pending_association", "pending_extraction",
   "extraction_running", "extraction_review", "confirmed", "rejected", "archived"}
RunStatuses ==
  {"none", "requested", "running", "review", "confirmed", "rejected", "failed"}

Idle == [at |-> "idle"]
Active == [at : {"claim", "provider", "show"}, doc : Documents, attempt : Nat]
Failing == [at : {"failing"}, doc : Documents, attempt : Nat, retryable : BOOLEAN]
Requesting ==
  [at : {"associate", "archive", "confirm", "reject", "resolve"}, doc : Documents]

Init ==
  /\ docStatus = [d \in Documents |-> "unregistered"]
  /\ direct = {}
  /\ ocr = [d \in Documents |-> "pending"]
  /\ runStatus = [d \in Documents |-> "none"]
  /\ attempts = [d \in Documents |-> 0]
  /\ result = {}
  /\ approvals = [d \in Documents |-> 0]
  /\ rejections = [d \in Documents |-> 0]
  /\ associated = {}
  /\ queue = [d \in Documents |-> "absent"]
  /\ requests = [d \in Documents |-> 0]
  /\ handler = [h \in Handlers |-> Idle]
  /\ user = [u \in Users |-> Idle]
  /\ crashes = 0
  /\ duplicates = 0

-----------------------------------------------------------------------------
\* A document arrives: by hand into a case, with a case or client known, or
\* with neither.
Register(d) ==
  /\ docStatus[d] = "unregistered"
  /\ \E s \in {"confirmed", "pending_extraction", "pending_association"} :
       /\ docStatus' = [docStatus EXCEPT ![d] = s]
       /\ direct' = IF s = "confirmed" THEN direct \cup {d} ELSE direct
  /\ UNCHANGED <<ocr, associated, run, decisions, queue, requests, handler, user, budget>>

\* The OCR pipeline stores the text, whatever the document's status.
OcrCompletes(d) ==
  /\ docStatus[d] # "unregistered"
  /\ ocr[d] = "pending"
  /\ ocr' = [ocr EXCEPT ![d] = "completed"]
  /\ UNCHANGED <<docStatus, direct, associated, run, decisions, queue, requests, handler,
                 user, budget>>

\* A late OCR handler undoes the completion, for good (OcrPipeline).
OcrReopens(d) ==
  /\ ocr[d] = "completed"
  /\ ocr' = [ocr EXCEPT ![d] = "reopened"]
  /\ UNCHANGED <<docStatus, direct, associated, run, decisions, queue, requests, handler,
                 user, budget>>

\* The run of a trigger is inserted once, with its event.
ScheduleRun(d) ==
  /\ runStatus[d] = "none"
  /\ runStatus' = [runStatus EXCEPT ![d] = "requested"]
  /\ requests' = [requests EXCEPT ![d] = @ + 1]

\* A delivery, first or repeated, of ocr.completed.
HandleOcrCompleted(d) ==
  /\ ocr[d] = "completed"
  /\ ScheduleRun(d)
  /\ UNCHANGED <<doc, attempts, result, decisions, queue, handler, user, budget>>

-----------------------------------------------------------------------------
\* Fault: a run that is running is left to whoever claimed it.
OverOrRunning(d) == runStatus[d] \in {"review", "confirmed", "failed", "running"}
\* The run needs no execution, as far as the status read shows.  A rejected
\* run is not among these.
Over(d) ==
  \/ runStatus[d] \in {"review", "confirmed"}
  \/ runStatus[d] = "failed" /\ attempts[d] >= MaxAttempts

\* A handler takes a job, reads the run and its document; nothing is locked.
ReadRun(h, d) ==
  /\ handler[h] = Idle
  /\ requests[d] > 0
  /\ requests' = [requests EXCEPT ![d] = @ - 1]
  /\ handler' = [handler EXCEPT ![h] =
       IF Over(d) \/ ocr[d] # "completed" THEN Idle
       ELSE [at |-> "claim", doc |-> d, attempt |-> attempts[d] + 1]]
  /\ UNCHANGED <<run, doc, decisions, queue, user, budget>>

\* The claim transaction: the document follows, whatever its status was.  A
\* handler whose guarded update matched nothing goes on all the same.
Claim(h) ==
  /\ handler[h].at = "claim"
  /\ LET d == handler[h].doc IN
       \/ /\ runStatus[d] \in {"requested", "failed"}
          /\ runStatus' = [runStatus EXCEPT ![d] = "running"]
          /\ attempts' = [attempts EXCEPT ![d] = handler[h].attempt]
          /\ docStatus' = [docStatus EXCEPT ![d] = "extraction_running"]
       \/ /\ runStatus[d] \notin {"requested", "failed"}
          /\ UNCHANGED <<runStatus, attempts, docStatus>>
  /\ handler' = [handler EXCEPT ![h].at = "provider"]
  /\ UNCHANGED <<result, direct, ocr, associated, decisions, queue, requests, user, budget>>

Fail(h, canRetry) ==
  handler' = [handler EXCEPT ![h] =
    [at |-> "failing", doc |-> @.doc, attempt |-> @.attempt, retryable |-> canRetry]]

\* The provider rejects, its answer is malformed, or the transaction fails.
ProviderFails(h) ==
  /\ handler[h].at = "provider"
  /\ \E canRetry \in BOOLEAN : Fail(h, canRetry)
  /\ UNCHANGED <<run, doc, decisions, queue, requests, user, budget>>

\* Fault: the handler is done once the facts are stored.
StoredIsDone(h) == Idle
Stored(h) == [handler[h] EXCEPT !.at = "show"]

\* The facts are stored and put under review; a second result of the run is
\* refused by the unique index, and the refusal lands in the catch block.
StoreResult(h) ==
  /\ handler[h].at = "provider"
  /\ LET d == handler[h].doc IN
     \/ /\ d \notin result
        /\ result' = result \cup {d}
        /\ runStatus' = [runStatus EXCEPT ![d] = "review"]
        /\ docStatus' = [docStatus EXCEPT ![d] = "extraction_review"]
        /\ handler' = [handler EXCEPT ![h] = Stored(h)]
        /\ UNCHANGED attempts
     \/ /\ d \in result
        /\ Fail(h, TRUE)
        /\ UNCHANGED <<run, docStatus>>
  /\ UNCHANGED <<direct, ocr, associated, decisions, queue, requests, user, budget>>

\* After its transaction, but inside the same try block, the handler lists
\* the document for review.
ShowForReview(h) ==
  /\ handler[h].at = "show"
  /\ \/ /\ queue' = [queue EXCEPT ![handler[h].doc] = "active"]
        /\ handler' = [handler EXCEPT ![h] = Idle]
     \/ Fail(h, TRUE) /\ UNCHANGED queue
  /\ UNCHANGED <<run, doc, decisions, requests, user, budget>>

Final(h) == handler[h].attempt >= MaxAttempts \/ ~handler[h].retryable

\* Fault: the run gets the document's word for it.
FailedRunPending(h) == IF Final(h) THEN "pending_extraction" ELSE "requested"
FailedRun(h) == IF Final(h) THEN "failed" ELSE "requested"

\* The catch block: it selects by id alone, whatever run and document have
\* become, and leaves the document as it is when the run will be retried.
RecordFailure(h) ==
  /\ handler[h].at = "failing"
  /\ LET d == handler[h].doc IN
     /\ runStatus' = [runStatus EXCEPT ![d] = FailedRun(h)]
     /\ docStatus' = [docStatus EXCEPT ![d] = IF Final(h) THEN "pending_extraction" ELSE @]
     /\ requests' = [requests EXCEPT ![d] = IF Final(h) THEN @ ELSE @ + 1]
  /\ handler' = [handler EXCEPT ![h] = Idle]
  /\ UNCHANGED <<attempts, result, direct, ocr, associated, decisions, queue, user, budget>>

\* The worker dies; pg-boss expires the job and offers it again.
Crash(h) ==
  /\ handler[h] # Idle
  /\ crashes + duplicates < MaxFaults
  /\ crashes' = crashes + 1
  /\ requests' = [requests EXCEPT ![handler[h].doc] = @ + 1]
  /\ handler' = [handler EXCEPT ![h] = Idle]
  /\ UNCHANGED <<run, doc, decisions, queue, user, duplicates>>

\* A repeated delivery of extraction.requested.
Redeliver(d) ==
  /\ runStatus[d] # "none"
  /\ crashes + duplicates < MaxFaults
  /\ duplicates' = duplicates + 1
  /\ requests' = [requests EXCEPT ![d] = @ + 1]
  /\ UNCHANGED <<run, doc, decisions, queue, handler, user, crashes>>

-----------------------------------------------------------------------------
\* What a request checks before its transaction.
Allowed(act, d) ==
  \/ act = "associate" /\ docStatus[d] = "pending_association"
  \/ act = "archive" /\ docStatus[d] \in {"pending_association", "pending_extraction"}
  \/ act \in {"confirm", "reject"} /\ runStatus[d] = "review"

ReadRequest(u, d) ==
  /\ user[u] = Idle
  /\ \E act \in {"associate", "archive", "confirm", "reject"} :
       /\ Allowed(act, d)
       /\ user' = [user EXCEPT ![u] = [at |-> act, doc |-> d]]
  /\ UNCHANGED <<run, doc, decisions, queue, requests, handler, budget>>

\* Associating and archiving write over whatever the document has become.
Associate(u) ==
  /\ user[u].at = "associate"
  /\ docStatus' = [docStatus EXCEPT ![user[u].doc] = "pending_extraction"]
  /\ associated' = associated \cup {user[u].doc}
  /\ user' = [user EXCEPT ![u] = Idle]
  /\ UNCHANGED <<direct, ocr, run, decisions, queue, requests, handler, budget>>

Archive(u) ==
  /\ user[u].at = "archive"
  /\ docStatus' = [docStatus EXCEPT ![user[u].doc] = "archived"]
  /\ user' = [user EXCEPT ![u] = Idle]
  /\ UNCHANGED <<direct, ocr, associated, run, decisions, queue, requests, handler, budget>>

\* Fault: the confirmation trusts the status it read.
StillInReviewUnchecked(d) == TRUE
StillInReview(d) == runStatus[d] = "review"

\* Confirming checks the run again: a run no longer under review is a
\* conflict, and nothing is written.
Confirm(u) ==
  /\ user[u].at = "confirm"
  /\ LET d == user[u].doc IN
     \/ /\ StillInReview(d)
        /\ runStatus' = [runStatus EXCEPT ![d] = "confirmed"]
        /\ docStatus' = [docStatus EXCEPT ![d] = "confirmed"]
        /\ approvals' = [approvals EXCEPT ![d] = @ + 1]
        /\ user' = [user EXCEPT ![u].at = "resolve"]
     \/ /\ ~StillInReview(d)
        /\ user' = [user EXCEPT ![u] = Idle]
        /\ UNCHANGED <<runStatus, docStatus, approvals>>
  /\ UNCHANGED <<attempts, result, direct, ocr, associated, rejections, queue, requests,
                 handler, budget>>

\* Rejecting guards the run but not the rest: a rejection that came too late
\* still marks the document, and is recorded.
Reject(u) ==
  /\ user[u].at = "reject"
  /\ LET d == user[u].doc IN
     /\ runStatus' = [runStatus EXCEPT ![d] = IF StillInReview(d) THEN "rejected" ELSE @]
     /\ docStatus' = [docStatus EXCEPT ![d] = "rejected"]
     /\ rejections' = [rejections EXCEPT ![d] = @ + 1]
  /\ user' = [user EXCEPT ![u].at = "resolve"]
  /\ UNCHANGED <<attempts, result, direct, ocr, associated, approvals, queue, requests,
                 handler, budget>>

ResolveRow(d) == queue' = [queue EXCEPT ![d] = IF @ = "active" THEN "resolved" ELSE @]

\* A decided request takes the document off the review queue.
Resolve(u) ==
  /\ user[u].at = "resolve"
  /\ ResolveRow(user[u].doc)
  /\ user' = [user EXCEPT ![u] = Idle]
  /\ UNCHANGED <<run, doc, decisions, requests, handler, budget>>

\* The API dies between the decision and the queue: nobody asks again.
RequestLost(u) ==
  /\ user[u].at = "resolve"
  /\ crashes + duplicates < MaxFaults
  /\ crashes' = crashes + 1
  /\ user' = [user EXCEPT ![u] = Idle]
  /\ UNCHANGED <<run, doc, decisions, queue, requests, handler, duplicates>>

\* Deliveries, first or repeated, early or late, of document.associated and
\* of document.confirmed.  The former's payload says pending_extraction.
HandleAssociated(d) ==
  /\ d \in associated
  /\ queue' = [queue EXCEPT ![d] = "active"]
  /\ UNCHANGED <<run, doc, decisions, requests, handler, user, budget>>

HandleConfirmed(d) ==
  /\ approvals[d] > 0
  /\ ResolveRow(d)
  /\ UNCHANGED <<run, doc, decisions, requests, handler, user, budget>>

-----------------------------------------------------------------------------
Execute(h) ==
  \/ \E d \in Documents : ReadRun(h, d)
  \/ Claim(h) \/ ProviderFails(h) \/ StoreResult(h) \/ ShowForReview(h) \/ RecordFailure(h)

Request(u) ==
  \/ \E d \in Documents : ReadRequest(u, d)
  \/ Associate(u) \/ Archive(u) \/ Confirm(u) \/ Reject(u) \/ Resolve(u) \/ RequestLost(u)

Next ==
  \/ \E d \in Documents :
       \/ Register(d) \/ OcrCompletes(d) \/ OcrReopens(d) \/ HandleOcrCompleted(d)
       \/ Redeliver(d) \/ HandleAssociated(d) \/ HandleConfirmed(d)
  \/ \E h \in Handlers : Execute(h) \/ Crash(h)
  \/ \E u \in Users : Request(u)

\* Jobs are delivered at least once and the provider call returns; nobody is
\* obliged to review, associate or archive.
Fairness ==
  /\ \A d \in Documents : WF_vars(HandleOcrCompleted(d))
  /\ \A h \in Handlers : WF_vars(Execute(h))

Spec == Init /\ [][Next]_vars
FairSpec == Spec /\ Fairness

-----------------------------------------------------------------------------
\* Every variable has its type.
TypeOK ==
  /\ docStatus \in [Documents -> DocStatuses]
  /\ direct \subseteq Documents
  /\ ocr \in [Documents -> {"pending", "completed", "reopened"}]
  /\ runStatus \in [Documents -> RunStatuses]
  /\ attempts \in [Documents -> Nat]
  /\ result \subseteq Documents
  /\ approvals \in [Documents -> Nat]
  /\ rejections \in [Documents -> Nat]
  /\ associated \subseteq Documents
  /\ queue \in [Documents -> {"absent", "active", "resolved"}]
  /\ requests \in [Documents -> Nat]
  /\ handler \in [Handlers -> {Idle} \cup Active \cup Failing]
  /\ user \in [Users -> {Idle} \cup Requesting]
  /\ crashes \in Nat /\ duplicates \in Nat
  /\ crashes + duplicates <= MaxFaults

\* A run that is not over has a job or a handler, unless OCR took its text
\* away: then the job was dropped and nothing looks at the run again
\* (extraction/runner.ts:144-154, :190).
InFlight(d) == \E h \in Handlers : handler[h] # Idle /\ handler[h].doc = d
NoOrphanRun ==
  \A d \in Documents :
    runStatus[d] \in {"requested", "running"} =>
      requests[d] > 0 \/ InFlight(d) \/ ocr[d] = "reopened"

\* A run under review is on the reviewers' list, or a handler is about to put
\* it there or to give it up, but for one document per crash between the two
\* writes: its job comes back, finds the run under review and returns
\* (extraction/runner.ts:144, :288).
Unsettled(d) ==
  \E h \in Handlers : handler[h].at \in {"show", "failing"} /\ handler[h].doc = d
Unlisted ==
  {d \in Documents : runStatus[d] = "review" /\ queue[d] # "active" /\ ~Unsettled(d)}
ReviewListed == Cardinality(Unlisted) <= crashes

\* However executions are repeated and requests race, a run is approved at
\* most once, since it comes under review at most once; and a confirmed
\* document that was not uploaded as such has its approval
\* (docs/extraction-pipeline-report.md:38, "Human-authority-first").
ApprovedOnce ==
  \A d \in Documents :
    /\ approvals[d] <= 1
    /\ runStatus[d] = "confirmed" => approvals[d] = 1
    /\ docStatus[d] = "confirmed" => d \in direct \/ approvals[d] = 1

\* A document whose text is there gets, for good, a run that waits for a
\* decision, has one, or failed, unless OCR takes the text away.
RunSettles ==
  \A d \in Documents :
    (ocr[d] = "completed") ~>
      [](ocr[d] = "reopened" \/ runStatus[d] \in {"review", "confirmed", "rejected", "failed"})
=============================================================================
