-------------------------- MODULE ExtractionProofs --------------------------
(***************************************************************************)
(* Machine-checked facts about ExtractionPipeline, for any documents,       *)
(* handlers, people and bounds: its types, that no run is stranded, that a  *)
(* run is approved at most once, that reviewers see the runs under review,  *)
(* and that as long as no request was delivered twice a run is worked on by *)
(* one handler at a time and no more often than its attempts allow.         *)
(***************************************************************************)
EXTENDS ExtractionPipeline, FiniteSetTheorems, TLAPS

-----------------------------------------------------------------------------
\* What TypeOK says of one handler.
LEMMA HandlerShape ==
  ASSUME TypeOK, NEW h \in Handlers, handler[h].at # "idle"
  PROVE  /\ handler[h].doc \in Documents
         /\ handler[h].attempt \in Nat
         /\ handler[h] \in Active \/ handler[h] \in Failing
  BY DEF TypeOK, Idle, Active, Failing

\* What TypeOK says of one person's request.
LEMMA UserShape ==
  ASSUME TypeOK, NEW u \in Users, user[u].at # "idle"
  PROVE  user[u] \in Requesting /\ user[u].doc \in Documents
  BY DEF TypeOK, Idle, Requesting

\* A handler that gives up keeps its document and its attempt.
LEMMA FailShape ==
  ASSUME TypeOK, NEW h \in Handlers, NEW canRetry \in BOOLEAN,
         handler[h].at # "idle", Fail(h, canRetry)
  PROVE  /\ handler' \in [Handlers -> {Idle} \cup Active \cup Failing]
         /\ handler'[h] \in Failing /\ handler'[h] # Idle
         /\ handler'[h].doc = handler[h].doc
         /\ handler'[h].at = "failing"
         /\ \A g \in Handlers \ {h} : handler'[g] = handler[g]
  <1> DEFINE given == [at |-> "failing", doc |-> handler[h].doc,
                       attempt |-> handler[h].attempt, retryable |-> canRetry]
  <1>1. handler' = [handler EXCEPT ![h] = given]
    BY DEF Fail
  <1>2. given \in Failing /\ given # Idle
    BY HandlerShape DEF Failing, Idle
  <1>3. handler \in [Handlers -> {Idle} \cup Active \cup Failing]
    BY DEF TypeOK
  <1>4. given.doc = handler[h].doc /\ given.at = "failing"
    OBVIOUS
  <1> HIDE DEF given
  <1> QED
    BY <1>1, <1>2, <1>3, <1>4

-----------------------------------------------------------------------------
\* The initial values have their types.
LEMMA InitTypes == Init => TypeOK
  BY ExtractionAssumption DEF Init, TypeOK, DocStatuses, RunStatuses, Idle

\* A step of a worker keeps the types.
LEMMA ExecuteTypes ==
  ASSUME TypeOK, NEW h \in Handlers, Execute(h) \/ Crash(h)
  PROVE  TypeOK'
  <1> USE ExtractionAssumption DEF run, doc, decisions, budget
  <1>1. CASE \E d \in Documents : ReadRun(h, d)
    <2> PICK d \in Documents : ReadRun(h, d)
      BY <1>1
    <2>1. [at |-> "claim", doc |-> d, attempt |-> attempts[d] + 1] \in Active
      BY DEF TypeOK, Active
    <2> QED
      BY <2>1 DEF ReadRun, TypeOK
  <1>2. CASE Claim(h)
    <2>1. handler[h].at = "claim" /\ handler[h] \in Active
      BY <1>2, HandlerShape DEF Claim, Failing
    <2>2. [handler[h] EXCEPT !.at = "provider"] \in Active
      BY <2>1 DEF Active
    <2>3. handler' \in [Handlers -> {Idle} \cup Active \cup Failing]
      BY <1>2, <2>2 DEF Claim, TypeOK
    <2>4. handler[h].doc \in Documents /\ handler[h].attempt \in Nat
      BY <2>1 DEF Active
    <2> QED
      BY <1>2, <2>3, <2>4 DEF Claim, TypeOK, RunStatuses, DocStatuses
  <1>3. CASE ProviderFails(h)
    BY <1>3, FailShape DEF ProviderFails, TypeOK
  <1>4. CASE StoreResult(h)
    <2>1. handler[h] \in Active /\ handler[h].doc \in Documents
      BY <1>4, HandlerShape DEF StoreResult, Failing
    <2>2. CASE handler[h].doc \in result
      BY <1>4, <2>2, FailShape DEF StoreResult, TypeOK
    <2>3. CASE handler[h].doc \notin result
      <3>1. Stored(h) \in Active
        BY <2>1 DEF Stored, Active
      <3>2. /\ handler' = [handler EXCEPT ![h] = Stored(h)]
            /\ result' = result \cup {handler[h].doc}
            /\ runStatus' = [runStatus EXCEPT ![handler[h].doc] = "review"]
            /\ docStatus' = [docStatus EXCEPT ![handler[h].doc] = "extraction_review"]
            /\ attempts' = attempts
        BY <1>4, <2>3 DEF StoreResult
      <3>3. handler' \in [Handlers -> {Idle} \cup Active \cup Failing]
        BY <3>1, <3>2 DEF TypeOK
      <3> QED
        BY <1>4, <2>1, <3>2, <3>3 DEF StoreResult, TypeOK, RunStatuses, DocStatuses
    <2> QED
      BY <2>2, <2>3
  <1>5. CASE ShowForReview(h)
    <2>1. handler[h].doc \in Documents
      BY <1>5, HandlerShape DEF ShowForReview
    <2> QED
      BY <1>5, <2>1, FailShape DEF ShowForReview, TypeOK
  <1>6. CASE RecordFailure(h)
    <2>1. handler[h].doc \in Documents
      BY <1>6, HandlerShape DEF RecordFailure
    <2> QED
      BY <1>6, <2>1 DEF RecordFailure, FailedRun, TypeOK, RunStatuses, DocStatuses
  <1>7. CASE Crash(h)
    <2>1. handler[h].doc \in Documents
      BY <1>7, HandlerShape DEF Crash, TypeOK, Active, Failing
    <2> QED
      BY <1>7, <2>1 DEF Crash, TypeOK
  <1> QED
    BY <1>1, <1>2, <1>3, <1>4, <1>5, <1>6, <1>7 DEF Execute

\* A step of a request keeps the types.
LEMMA RequestTypes ==
  ASSUME TypeOK, NEW u \in Users, Request(u)
  PROVE  TypeOK'
  <1> USE ExtractionAssumption DEF run, doc, decisions, budget
  <1>1. CASE \E d \in Documents : ReadRequest(u, d)
    <2> PICK d \in Documents : ReadRequest(u, d)
      BY <1>1
    <2> PICK act \in {"associate", "archive", "confirm", "reject"} :
          user' = [user EXCEPT ![u] = [at |-> act, doc |-> d]]
      BY DEF ReadRequest
    <2>1. [at |-> act, doc |-> d] \in Requesting
      BY DEF Requesting
    <2> QED
      BY <2>1 DEF ReadRequest, TypeOK
  <1>2. CASE Associate(u) \/ Archive(u)
    <2>1. user[u].doc \in Documents
      BY <1>2, UserShape DEF Associate, Archive
    <2> QED
      BY <1>2, <2>1 DEF Associate, Archive, TypeOK, DocStatuses
  <1>3. CASE Confirm(u) \/ Reject(u)
    <2>1. user[u].doc \in Documents /\ user[u] \in Requesting
      BY <1>3, UserShape DEF Confirm, Reject
    <2>2. [user[u] EXCEPT !.at = "resolve"] \in Requesting
      BY <2>1 DEF Requesting
    <2> QED
      BY <1>3, <2>1, <2>2 DEF Confirm, Reject, TypeOK, DocStatuses, RunStatuses
  <1>4. CASE Resolve(u) \/ RequestLost(u)
    <2>1. user[u].doc \in Documents
      BY <1>4, UserShape DEF Resolve, RequestLost
    <2> QED
      BY <1>4, <2>1 DEF Resolve, ResolveRow, RequestLost, TypeOK
  <1> QED
    BY <1>1, <1>2, <1>3, <1>4 DEF Request

\* What happens to a document from outside keeps the types.
LEMMA ArrivalTypes ==
  ASSUME TypeOK, NEW d \in Documents,
         \/ Register(d) \/ OcrCompletes(d) \/ OcrReopens(d) \/ HandleOcrCompleted(d)
         \/ Redeliver(d) \/ HandleAssociated(d) \/ HandleConfirmed(d)
  PROVE  TypeOK'
  <1> USE ExtractionAssumption DEF run, doc, decisions, budget
  <1>1. CASE Register(d) \/ OcrCompletes(d) \/ OcrReopens(d)
    BY <1>1 DEF Register, OcrCompletes, OcrReopens, TypeOK, DocStatuses
  <1>2. CASE HandleOcrCompleted(d) \/ Redeliver(d)
    BY <1>2 DEF HandleOcrCompleted, ScheduleRun, Redeliver, TypeOK, RunStatuses
  <1>3. CASE HandleAssociated(d) \/ HandleConfirmed(d)
    BY <1>3 DEF HandleAssociated, HandleConfirmed, ResolveRow, TypeOK
  <1> QED
    BY <1>1, <1>2, <1>3

\* Every step keeps the types.
LEMMA NextTypes ==
  ASSUME TypeOK, [Next]_vars
  PROVE  TypeOK'
  <1>1. CASE UNCHANGED vars
    BY <1>1 DEF vars, run, doc, decisions, budget, TypeOK
  <1> QED
    BY <1>1, ExecuteTypes, RequestTypes, ArrivalTypes DEF Next

\* The pipeline's variables have their types in every reachable state.
THEOREM TypeCorrect == Spec => []TypeOK
  BY InitTypes, NextTypes, PTL DEF Spec

-----------------------------------------------------------------------------
\* NoOrphanRun by induction: a handler that only has the review row left to
\* write is no help to a run that was undone meanwhile, and a run has its
\* text to start from.
Working(d) ==
  \E h \in Handlers : handler[h].at \in {"claim", "provider", "failing"} /\ handler[h].doc = d
Cared ==
  \A d \in Documents :
    /\ runStatus[d] \in {"requested", "running"} =>
         requests[d] > 0 \/ Working(d) \/ ocr[d] = "reopened"
    /\ runStatus[d] # "none" => ocr[d] # "pending"
    /\ (\E h \in Handlers : handler[h].at # "idle" /\ handler[h].doc = d) => runStatus[d] # "none"
    /\ requests[d] > 0 => runStatus[d] # "none"

\* What the handlers other than h work on stays worked on.
LEMMA OthersWork ==
  ASSUME NEW h \in Handlers, NEW d \in Documents,
         \A g \in Handlers \ {h} : handler'[g] = handler[g],
         (handler[h].at \in {"claim", "provider", "failing"} /\ handler[h].doc = d) =>
           (handler'[h].at \in {"claim", "provider", "failing"} /\ handler'[h].doc = d)
  PROVE  Working(d) => Working(d)'
  BY DEF Working

\* A handler that takes a job takes care of its run or has no reason to.
LEMMA ReadRunCared ==
  ASSUME TypeOK, Cared, NEW h \in Handlers, NEW d \in Documents, ReadRun(h, d)
  PROVE  Cared'
  <1> USE DEF run, doc
  <1> DEFINE taken == [at |-> "claim", doc |-> d, attempt |-> attempts[d] + 1]
  <1>1. /\ handler'[h] = IF Over(d) \/ ocr[d] # "completed" THEN Idle ELSE taken
        /\ \A g \in Handlers \ {h} : handler'[g] = handler[g]
        /\ taken.at = "claim" /\ taken.doc = d
        /\ Idle.at = "idle" /\ handler[h] = Idle
    BY DEF ReadRun, TypeOK, Idle
  <1>2. /\ \A c \in Documents \ {d} : requests'[c] = requests[c]
        /\ runStatus[d] # "none"
    BY DEF ReadRun, TypeOK, Cared
  <1>3. \A c \in Documents : Working(c) => Working(c)'
    BY <1>1, OthersWork
  <1>4. ~Over(d) /\ ocr[d] = "completed" => Working(d)'
    BY <1>1 DEF Working
  <1>5. runStatus[d] \in {"requested", "running"} => Working(d)' \/ ocr[d] = "reopened"
    BY <1>2, <1>4 DEF Cared, Over, TypeOK
  <1>6. \A c \in Documents :
          (\E g \in Handlers : handler'[g].at # "idle" /\ handler'[g].doc = c) => runStatus[c] # "none"
    BY <1>1, <1>2 DEF Cared
  <1> QED
    BY <1>2, <1>3, <1>5, <1>6 DEF Cared, ReadRun

\* A handler may leave its run, or only the review row of it left to write,
\* when the run has a job, needs none, or is as it was.
LEMMA LeavingCared ==
  ASSUME TypeOK, Cared, NEW h \in Handlers, NEW d \in Documents,
         handler[h].at # "idle", handler[h].doc = d,
         handler'[h].at \notin {"claim", "provider", "failing"},
         handler'[h].at # "idle" => handler'[h].doc = d,
         \A g \in Handlers \ {h} : handler'[g] = handler[g],
         UNCHANGED ocr, requests'[d] \in Nat, requests'[d] >= requests[d], runStatus'[d] # "none",
         \A c \in Documents \ {d} : requests'[c] = requests[c] /\ runStatus'[c] = runStatus[c],
         \/ requests'[d] > 0
         \/ runStatus'[d] \notin {"requested", "running"}
         \/ handler[h].at = "show" /\ runStatus'[d] = runStatus[d]
  PROVE  Cared'
  <1>1. \A c \in Documents \ {d} : Working(c) => Working(c)'
    BY OthersWork
  <1>2. handler[h].at = "show" => (Working(d) => Working(d)')
    BY OthersWork
  <1>3. runStatus[d] # "none" /\ ocr[d] # "pending"
    BY DEF Cared
  <1>4. requests[d] \in Nat
    BY DEF TypeOK
  <1>5. runStatus'[d] \in {"requested", "running"} =>
          requests'[d] > 0 \/ Working(d)' \/ ocr[d] = "reopened"
    <2> SUFFICES ASSUME handler[h].at = "show", runStatus'[d] = runStatus[d],
                        runStatus[d] \in {"requested", "running"}, ~(requests'[d] > 0)
                 PROVE  Working(d)' \/ ocr[d] = "reopened"
      OBVIOUS
    <2>1. ~(requests[d] > 0)
      BY <1>4
    <2> QED
      BY <1>2, <2>1 DEF Cared
  <1>6. \A c \in Documents :
          (\E g \in Handlers : handler'[g].at # "idle" /\ handler'[g].doc = c) => runStatus'[c] # "none"
    BY DEF Cared
  <1> QED
    BY <1>1, <1>3, <1>5, <1>6 DEF Cared

\* The other steps of a handler keep its run cared for, or end it.
LEMMA ExecuteCared ==
  ASSUME TypeOK, Cared, NEW h \in Handlers,
         \/ Claim(h) \/ ProviderFails(h) \/ StoreResult(h) \/ ShowForReview(h)
         \/ RecordFailure(h) \/ Crash(h)
  PROVE  Cared'
  <1> USE DEF run, doc, budget
  <1> DEFINE d == handler[h].doc
  <1>1. d \in Documents /\ handler[h].at # "idle" /\ runStatus[d] # "none" /\ ocr[d] # "pending"
    <2>1. handler[h].at # "idle"
      BY DEF Claim, ProviderFails, StoreResult, ShowForReview, RecordFailure, Crash,
             TypeOK, Idle, Active, Failing
    <2> QED
      BY <2>1, HandlerShape DEF Cared
  <1>2. CASE Claim(h)
    <2>1. /\ handler'[h].at = "provider" /\ handler'[h].doc = d
          /\ \A g \in Handlers \ {h} : handler'[g] = handler[g]
      BY <1>2, HandlerShape DEF Claim, TypeOK, Active, Failing
    <2>2. Working(d)' /\ \A c \in Documents : Working(c) => Working(c)'
      BY <2>1, OthersWork DEF Working
    <2> QED
      BY <1>1, <1>2, <2>1, <2>2 DEF Claim, Cared, TypeOK
  <1>3. CASE \E canRetry \in BOOLEAN : Fail(h, canRetry) /\ UNCHANGED <<runStatus, ocr, requests>>
    <2>1. /\ handler'[h].at = "failing" /\ handler'[h].doc = d
          /\ \A g \in Handlers \ {h} : handler'[g] = handler[g]
      BY <1>1, <1>3, FailShape
    <2>2. \A c \in Documents : Working(c) => Working(c)'
      BY <2>1, OthersWork
    <2> QED
      BY <1>1, <1>3, <2>1, <2>2 DEF Cared
  <1>4. ASSUME handler' = [handler EXCEPT ![h] = Idle] \/ handler' = [handler EXCEPT ![h] = Stored(h)]
        PROVE  /\ handler'[h].at \notin {"claim", "provider", "failing"}
               /\ handler'[h].at # "idle" => handler'[h].doc = d
               /\ \A g \in Handlers \ {h} : handler'[g] = handler[g]
    BY <1>1, <1>4, HandlerShape DEF Stored, Idle, TypeOK, Active, Failing
  <1>5. CASE ProviderFails(h)
    BY <1>3, <1>5 DEF ProviderFails
  <1>6. CASE StoreResult(h)
    <2>1. CASE d \in result
      BY <1>3, <1>6, <2>1 DEF StoreResult
    <2>2. CASE d \notin result
      <3>1. /\ runStatus' = [runStatus EXCEPT ![d] = "review"]
            /\ handler' = [handler EXCEPT ![h] = Stored(h)]
            /\ UNCHANGED <<ocr, requests>>
        BY <1>6, <2>2 DEF StoreResult
      <3>2. /\ runStatus'[d] = "review" /\ requests[d] \in Nat
            /\ \A c \in Documents \ {d} : runStatus'[c] = runStatus[c]
        BY <1>1, <3>1 DEF TypeOK
      <3> QED
        BY <1>1, <1>4, <3>1, <3>2, LeavingCared
    <2> QED
      BY <2>1, <2>2
  <1>7. CASE ShowForReview(h)
    <2>1. CASE handler' = [handler EXCEPT ![h] = Idle]
      <3>1. requests[d] \in Nat /\ UNCHANGED <<runStatus, ocr, requests>> /\ handler[h].at = "show"
        BY <1>1, <1>7 DEF ShowForReview, TypeOK
      <3> QED
        BY <1>1, <1>4, <2>1, <3>1, LeavingCared
    <2> QED
      BY <1>3, <1>7, <2>1 DEF ShowForReview
  <1>8. CASE RecordFailure(h)
    <2>1. /\ runStatus'[d] = FailedRun(h) /\ UNCHANGED ocr
          /\ handler' = [handler EXCEPT ![h] = Idle]
          /\ requests'[d] = IF Final(h) THEN requests[d] ELSE requests[d] + 1
          /\ \A c \in Documents \ {d} : runStatus'[c] = runStatus[c] /\ requests'[c] = requests[c]
      BY <1>1, <1>8 DEF RecordFailure, TypeOK
    <2>2. requests[d] \in Nat
      BY <1>1 DEF TypeOK
    <2> QED
      BY <1>1, <1>4, <2>1, <2>2, LeavingCared DEF FailedRun
  <1>9. CASE Crash(h)
    <2>1. requests'[d] \in Nat /\ requests'[d] > 0 /\ requests'[d] >= requests[d]
      BY <1>1, <1>9 DEF Crash, TypeOK
    <2>2. \A c \in Documents \ {d} : requests'[c] = requests[c]
      BY <1>1, <1>9 DEF Crash, TypeOK
    <2> QED
      BY <1>1, <1>4, <1>9, <2>1, <2>2, LeavingCared DEF Crash
  <1> QED
    BY <1>2, <1>5, <1>6, <1>7, <1>8, <1>9

\* Nobody but a handler takes care away from a run.
LEMMA OthersCared ==
  ASSUME TypeOK, Cared,
         \/ \E u \in Users : Request(u)
         \/ UNCHANGED vars
         \/ \E d \in Documents :
              \/ Register(d) \/ OcrCompletes(d) \/ OcrReopens(d) \/ HandleOcrCompleted(d)
              \/ Redeliver(d) \/ HandleAssociated(d) \/ HandleConfirmed(d)
  PROVE  Cared'
  <1> USE DEF run, doc, decisions, budget
  <1>1. CASE UNCHANGED <<runStatus, requests, ocr, handler>>
    BY <1>1 DEF Cared, Working
  <1>2. ASSUME NEW u \in Users, Request(u) PROVE Cared'
    <2>1. CASE Confirm(u) \/ Reject(u)
      <3>1. \A c \in Documents :
              runStatus'[c] = runStatus[c]
                \/ (runStatus[c] = "review" /\ runStatus'[c] \in {"confirmed", "rejected"})
        BY <2>1 DEF Confirm, Reject, StillInReview, TypeOK
      <3>2. UNCHANGED <<requests, ocr, handler>>
        BY <2>1 DEF Confirm, Reject
      <3> QED
        BY <3>1, <3>2 DEF Cared, Working
    <2>2. CASE ~(Confirm(u) \/ Reject(u))
      BY <1>1, <1>2, <2>2 DEF Request, ReadRequest, Associate, Archive, Resolve, RequestLost
    <2> QED
      BY <2>1, <2>2
  <1>3. ASSUME NEW d \in Documents, OcrCompletes(d) \/ OcrReopens(d) PROVE Cared'
    <2>1. /\ UNCHANGED <<runStatus, requests, handler>>
          /\ ocr'[d] # "pending" /\ ocr[d] # "reopened"
          /\ \A c \in Documents \ {d} : ocr'[c] = ocr[c]
      BY <1>3 DEF OcrCompletes, OcrReopens, TypeOK
    <2>2. \A c \in Documents : Working(c)' <=> Working(c)
      BY <2>1 DEF Working
    <2> QED
      BY <2>1, <2>2 DEF Cared
  <1>4. ASSUME NEW d \in Documents, HandleOcrCompleted(d) \/ Redeliver(d) PROVE Cared'
    <2>1. /\ UNCHANGED <<ocr, handler>> /\ requests'[d] > 0 /\ runStatus'[d] # "none"
          /\ ocr[d] # "pending"
          /\ \A c \in Documents \ {d} : runStatus'[c] = runStatus[c] /\ requests'[c] = requests[c]
      BY <1>4 DEF HandleOcrCompleted, ScheduleRun, Redeliver, TypeOK, Cared
    <2>2. \A c \in Documents : Working(c)' <=> Working(c)
      BY <2>1 DEF Working
    <2> QED
      BY <2>1, <2>2 DEF Cared
  <1>5. ASSUME NEW d \in Documents, Register(d) \/ HandleAssociated(d) \/ HandleConfirmed(d)
        PROVE Cared'
    BY <1>1, <1>5 DEF Register, HandleAssociated, HandleConfirmed
  <1> QED
    BY <1>1, <1>2, <1>3, <1>4, <1>5 DEF vars

\* No crash, race or repeated delivery strands a run whose text stands.
THEOREM NoOrphanRunHolds == Spec => []NoOrphanRun
  <1>1. Init => Cared
    BY DEF Init, Cared, Idle
  <1>2. TypeOK /\ Cared /\ [Next]_vars => Cared'
    BY ReadRunCared, ExecuteCared, OthersCared DEF Next, Execute
  <1>3. TypeOK /\ Cared => NoOrphanRun
    BY DEF TypeOK, Cared, NoOrphanRun, Working, InFlight, Idle
  <1> QED
    BY <1>1, <1>2, <1>3, TypeCorrect, PTL DEF Spec

-----------------------------------------------------------------------------
\* ApprovedOnce by induction.  The result of a run is stored once and for
\* good, and a run comes under review only then: what is decided has a
\* result, and what is under review has not been decided.
ReviewedOnce ==
  \A d \in Documents :
    /\ d \notin result =>
         approvals[d] = 0 /\ runStatus[d] \notin {"review", "confirmed", "rejected"}
    /\ runStatus[d] = "review" => approvals[d] = 0

\* Who decides saw a run under review; who has decided left none there.
Deciding ==
  \A u \in Users :
    /\ user[u].at \in {"confirm", "reject", "resolve"} => user[u].doc \in result
    /\ user[u].at = "resolve" => runStatus[user[u].doc] # "review"

Decided == ReviewedOnce /\ Deciding /\ ApprovedOnce

\* A worker puts a run under review only with its first result, and
\* confirms nothing.
LEMMA WorkerDecided ==
  ASSUME TypeOK, Decided, NEW h \in Handlers, Execute(h) \/ Crash(h)
  PROVE  Decided'
  <1> USE DEF run, doc, decisions, budget
  <1>1. UNCHANGED <<approvals, user, direct>> /\ result \subseteq result'
    BY DEF Execute, Crash, ReadRun, Claim, ProviderFails, StoreResult, ShowForReview, RecordFailure
  <1>2. ASSUME NEW d \in Documents
        PROVE  /\ \/ runStatus'[d] = runStatus[d]
                  \/ runStatus'[d] \in {"requested", "running", "failed"}
                  \/ runStatus'[d] = "review" /\ d \notin result /\ d \in result'
               /\ docStatus'[d] = docStatus[d] \/ docStatus'[d] # "confirmed"
    BY <1>2 DEF Execute, Crash, ReadRun, Claim, ProviderFails, StoreResult, ShowForReview,
                RecordFailure, FailedRun, TypeOK
  <1>3. ReviewedOnce' /\ ApprovedOnce'
    BY <1>1, <1>2 DEF Decided, ReviewedOnce, ApprovedOnce
  <1>4. Deciding'
    <2> SUFFICES ASSUME NEW u \in Users, user[u].at \in {"confirm", "reject", "resolve"}
                 PROVE  /\ user[u].doc \in result'
                        /\ user[u].at = "resolve" => runStatus'[user[u].doc] # "review"
      BY <1>1 DEF Deciding
    <2>1. user[u].doc \in Documents /\ user[u].doc \in result
      BY UserShape DEF Decided, Deciding
    <2> QED
      BY <1>1, <1>2, <2>1 DEF Decided, Deciding
  <1> QED
    BY <1>3, <1>4 DEF Decided

\* A decision is taken on a run under review, and takes it from there.
LEMMA DecisionDecided ==
  ASSUME TypeOK, Decided, NEW u \in Users, NEW d \in Documents, user[u].doc = d,
         user[u].at # "idle", d \in result, Confirm(u) \/ Reject(u)
  PROVE  Decided'
  <1> USE DEF run, doc, decisions, budget
  <1>1. /\ UNCHANGED <<result, direct>>
        /\ \A v \in Users \ {u} : user'[v] = user[v]
        /\ \A c \in Documents \ {d} :
             runStatus'[c] = runStatus[c] /\ approvals'[c] = approvals[c]
               /\ docStatus'[c] = docStatus[c]
    BY DEF Confirm, Reject, TypeOK
  <1>2. \/ /\ runStatus[d] = "review" /\ approvals[d] = 0
           /\ runStatus'[d] = "rejected" /\ approvals'[d] = 0 /\ docStatus'[d] = "rejected"
        \/ /\ runStatus[d] = "review" /\ approvals[d] = 0
           /\ runStatus'[d] = "confirmed" /\ approvals'[d] = 1
        \/ /\ runStatus[d] # "review" /\ runStatus'[d] = runStatus[d]
           /\ approvals'[d] = approvals[d] /\ docStatus'[d] \in {docStatus[d], "rejected"}
    BY DEF Confirm, Reject, StillInReview, TypeOK, Decided, ReviewedOnce
  <1>3. ReviewedOnce' /\ ApprovedOnce'
    BY <1>1, <1>2 DEF Decided, ReviewedOnce, ApprovedOnce
  <1>4. user'[u] = Idle \/ (user'[u].at = "resolve" /\ user'[u].doc = d)
    <2>1. user[u] \in Requesting
      BY UserShape
    <2>2. user' = [user EXCEPT ![u] = Idle] \/ user' = [user EXCEPT ![u].at = "resolve"]
      BY DEF Confirm, Reject
    <2> QED
      BY <2>1, <2>2 DEF TypeOK, Requesting
  <1>5. ASSUME NEW v \in Users, user'[v].at \in {"confirm", "reject", "resolve"}
        PROVE  user'[v].doc \in result' /\ (user'[v].at = "resolve" => runStatus'[user'[v].doc] # "review")
    <2>1. CASE v = u
      BY <1>1, <1>2, <1>4, <1>5, <2>1 DEF Idle
    <2>2. CASE v # u
      <3>1. user'[v] = user[v] /\ user[v].doc \in Documents
        BY <1>1, <1>5, <2>2, UserShape
      <3> QED
        BY <1>1, <1>2, <1>5, <3>1 DEF Decided, Deciding
    <2> QED
      BY <2>1, <2>2
  <1> QED
    BY <1>3, <1>5 DEF Decided, Deciding

\* The steps of a request other than its decision leave what was decided.
LEMMA RequestDecided ==
  ASSUME TypeOK, Decided, NEW u \in Users, Request(u)
  PROVE  Decided'
  <1> USE DEF run, doc, decisions, budget
  <1>1. CASE Confirm(u) \/ Reject(u)
    BY <1>1, DecisionDecided, UserShape DEF Confirm, Reject, Decided, Deciding
  <1>2. CASE ~(Confirm(u) \/ Reject(u))
    <2>1. /\ UNCHANGED <<run, approvals, direct>>
          /\ \A c \in Documents : docStatus'[c] = docStatus[c] \/ docStatus'[c] # "confirmed"
          /\ \A v \in Users \ {u} : user'[v] = user[v]
      BY <1>2 DEF Request, ReadRequest, Associate, Archive, Resolve, RequestLost, TypeOK
    <2>2. user'[u] = Idle \/ \E c \in Documents, act \in {"associate", "archive", "confirm", "reject"} :
                               Allowed(act, c) /\ user'[u] = [at |-> act, doc |-> c]
      BY <1>2 DEF Request, ReadRequest, Associate, Archive, Resolve, RequestLost, TypeOK
    <2>3. \/ user'[u].at \notin {"confirm", "reject", "resolve"}
          \/ user'[u].at \in {"confirm", "reject"} /\ user'[u].doc \in result
      <3>1. CASE user'[u] = Idle
        BY <3>1 DEF Idle
      <3>2. ASSUME NEW c \in Documents, NEW act \in {"associate", "archive", "confirm", "reject"},
                   Allowed(act, c), user'[u] = [at |-> act, doc |-> c]
            PROVE  /\ user'[u].at = act /\ user'[u].doc = c /\ act # "resolve"
                   /\ act \in {"confirm", "reject"} => c \in result
        BY <3>2 DEF Decided, ReviewedOnce, Allowed
      <3> QED
        BY <2>2, <3>1, <3>2
    <2>4. Deciding'
      BY <2>1, <2>3 DEF Decided, Deciding
    <2> QED
      BY <2>1, <2>4 DEF Decided, ReviewedOnce, ApprovedOnce
  <1> QED
    BY <1>1, <1>2

\* Nothing else decides anything.
LEMMA ArrivalDecided ==
  ASSUME TypeOK, Decided,
         \/ UNCHANGED vars
         \/ \E d \in Documents :
              \/ Register(d) \/ OcrCompletes(d) \/ OcrReopens(d) \/ HandleOcrCompleted(d)
              \/ Redeliver(d) \/ HandleAssociated(d) \/ HandleConfirmed(d)
  PROVE  Decided'
  <1> USE DEF run, doc, decisions, budget, vars
  <1>1. /\ UNCHANGED <<result, approvals, user>> /\ direct \subseteq direct'
        /\ \A c \in Documents :
             /\ runStatus'[c] \in {runStatus[c], "requested"}
             /\ docStatus'[c] = docStatus[c] \/ docStatus'[c] # "confirmed" \/ c \in direct'
    BY DEF Register, OcrCompletes, OcrReopens, HandleOcrCompleted, ScheduleRun, Redeliver,
           HandleAssociated, HandleConfirmed, TypeOK
  <1>2. ReviewedOnce' /\ ApprovedOnce'
    BY <1>1 DEF Decided, ReviewedOnce, ApprovedOnce
  <1>3. Deciding'
    BY <1>1, UserShape DEF Decided, Deciding
  <1> QED
    BY <1>2, <1>3 DEF Decided

\* What decides a run holds in every reachable state.
THEOREM DecidedHolds == Spec => []Decided
  <1>1. Init => Decided
    BY DEF Init, Decided, ReviewedOnce, Deciding, ApprovedOnce, Idle
  <1>2. TypeOK /\ Decided /\ [Next]_vars => Decided'
    BY WorkerDecided, RequestDecided, ArrivalDecided DEF Next
  <1> QED
    BY <1>1, <1>2, TypeCorrect, PTL DEF Spec

\* However executions and requests race, a run is approved at most once, and
\* nothing is confirmed without its approval.
THEOREM ApprovedOnceHolds == Spec => []ApprovedOnce
  BY DecidedHolds, PTL DEF Decided

-----------------------------------------------------------------------------
\* ReviewListed by induction: a document is settled when it is not under
\* review, is listed, or has a handler that will list it or give it up.
Settled(d) == runStatus[d] # "review" \/ queue[d] = "active" \/ Unsettled(d)

\* What the handlers other than h settle stays settled, and so does what h
\* settles if it goes on to.
LEMMA OthersSettle ==
  ASSUME NEW h \in Handlers, NEW d \in Documents,
         \A g \in Handlers \ {h} : handler'[g] = handler[g],
         (handler[h].at \in {"show", "failing"} /\ handler[h].doc = d) =>
           (handler'[h].at \in {"show", "failing"} /\ handler'[h].doc = d)
  PROVE  Unsettled(d) => Unsettled(d)'
  BY DEF Unsettled

\* A worker puts a run under review and stays to list it.
LEMMA WorkerSettles ==
  ASSUME TypeOK, NEW h \in Handlers, Execute(h), NEW d \in Documents, Settled(d)
  PROVE  Settled(d)' /\ crashes' = crashes
  <1> USE DEF run, doc, decisions, budget
  <1>1. /\ \A g \in Handlers \ {h} : handler'[g] = handler[g]
        /\ crashes' = crashes
    BY DEF Execute, ReadRun, Claim, ProviderFails, Fail, StoreResult, ShowForReview,
           RecordFailure, TypeOK
  <1>2. CASE \E c \in Documents : ReadRun(h, c)
    <2>1. handler[h].at = "idle" /\ UNCHANGED <<runStatus, queue>>
      BY <1>2 DEF ReadRun, Idle
    <2> QED
      BY <1>1, <2>1, OthersSettle DEF Settled
  <1>3. CASE Claim(h) \/ ProviderFails(h)
    <2>1. /\ handler[h].at \in {"claim", "provider"} /\ UNCHANGED queue
          /\ runStatus'[d] \in {runStatus[d], "running"}
      BY <1>3 DEF Claim, ProviderFails, TypeOK
    <2> QED
      BY <1>1, <2>1, OthersSettle DEF Settled
  <1>4. CASE StoreResult(h)
    <2>1. handler[h].at = "provider" /\ handler[h] \in Active /\ handler[h].doc \in Documents
      BY <1>4, HandlerShape DEF StoreResult, Failing
    <2>2. Unsettled(d) => Unsettled(d)'
      BY <1>1, <2>1, OthersSettle
    <2>3. CASE runStatus'[d] = runStatus[d]
      BY <1>4, <2>2, <2>3 DEF StoreResult, Settled
    <2>4. CASE runStatus'[d] # runStatus[d]
      <3>1. d = handler[h].doc /\ handler' = [handler EXCEPT ![h] = Stored(h)]
        BY <1>4, <2>4 DEF StoreResult, TypeOK
      <3>2. Stored(h).at = "show" /\ Stored(h).doc = d
        BY <2>1, <3>1 DEF Stored, Active
      <3> QED
        BY <1>1, <3>1, <3>2 DEF TypeOK, Settled, Unsettled
    <2> QED
      BY <2>3, <2>4
  <1>5. CASE ShowForReview(h)
    <2>1. handler[h].at # "idle" /\ handler[h].doc \in Documents /\ UNCHANGED runStatus
      BY <1>5, HandlerShape DEF ShowForReview
    <2>2. CASE Fail(h, TRUE) /\ UNCHANGED queue
      BY <1>1, <2>1, <2>2, FailShape, OthersSettle DEF Settled
    <2>3. CASE queue' = [queue EXCEPT ![handler[h].doc] = "active"]
      <3>1. CASE handler[h].doc = d
        BY <1>1, <2>3, <3>1 DEF TypeOK, Settled
      <3>2. CASE handler[h].doc # d
        BY <1>1, <2>1, <2>3, <3>2, OthersSettle DEF TypeOK, Settled
      <3> QED
        BY <3>1, <3>2
    <2> QED
      BY <1>5, <2>2, <2>3 DEF ShowForReview
  <1>6. CASE RecordFailure(h)
    <2>1. handler[h].doc \in Documents /\ UNCHANGED queue
      BY <1>6, HandlerShape DEF RecordFailure
    <2>2. CASE handler[h].doc = d
      BY <1>6, <2>2 DEF RecordFailure, FailedRun, TypeOK, Settled
    <2>3. CASE handler[h].doc # d
      <3>1. runStatus'[d] = runStatus[d]
        BY <1>6, <2>1, <2>3 DEF RecordFailure, TypeOK
      <3> QED
        BY <1>1, <2>1, <2>3, <3>1, OthersSettle DEF Settled
    <2> QED
      BY <2>2, <2>3
  <1> QED
    BY <1>1, <1>2, <1>3, <1>4, <1>5, <1>6 DEF Execute

\* Requests and arrivals take a document off the list only once its run is
\* decided.
LEMMA OthersSettled ==
  ASSUME TypeOK, Decided, NEW d \in Documents, Settled(d),
         \/ UNCHANGED vars
         \/ \E u \in Users : Request(u)
         \/ \E c \in Documents :
              \/ Register(c) \/ OcrCompletes(c) \/ OcrReopens(c) \/ HandleOcrCompleted(c)
              \/ Redeliver(c) \/ HandleAssociated(c) \/ HandleConfirmed(c)
  PROVE  Settled(d)' /\ crashes' >= crashes
  <1> USE DEF run, doc, decisions, budget, vars
  <1>1. UNCHANGED handler /\ crashes' >= crashes
    BY DEF Request, ReadRequest, Associate, Archive, Confirm, Reject, Resolve, RequestLost,
           Register, OcrCompletes, OcrReopens, HandleOcrCompleted, Redeliver,
           HandleAssociated, HandleConfirmed, TypeOK
  <1>2. runStatus'[d] = "review" => runStatus[d] = "review"
    BY DEF Request, ReadRequest, Associate, Archive, Confirm, Reject, Resolve, RequestLost,
           Register, OcrCompletes, OcrReopens, HandleOcrCompleted, ScheduleRun, Redeliver,
           HandleAssociated, HandleConfirmed, TypeOK
  <1>3. queue[d] = "active" => queue'[d] = "active" \/ runStatus[d] # "review"
    BY DEF Request, ReadRequest, Associate, Archive, Confirm, Reject, Resolve, RequestLost,
           Register, OcrCompletes, OcrReopens, HandleOcrCompleted, Redeliver, ResolveRow,
           HandleAssociated, HandleConfirmed, TypeOK, Decided, Deciding, ReviewedOnce
  <1> QED
    BY <1>1, <1>2, <1>3 DEF Settled, Unsettled

\* A crash leaves at most its own document unsettled.
LEMMA CrashSettles ==
  ASSUME TypeOK, NEW h \in Handlers, Crash(h), NEW d \in Documents \ {handler[h].doc}, Settled(d)
  PROVE  Settled(d)'
  <1>1. \A g \in Handlers \ {h} : handler'[g] = handler[g]
    BY DEF Crash, TypeOK
  <1> QED
    BY <1>1, OthersSettle DEF Crash, run, Settled

\* A run under review is listed, or about to be, but for one per crash.
THEOREM ReviewListedHolds == Spec => []ReviewListed
  <1>1. Unlisted = {d \in Documents : ~Settled(d)}
    BY DEF Unlisted, Settled
  <1>2. Init => ReviewListed
    <2> SUFFICES ASSUME Init PROVE Unlisted = {} /\ crashes = 0
      BY FS_EmptySet DEF ReviewListed
    <2> QED
      BY DEF Init, Unlisted
  <1>3. ASSUME TypeOK, Decided, ReviewListed, [Next]_vars
        PROVE  ReviewListed'
    <2>1. Unlisted' = {d \in Documents : ~Settled(d)'}
      BY DEF Unlisted, Settled
    <2>2. IsFiniteSet(Unlisted) /\ IsFiniteSet(Unlisted') /\ Cardinality(Unlisted) \in Nat
      BY <1>1, <2>1, ExtractionAssumption, FS_Subset, FS_CardinalityType
    <2>3. CASE \E h \in Handlers : Crash(h)
      <3> PICK h \in Handlers : Crash(h)
        BY <2>3
      <3>1. Unlisted' \subseteq Unlisted \cup {handler[h].doc}
        BY <1>1, <1>3, <2>1, CrashSettles
      <3>2. /\ IsFiniteSet(Unlisted \cup {handler[h].doc})
            /\ Cardinality(Unlisted \cup {handler[h].doc}) \in Nat
            /\ Cardinality(Unlisted \cup {handler[h].doc}) <= Cardinality(Unlisted) + 1
        <4>1. /\ IsFiniteSet(Unlisted \cup {handler[h].doc})
              /\ Cardinality(Unlisted \cup {handler[h].doc}) \in
                   {Cardinality(Unlisted), Cardinality(Unlisted) + 1}
          BY <2>2, FS_AddElement
        <4> QED
          BY <2>2, <4>1
      <3>3. Cardinality(Unlisted') <= Cardinality(Unlisted \cup {handler[h].doc})
        BY <3>1, <3>2, FS_Subset
      <3>4. Cardinality(Unlisted') \in Nat /\ crashes \in Nat /\ crashes' = crashes + 1
        BY <1>3, <2>2, FS_CardinalityType DEF Crash, TypeOK
      <3> QED
        BY <2>2, <3>2, <3>3, <3>4, <1>3 DEF ReviewListed
    <2>4. CASE ~\E h \in Handlers : Crash(h)
      <3>1. ASSUME NEW d \in Documents, Settled(d)
            PROVE  Settled(d)'
        BY <1>3, <2>4, <3>1, WorkerSettles, OthersSettled DEF Next
      <3>2. crashes' >= crashes
        <4>1. CASE \E h \in Handlers : Execute(h)
          <5> PICK h \in Handlers : Execute(h)
            BY <4>1
          <5>1. crashes' = crashes
            BY DEF Execute, ReadRun, Claim, ProviderFails, StoreResult, ShowForReview,
                   RecordFailure, run, doc, decisions, budget
          <5> QED
            BY <1>3, <5>1 DEF TypeOK
        <4>2. CASE \E u \in Users : Request(u)
          BY <1>3, <4>2 DEF Request, ReadRequest, Associate, Archive, Confirm, Reject, Resolve,
                            RequestLost, TypeOK, budget
        <4>3. CASE ~\E h \in Handlers : Execute(h)
          BY <1>3, <2>4, <4>2, <4>3
             DEF Next, Register, OcrCompletes, OcrReopens, HandleOcrCompleted, Redeliver,
                 HandleAssociated, HandleConfirmed, TypeOK, budget, vars
        <4> QED
          BY <4>1, <4>3
      <3>3. Unlisted' \subseteq Unlisted
        BY <1>1, <2>1, <3>1
      <3>4. Cardinality(Unlisted') <= Cardinality(Unlisted) /\ Cardinality(Unlisted') \in Nat
        BY <2>2, <3>3, FS_Subset, FS_CardinalityType
      <3>5. crashes \in Nat /\ crashes' \in Nat
        BY NextTypes, <1>3 DEF TypeOK
      <3> QED
        BY <1>3, <2>2, <3>2, <3>4, <3>5 DEF ReviewListed
    <2> QED
      BY <2>3, <2>4
  <1> QED
    BY <1>2, <1>3, TypeCorrect, DecidedHolds, PTL DEF Spec

-----------------------------------------------------------------------------
(* One execution of a run at a time, unless a request is delivered twice *)

\* A handler works on the run of d.
WorksOn(h, d) == handler[h].at # "idle" /\ handler[h].doc = d

\* A run has one job or one handler, or neither, and none before it is made and after
\* it failed for good.  A handler that is to claim the run is one attempt ahead of
\* what is counted, and none is behind.
OneCarrierOf(d) ==
  /\ requests[d] \in {0, 1}
  /\ requests[d] = 1 => \A h \in Handlers : ~WorksOn(h, d)
  /\ \A g, h \in Handlers : WorksOn(g, d) /\ WorksOn(h, d) => g = h
  /\ runStatus[d] \in {"none", "failed"} =>
       requests[d] = 0 /\ \A h \in Handlers : ~WorksOn(h, d)
  /\ attempts[d] <= MaxAttempts
  /\ runStatus[d] = "none" => attempts[d] = 0
  /\ runStatus[d] = "requested" => attempts[d] < MaxAttempts
  /\ \A h \in Handlers : WorksOn(h, d) =>
       /\ attempts[d] <= handler[h].attempt
       /\ handler[h].at = "claim" => handler[h].attempt = attempts[d] + 1
OneCarrier == duplicates = 0 => \A d \in Documents : OneCarrierOf(d)

\* Whatever crashes, fails or is decided meanwhile, a run is executed by one handler at
\* a time and attempt_count stays within max_attempts, until a request is delivered
\* twice: then the claim, whose miss goes unnoticed, would have to see to it
\* (extraction/runner.ts:144-190).
OneExecution ==
  duplicates = 0 => \A d \in Documents :
    /\ \A g, h \in Handlers : WorksOn(g, d) /\ WorksOn(h, d) => g = h
    /\ attempts[d] <= MaxAttempts

\* A step that leaves the jobs, the handlers and the attempts of a run alone, and does
\* not make it a run that waits or failed.
LEMMA CarrierUntouched ==
  ASSUME NEW d \in Documents, OneCarrierOf(d),
         requests'[d] = requests[d], attempts'[d] = attempts[d],
         runStatus'[d] \in {"none", "failed", "requested"} => runStatus'[d] = runStatus[d],
         \A g \in Handlers : WorksOn(g, d)' <=> WorksOn(g, d),
         \A g \in Handlers : WorksOn(g, d) => handler'[g] = handler[g]
  PROVE  OneCarrierOf(d)'
  BY DEF OneCarrierOf

\* A step of h on another document.
LEMMA CarriedElsewhere ==
  ASSUME NEW h \in Handlers, NEW d \in Documents, OneCarrierOf(d), ~WorksOn(h, d), ~WorksOn(h, d)',
         requests'[d] = requests[d], attempts'[d] = attempts[d], runStatus'[d] = runStatus[d],
         \A g \in Handlers \ {h} : handler'[g] = handler[g]
  PROVE  OneCarrierOf(d)'
  <1>1. \A g \in Handlers : WorksOn(g, d)' <=> WorksOn(g, d)
    BY DEF WorksOn
  <1>2. \A g \in Handlers : WorksOn(g, d) => handler'[g] = handler[g]
    OBVIOUS
  <1> QED
    BY <1>1, <1>2, CarrierUntouched

\* The handler that carries d goes on with it; it counts the attempt if it claims.
LEMMA CarriedOn ==
  ASSUME NEW h \in Handlers, NEW d \in Documents, OneCarrierOf(d), WorksOn(h, d), WorksOn(h, d)',
         requests'[d] = requests[d],
         \A g \in Handlers \ {h} : handler'[g] = handler[g],
         handler'[h].at # "claim", handler'[h].attempt = handler[h].attempt,
         attempts[d] \in Nat,
         runStatus'[d] \notin {"none", "failed"},
         runStatus'[d] = "requested" => runStatus[d] = "requested",
         \/ attempts'[d] = attempts[d]
         \/ /\ handler[h].at = "claim" /\ attempts'[d] = handler[h].attempt
            /\ runStatus[d] = "requested" /\ runStatus'[d] = "running"
  PROVE  OneCarrierOf(d)'
  <1>1. \A g \in Handlers : WorksOn(g, d)' => g = h
    BY DEF WorksOn, OneCarrierOf
  <1>2. requests[d] = 0 /\ attempts[d] <= handler[h].attempt
    BY DEF OneCarrierOf
  <1>3. attempts'[d] <= handler'[h].attempt /\ attempts'[d] <= MaxAttempts
    BY <1>2, ExtractionAssumption DEF OneCarrierOf
  <1>4. runStatus'[d] = "requested" => attempts'[d] < MaxAttempts
    BY DEF OneCarrierOf
  <1> QED
    BY <1>1, <1>2, <1>3, <1>4 DEF OneCarrierOf

\* The handler that carries d leaves it to a job, or to nobody.
LEMMA CarriedAway ==
  ASSUME NEW h \in Handlers, NEW d \in Documents, OneCarrierOf(d), WorksOn(h, d),
         \A g \in Handlers \ {h} : handler'[g] = handler[g], handler'[h].at = "idle",
         requests'[d] \in {0, 1}, attempts'[d] = attempts[d],
         runStatus'[d] # "none", runStatus'[d] = "failed" => requests'[d] = 0,
         runStatus'[d] = "requested" =>
           runStatus[d] = "requested" \/ attempts[d] < MaxAttempts
  PROVE  OneCarrierOf(d)'
  <1>1. \A g \in Handlers : ~WorksOn(g, d)'
    BY DEF WorksOn, OneCarrierOf
  <1> QED
    BY <1>1 DEF OneCarrierOf

\* A job is taken, by a handler that takes it up or drops it.
LEMMA ReadRunCarrier ==
  ASSUME TypeOK, OneCarrier, duplicates = 0, NEW h \in Handlers, NEW c \in Documents,
         ReadRun(h, c), NEW d \in Documents
  PROVE  OneCarrierOf(d)'
  <1> DEFINE taken == [at |-> "claim", doc |-> c, attempt |-> attempts[c] + 1]
  <1>1. /\ OneCarrierOf(c) /\ OneCarrierOf(d)
        /\ runStatus' = runStatus /\ attempts' = attempts
        /\ handler[h].at = "idle" /\ requests[c] > 0
        /\ requests' = [requests EXCEPT ![c] = requests[c] - 1]
    BY DEF OneCarrier, ReadRun, run, Idle
  <1>2. /\ handler'[h].at = "idle" \/ handler'[h] = taken
        /\ \A g \in Handlers \ {h} : handler'[g] = handler[g]
    BY DEF ReadRun, TypeOK, Idle
  <1>3. CASE d # c
    <2>1. ~WorksOn(h, d) /\ ~WorksOn(h, d)' /\ requests'[d] = requests[d]
      BY <1>1, <1>2, <1>3 DEF WorksOn, TypeOK
    <2> QED
      BY <1>1, <1>2, <2>1, CarriedElsewhere
  <1>4. CASE d = c
    <2>1. requests[d] = 1 /\ requests'[d] = 0
      BY <1>1, <1>4 DEF OneCarrierOf, TypeOK
    <2>2. runStatus[d] \notin {"none", "failed"} /\ \A g \in Handlers : ~WorksOn(g, d)
      BY <1>1, <2>1 DEF OneCarrierOf
    <2>3. \A g \in Handlers : WorksOn(g, d)' => g = h /\ handler'[g] = taken
      BY <1>2, <2>2 DEF WorksOn
    <2>4. attempts[d] \in Nat
      BY DEF TypeOK
    <2> QED
      BY <1>1, <1>4, <2>1, <2>2, <2>3, <2>4 DEF OneCarrierOf
  <1> QED
    BY <1>3, <1>4

\* A handler at work is not idle, and goes on with its document or is idle.
LEMMA GoesOn ==
  ASSUME TypeOK, NEW h \in Handlers,
         \/ Claim(h) \/ ProviderFails(h) \/ StoreResult(h) \/ ShowForReview(h)
         \/ RecordFailure(h) \/ Crash(h)
  PROVE  /\ handler[h].at # "idle"
         /\ \A g \in Handlers \ {h} : handler'[g] = handler[g]
         /\ \/ handler'[h].at = "idle"
            \/ /\ handler'[h].at \in {"provider", "show", "failing"}
               /\ handler'[h].doc = handler[h].doc /\ handler'[h].attempt = handler[h].attempt
  <1>1. handler[h].at # "idle"
    BY DEF Claim, ProviderFails, StoreResult, ShowForReview, RecordFailure, Crash,
           TypeOK, Idle, Active, Failing
  <1>2. handler[h] \in Active \cup Failing
    BY <1>1, HandlerShape
  <1>3. handler \in [Handlers -> {Idle} \cup Active \cup Failing]
    BY DEF TypeOK
  <1>4. CASE handler' = [handler EXCEPT ![h] = [handler[h] EXCEPT !.at = "provider"]]
    <2>1. handler'[h] = [handler[h] EXCEPT !.at = "provider"]
      BY <1>3, <1>4
    <2> QED
      BY <1>1, <1>2, <1>3, <1>4, <2>1 DEF Active, Failing
  <1>5. CASE handler' = [handler EXCEPT ![h] = Stored(h)]
    <2>1. handler'[h] = [handler[h] EXCEPT !.at = "show"]
      BY <1>3, <1>5 DEF Stored
    <2> QED
      BY <1>1, <1>2, <1>3, <1>5, <2>1 DEF Active, Failing
  <1>6. CASE \E canRetry \in BOOLEAN : Fail(h, canRetry)
    <2>1. PICK canRetry \in BOOLEAN :
            handler' = [handler EXCEPT ![h] =
              [at |-> "failing", doc |-> handler[h].doc, attempt |-> handler[h].attempt,
               retryable |-> canRetry]]
      BY <1>6 DEF Fail
    <2> QED
      BY <1>1, <1>3, <2>1
  <1>7. CASE handler' = [handler EXCEPT ![h] = Idle]
    BY <1>1, <1>3, <1>7 DEF Idle
  <1>8. Claim(h) => handler' = [handler EXCEPT ![h] = [handler[h] EXCEPT !.at = "provider"]]
    BY DEF Claim
  <1> QED
    BY <1>4, <1>5, <1>6, <1>7, <1>8
       DEF ProviderFails, StoreResult, ShowForReview, RecordFailure, Crash

\* The rest of an execution, and its crash.
LEMMA WorkedCarrier ==
  ASSUME TypeOK, OneCarrier, duplicates = 0, NEW h \in Handlers,
         \/ Claim(h) \/ ProviderFails(h) \/ StoreResult(h) \/ ShowForReview(h)
         \/ RecordFailure(h) \/ Crash(h),
         NEW d \in Documents
  PROVE  OneCarrierOf(d)'
  <1> USE DEF run
  <1> DEFINE c == handler[h].doc
  <1>1. c \in Documents /\ handler[h].attempt \in Nat /\ handler[h].at # "idle"
    BY GoesOn, HandlerShape
  <1>2. OneCarrierOf(d) /\ attempts[d] \in Nat
    BY DEF OneCarrier, TypeOK
  <1>3. /\ \A g \in Handlers \ {h} : handler'[g] = handler[g]
        /\ \/ handler'[h].at = "idle"
           \/ /\ handler'[h].at \in {"provider", "show", "failing"}
              /\ handler'[h].doc = c /\ handler'[h].attempt = handler[h].attempt
    BY GoesOn
  <1>4. CASE d # c
    <2>1. requests'[d] = requests[d] /\ attempts'[d] = attempts[d] /\ runStatus'[d] = runStatus[d]
      BY <1>1, <1>4 DEF Claim, ProviderFails, StoreResult, ShowForReview, RecordFailure, Crash,
                        TypeOK
    <2>2. ~WorksOn(h, d) /\ ~WorksOn(h, d)'
      BY <1>3, <1>4 DEF WorksOn
    <2> QED
      BY <1>2, <1>3, <2>1, <2>2, CarriedElsewhere
  <1>5. CASE d = c
    <2>1. WorksOn(h, d)
      BY <1>1, <1>5 DEF WorksOn
    <2>2. /\ requests[d] = 0 /\ runStatus[d] \notin {"none", "failed"}
          /\ attempts[d] <= handler[h].attempt
      BY <1>2, <2>1 DEF OneCarrierOf
    <2>3. handler'[h].at # "idle" => WorksOn(h, d)'
      BY <1>3, <1>5 DEF WorksOn
    <2>4. CASE Claim(h)
      <3>1. /\ handler[h].at = "claim" /\ requests' = requests
            /\ handler' = [handler EXCEPT ![h] = [handler[h] EXCEPT !.at = "provider"]]
        BY <2>4 DEF Claim
      <3>2. handler'[h].at # "idle"
        BY <3>1, HandlerShape DEF TypeOK, Active, Failing
      <3>3. \/ attempts'[d] = attempts[d] /\ runStatus'[d] = runStatus[d]
            \/ /\ attempts'[d] = handler[h].attempt
               /\ runStatus[d] = "requested" /\ runStatus'[d] = "running"
        BY <1>1, <1>5, <2>2, <2>4 DEF Claim, TypeOK
      <3> QED
        BY <1>2, <1>3, <2>1, <2>2, <2>3, <3>1, <3>2, <3>3, CarriedOn
    <2>5. CASE ~Claim(h) /\ handler'[h].at # "idle"
      <3>1. ~RecordFailure(h) /\ ~Crash(h)
        BY <2>5 DEF RecordFailure, Crash, TypeOK, Idle
      <3>2. /\ requests' = requests /\ attempts' = attempts
            /\ runStatus'[d] \in {runStatus[d], "review"}
        BY <1>1, <1>5, <2>5, <3>1 DEF ProviderFails, StoreResult, ShowForReview, TypeOK
      <3> QED
        BY <1>2, <1>3, <2>1, <2>2, <2>3, <2>5, <3>2, CarriedOn
    <2>6. CASE ~Claim(h) /\ handler'[h].at = "idle"
      <3>1. ~ProviderFails(h) /\ ~StoreResult(h)
        <4>1. ASSUME NEW canRetry \in BOOLEAN, Fail(h, canRetry) PROVE FALSE
          BY <1>1, <2>6, <4>1, FailShape
        <4>2. handler' # [handler EXCEPT ![h] = Stored(h)]
          BY <1>1, <2>6, HandlerShape DEF Stored, TypeOK, Active, Failing
        <4> QED
          BY <4>1, <4>2 DEF ProviderFails, StoreResult
      <3>2. CASE RecordFailure(h)
        <4>1. /\ attempts' = attempts /\ runStatus'[d] = FailedRun(h)
              /\ requests'[d] = IF Final(h) THEN 0 ELSE 1
          BY <1>1, <1>5, <2>2, <3>2 DEF RecordFailure, TypeOK
        <4>2. ~Final(h) => attempts[d] < MaxAttempts
          BY <1>1, <1>2, <2>2, ExtractionAssumption DEF Final
        <4> QED
          BY <1>2, <1>3, <2>1, <2>6, <4>1, <4>2, CarriedAway DEF FailedRun
      <3>3. CASE ShowForReview(h) \/ Crash(h)
        <4>1. /\ attempts' = attempts /\ runStatus' = runStatus
              /\ requests'[d] \in {0, 1}
          <5>1. CASE ShowForReview(h)
            BY <2>2, <5>1 DEF ShowForReview
          <5>2. CASE Crash(h)
            <6>1. requests' = [requests EXCEPT ![d] = requests[d] + 1]
              BY <1>5, <5>2 DEF Crash
            <6>2. requests'[d] = requests[d] + 1
              BY <6>1 DEF TypeOK
            <6> QED
              BY <2>2, <5>2, <6>2 DEF Crash
          <5> QED
            BY <3>3, <5>1, <5>2
        <4> QED
          BY <1>2, <1>3, <2>1, <2>2, <2>6, <4>1, CarriedAway
      <3> QED
        BY <2>6, <3>1, <3>2, <3>3
    <2> QED
      BY <2>4, <2>5, <2>6
  <1> QED
    BY <1>4, <1>5

\* Documents, texts, people and the review queue.
LEMMA OthersCarrier ==
  ASSUME TypeOK, OneCarrier, duplicates = 0, NEW d \in Documents,
         \/ \E c \in Documents :
              \/ Register(c) \/ OcrCompletes(c) \/ OcrReopens(c) \/ HandleOcrCompleted(c)
              \/ HandleAssociated(c) \/ HandleConfirmed(c)
         \/ \E u \in Users : Request(u)
  PROVE  OneCarrierOf(d)'
  <1> USE DEF run, doc
  <1>1. OneCarrierOf(d) /\ handler' = handler /\ attempts' = attempts
    BY DEF OneCarrier, Register, OcrCompletes, OcrReopens, HandleOcrCompleted, HandleAssociated,
           HandleConfirmed, Request, ReadRequest, Associate, Archive, Confirm, Reject, Resolve,
           RequestLost
  <1>2. \A g \in Handlers : WorksOn(g, d)' <=> WorksOn(g, d)
    BY <1>1 DEF WorksOn
  <1>3. CASE \E u \in Users : Request(u)
    <2>1. PICK u \in Users : Request(u)
      BY <1>3
    <2>2. requests' = requests
      BY <2>1 DEF Request, ReadRequest, Associate, Archive, Confirm, Reject, Resolve, RequestLost
    <2>3. runStatus'[d] \in {runStatus[d], "confirmed", "rejected"}
      BY <2>1 DEF Request, ReadRequest, Associate, Archive, Confirm, Reject, Resolve, RequestLost,
                  TypeOK
    <2> QED
      BY <1>1, <1>2, <2>2, <2>3, CarrierUntouched
  <1>4. ASSUME NEW c \in Documents, HandleOcrCompleted(c) PROVE OneCarrierOf(d)'
    <2>1. \/ requests'[d] = requests[d] /\ runStatus'[d] = runStatus[d]
          \/ runStatus[d] = "none" /\ runStatus'[d] = "requested" /\ requests'[d] = requests[d] + 1
      BY <1>4 DEF HandleOcrCompleted, ScheduleRun, TypeOK
    <2>2. CASE /\ runStatus[d] = "none" /\ runStatus'[d] = "requested"
               /\ requests'[d] = requests[d] + 1
      BY <1>1, <1>2, <2>2, ExtractionAssumption DEF OneCarrierOf
    <2> QED
      BY <1>1, <1>2, <2>1, <2>2, CarrierUntouched
  <1>5. CASE \E c \in Documents : Register(c) \/ OcrCompletes(c) \/ OcrReopens(c)
                                  \/ HandleAssociated(c) \/ HandleConfirmed(c)
    <2>1. requests' = requests /\ runStatus' = runStatus
      BY <1>5 DEF Register, OcrCompletes, OcrReopens, HandleAssociated, HandleConfirmed
    <2> QED
      BY <1>1, <1>2, <2>1, CarrierUntouched
  <1> QED
    BY <1>3, <1>4, <1>5

\* Every step keeps it; a repeated delivery ends what is promised.
LEMMA NextCarrier == TypeOK /\ OneCarrier /\ [Next]_vars => OneCarrier'
  <1> SUFFICES ASSUME TypeOK, OneCarrier, [Next]_vars, duplicates' = 0, NEW d \in Documents
               PROVE  OneCarrierOf(d)'
    BY DEF OneCarrier
  <1>1. ASSUME NEW c \in Documents, Redeliver(c) PROVE FALSE
    BY <1>1 DEF Redeliver, TypeOK
  <1>2. duplicates = 0
    BY <1>1 DEF Next, Execute, Request, Register, OcrCompletes, OcrReopens, HandleOcrCompleted,
                HandleAssociated, HandleConfirmed, ReadRun, Claim, ProviderFails, StoreResult,
                ShowForReview, RecordFailure, Crash, ReadRequest, Associate, Archive, Confirm,
                Reject, Resolve, RequestLost, budget, vars
  <1>3. CASE UNCHANGED vars
    BY <1>2, <1>3 DEF OneCarrier, OneCarrierOf, WorksOn, vars, run
  <1> QED
    BY <1>1, <1>2, <1>3, ReadRunCarrier, WorkedCarrier, OthersCarrier DEF Next, Execute

\* One handler at a time executes a run that was requested once, within its attempts
\* (OneExecution).
THEOREM OneExecutionHolds == Spec => []OneExecution
  <1>1. Init => OneCarrier
    BY ExtractionAssumption DEF Init, OneCarrier, OneCarrierOf, WorksOn, Idle
  <1>2. OneCarrier => OneExecution
    BY DEF OneCarrier, OneCarrierOf, OneExecution
  <1> QED
    BY <1>1, <1>2, NextCarrier, TypeCorrect, PTL DEF Spec
=============================================================================
