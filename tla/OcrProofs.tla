------------------------------ MODULE OcrProofs ------------------------------
(***************************************************************************)
(* Machine-checked facts about OcrPipeline, for any documents, handlers and *)
(* bounds: its types, the agreement of run and document, that no run is     *)
(* ever stranded, and that as long as no request was delivered twice a run  *)
(* which is over stays so, and a run is worked on by one handler at a time  *)
(* and no more often than its attempts allow.                               *)
(***************************************************************************)
EXTENDS OcrPipeline, TLAPS

\* Only eligible documents are ever scheduled, queued or worked on.
OnlyEligible ==
  \A d \in Documents :
    requests[d] > 0 \/ InFlight(d) \/ runStatus[d] # "none" => d \in Eligible

IInv == TypeOK /\ Mirrored /\ NoOrphanRun /\ OnlyEligible

-----------------------------------------------------------------------------
\* What TypeOK says of one handler.
LEMMA HandlerShape ==
  ASSUME TypeOK, NEW h \in Handlers, handler[h] # Idle
  PROVE  /\ handler[h].doc \in Documents
         /\ handler[h].attempt \in Nat
         /\ handler[h] \in Active \/ handler[h] \in Failing
         /\ handler[h].at \in {"claim", "provider", "failing"}
  BY DEF TypeOK, Active, Failing

\* A document nobody works on before a step of h on another document, or a
\* document h alone left, is judged by the handlers other than h.
LEMMA OthersStay ==
  ASSUME NEW h \in Handlers, NEW d \in Documents,
         \A g \in Handlers \ {h} : handler'[g] = handler[g],
         handler[h] = Idle \/ handler[h].doc # d,
         handler'[h] = Idle \/ handler'[h].doc # d
  PROVE  InFlight(d)' <=> InFlight(d)
  BY DEF InFlight

\* Before any document is registered the invariant holds.
LEMMA InitInv == Init => IInv
  <1> SUFFICES ASSUME Init PROVE IInv
    OBVIOUS
  <1> USE OcrAssumption DEF Init
  <1>1. TypeOK
    BY DEF TypeOK, OcrStatuses, RunStatuses, Idle
  <1>2. Mirrored /\ NoOrphanRun
    BY DEF Mirrored, NoOrphanRun
  <1>3. OnlyEligible
    BY DEF OnlyEligible, InFlight, Idle
  <1> QED
    BY <1>1, <1>2, <1>3 DEF IInv

\* A new document has no run, so registering it disturbs nothing.
LEMMA RegisterInv ==
  ASSUME IInv, NEW d \in Documents, Register(d)
  PROVE  IInv'
  <1> USE OcrAssumption DEF IInv, Register, budget
  <1>1. TypeOK'
    BY DEF TypeOK, OcrStatuses
  <1>2. runStatus[d] = "none"
    BY DEF Mirrored, DocumentState, TypeOK, RunStatuses
  <1>3. Mirrored'
    BY <1>2 DEF Mirrored, DocumentState, TypeOK
  <1>4. NoOrphanRun' /\ OnlyEligible'
    BY DEF NoOrphanRun, OnlyEligible, InFlight
  <1> QED
    BY <1>1, <1>3, <1>4

\* A document still pending has a run that is requested or none: scheduling
\* or ruling it out keeps run and document together.
LEMMA HandleRegisteredInv ==
  ASSUME IInv, NEW d \in Documents, HandleRegistered(d)
  PROVE  IInv'
  <1> USE OcrAssumption DEF IInv, HandleRegistered, ScheduleRun, budget
  <1>1. CASE d \notin Eligible
    <2>1. TypeOK'
      BY <1>1 DEF TypeOK, OcrStatuses
    <2>2. runStatus[d] = "none"
      BY <1>1 DEF OnlyEligible
    <2>3. Mirrored'
      BY <1>1, <2>2 DEF Mirrored, DocumentState, TypeOK
    <2>4. NoOrphanRun' /\ OnlyEligible'
      BY <1>1 DEF NoOrphanRun, OnlyEligible, InFlight
    <2> QED
      BY <2>1, <2>3, <2>4
  <1>2. CASE d \in Eligible
    <2>1. TypeOK'
      BY <1>2 DEF TypeOK, RunStatuses
    <2>2. Mirrored'
      BY <1>2 DEF Mirrored, DocumentState, TypeOK
    <2>3. NoOrphanRun' /\ OnlyEligible'
      BY <1>2 DEF NoOrphanRun, OnlyEligible, InFlight, TypeOK
    <2> QED
      BY <2>1, <2>2, <2>3
  <1> QED
    BY <1>1, <1>2

\* A handler only drops a job whose run is over; otherwise it takes its place.
LEMMA ReadRunInv ==
  ASSUME IInv, NEW h \in Handlers, NEW d \in Documents, ReadRun(h, d)
  PROVE  IInv'
  <1> USE OcrAssumption DEF IInv, ReadRun, tables, budget
  <1> DEFINE taken == [at |-> "claim", doc |-> d, attempt |-> attempts[d] + 1]
  <1>1. /\ handler'[h] = IF Finished(d) THEN Idle ELSE taken
        /\ \A g \in Handlers \ {h} : handler'[g] = handler[g]
        /\ taken \in Active /\ taken # Idle
    BY DEF TypeOK, Active, Idle
  <1>2. TypeOK'
    BY <1>1 DEF TypeOK
  <1>3. Mirrored'
    BY DEF Mirrored
  <1>4. \A c \in Documents \ {d} : (InFlight(c)' <=> InFlight(c)) /\ requests'[c] = requests[c]
    BY <1>1, OthersStay DEF TypeOK
  <1>5. ~Finished(d) => InFlight(d)'
    BY <1>1 DEF InFlight
  <1>6. InFlight(d) => InFlight(d)'
    BY <1>1 DEF InFlight
  <1>7. NoOrphanRun'
    BY <1>4, <1>5, <1>6 DEF NoOrphanRun, Finished
  <1>8. OnlyEligible'
    BY <1>4 DEF OnlyEligible
  <1> QED
    BY <1>2, <1>3, <1>7, <1>8

\* A claim moves run and document together, or, missed, neither.
LEMMA ClaimInv ==
  ASSUME IInv, NEW h \in Handlers, Claim(h)
  PROVE  IInv'
  <1> USE OcrAssumption DEF IInv, Claim, budget
  <1> DEFINE d == handler[h].doc
  <1>1. /\ handler[h] # Idle
        /\ d \in Documents /\ handler[h] \in Active
    BY HandlerShape DEF Idle, Failing
  <1>2. /\ handler'[h] \in Active /\ handler'[h] # Idle /\ handler'[h].doc = d
        /\ \A g \in Handlers \ {h} : handler'[g] = handler[g]
    BY <1>1 DEF TypeOK, Active, Idle
  <1>3. \A c \in Documents : InFlight(c)' <=> InFlight(c)
    BY <1>1, <1>2 DEF InFlight
  <1>4. InFlight(d)
    BY <1>1 DEF InFlight
  <1>5. CASE runStatus[d] \in {"requested", "failed"}
    <2> USE <1>5 DEF ClaimTaken
    <2>1. TypeOK'
      BY <1>1, <1>2 DEF TypeOK, RunStatuses, OcrStatuses, Active
    <2>2. Mirrored'
      BY <1>1 DEF Mirrored, DocumentState, TypeOK
    <2>3. NoOrphanRun'
      BY <1>1, <1>3, <1>4 DEF NoOrphanRun, TypeOK
    <2>4. OnlyEligible'
      BY <1>1, <1>3, <1>4 DEF OnlyEligible, TypeOK
    <2> QED
      BY <2>1, <2>2, <2>3, <2>4
  <1>6. CASE runStatus[d] \notin {"requested", "failed"}
    <2> USE <1>6 DEF ClaimMissed
    <2>1. TypeOK'
      BY <1>1, <1>2 DEF TypeOK
    <2>2. Mirrored' /\ NoOrphanRun' /\ OnlyEligible'
      BY <1>3 DEF Mirrored, NoOrphanRun, OnlyEligible
    <2> QED
      BY <2>1, <2>2
  <1> QED
    BY <1>5, <1>6

\* Moving to the catch block keeps the document in flight.
LEMMA FailInv ==
  ASSUME IInv, NEW h \in Handlers, handler[h].at = "provider",
         NEW canRetry \in BOOLEAN, Fail(h, canRetry),
         UNCHANGED <<tables, requests, budget>>
  PROVE  IInv'
  <1> USE DEF IInv, Fail, tables, budget
  <1>1. handler[h] # Idle /\ handler[h] \in Active /\ handler[h].doc \in Documents
    BY HandlerShape DEF Idle, Failing
  <1>2. /\ handler'[h] \in Failing /\ handler'[h] # Idle
        /\ handler'[h].doc = handler[h].doc
        /\ \A g \in Handlers \ {h} : handler'[g] = handler[g]
    BY <1>1 DEF TypeOK, Active, Failing, Idle
  <1>3. TypeOK'
    BY <1>2 DEF TypeOK
  <1>4. \A c \in Documents : InFlight(c)' <=> InFlight(c)
    BY <1>1, <1>2 DEF InFlight
  <1> QED
    BY <1>3, <1>4 DEF Mirrored, NoOrphanRun, OnlyEligible

\* The handler's document after it went back to idle.
LEMMA LeaveInv ==
  ASSUME IInv, NEW h \in Handlers, handler[h] # Idle,
         handler' = [handler EXCEPT ![h] = Idle]
  PROVE  /\ handler' \in [Handlers -> {Idle} \cup Active \cup Failing]
         /\ \A c \in Documents : InFlight(c)' => InFlight(c)
         /\ \A c \in Documents \ {handler[h].doc} : InFlight(c)' <=> InFlight(c)
         /\ handler[h].doc \in Eligible
  <1> USE DEF IInv
  <1>1. /\ handler'[h] = Idle
        /\ \A g \in Handlers \ {h} : handler'[g] = handler[g]
    BY DEF TypeOK
  <1>2. InFlight(handler[h].doc) /\ handler[h].doc \in Documents
    BY HandlerShape DEF InFlight
  <1>3. \A c \in Documents : InFlight(c)' => InFlight(c)
    BY <1>1 DEF InFlight
  <1>4. \A c \in Documents \ {handler[h].doc} : InFlight(c)' <=> InFlight(c)
    BY <1>1, OthersStay
  <1> QED
    BY <1>2, <1>3, <1>4 DEF OnlyEligible, TypeOK

\* Storing a result completes run and document together; a result that is
\* refused leaves both and keeps the handler on its way.
LEMMA StoreResultInv ==
  ASSUME IInv, NEW h \in Handlers, StoreResult(h)
  PROVE  IInv'
  <1> USE OcrAssumption DEF IInv, StoreResult, budget
  <1> DEFINE d == handler[h].doc
  <1>1. handler[h] # Idle
    BY DEF Idle
  <1>2. CASE d \in result
    BY <1>2, FailInv DEF tables
  <1>3. CASE d \notin result
    <2>1. d \in Documents
      BY <1>1, HandlerShape
    <2>2. TypeOK'
      BY <1>1, <1>3, <2>1, LeaveInv DEF TypeOK, RunStatuses, OcrStatuses
    <2>3. Mirrored'
      BY <1>3, <2>1 DEF Mirrored, DocumentState, TypeOK
    <2>4. NoOrphanRun'
      BY <1>1, <1>3, <2>1, LeaveInv DEF NoOrphanRun, TypeOK
    <2>5. OnlyEligible'
      BY <1>1, <1>3, <2>1, LeaveInv DEF OnlyEligible, TypeOK
    <2> QED
      BY <2>2, <2>3, <2>4, <2>5
  <1> QED
    BY <1>2, <1>3

\* A failure that is not final leaves a job in its place.
LEMMA RecordFailureInv ==
  ASSUME IInv, NEW h \in Handlers, RecordFailure(h)
  PROVE  IInv'
  <1> USE OcrAssumption DEF IInv, RecordFailure, budget
  <1> DEFINE d == handler[h].doc
  <1>1. handler[h] # Idle
    BY DEF Idle
  <1>2. d \in Documents
    BY <1>1, HandlerShape
  <1>3. /\ runStatus'[d] = IF Final(h) THEN "failed" ELSE "requested"
        /\ ocrStatus'[d] = IF Final(h) THEN "failed" ELSE "pending"
        /\ requests'[d] = IF Final(h) THEN requests[d] ELSE requests[d] + 1
        /\ requests[d] \in Nat
    BY <1>2 DEF TypeOK, FailedRun
  <1>4. \A c \in Documents \ {d} : /\ runStatus'[c] = runStatus[c]
                                   /\ ocrStatus'[c] = ocrStatus[c]
                                   /\ requests'[c] = requests[c]
    BY DEF TypeOK
  <1>5. TypeOK'
    BY <1>1, <1>2, LeaveInv DEF TypeOK, RunStatuses, OcrStatuses, FailedRun
  <1>6. Mirrored'
    BY <1>3, <1>4 DEF Mirrored, DocumentState
  <1>7. NoOrphanRun'
    <2> SUFFICES ASSUME NEW c \in Documents, runStatus'[c] \in {"requested", "running"}
                 PROVE  requests'[c] > 0 \/ InFlight(c)'
      BY DEF NoOrphanRun
    <2>1. CASE c = d
      BY <1>3, <2>1
    <2>2. CASE c # d
      <3>1. InFlight(c)' <=> InFlight(c)
        BY <1>1, <2>2, LeaveInv
      <3> QED
        BY <1>4, <2>2, <3>1 DEF NoOrphanRun
    <2> QED
      BY <2>1, <2>2
  <1>8. OnlyEligible'
    BY <1>1, <1>3, <1>4, LeaveInv DEF OnlyEligible
  <1> QED
    BY <1>5, <1>6, <1>7, <1>8

\* A lost handler's job comes back.
LEMMA CrashInv ==
  ASSUME IInv, NEW h \in Handlers, Crash(h)
  PROVE  IInv'
  <1> USE OcrAssumption DEF IInv, Crash, tables
  <1> DEFINE d == handler[h].doc
  <1>1. d \in Documents
    BY HandlerShape
  <1>2. /\ requests'[d] = requests[d] + 1 /\ requests[d] \in Nat
        /\ \A c \in Documents \ {d} : requests'[c] = requests[c]
    BY <1>1 DEF TypeOK
  <1>3. TypeOK'
    BY <1>1, LeaveInv DEF TypeOK
  <1>4. Mirrored'
    BY DEF Mirrored
  <1>5. NoOrphanRun'
    <2> SUFFICES ASSUME NEW c \in Documents, runStatus'[c] \in {"requested", "running"}
                 PROVE  requests'[c] > 0 \/ InFlight(c)'
      BY DEF NoOrphanRun
    <2>1. CASE c = d
      BY <1>2, <2>1
    <2>2. CASE c # d
      <3>1. (InFlight(c)' <=> InFlight(c)) /\ requests'[c] = requests[c]
        BY <1>2, <2>2, LeaveInv
      <3> QED
        BY <3>1 DEF NoOrphanRun
    <2> QED
      BY <2>1, <2>2
  <1>6. OnlyEligible'
    BY <1>2, LeaveInv DEF OnlyEligible
  <1> QED
    BY <1>3, <1>4, <1>5, <1>6

\* One more job for a run strands nothing.
LEMMA RedeliverInv ==
  ASSUME IInv, NEW d \in Documents, Redeliver(d)
  PROVE  IInv'
  <1> USE OcrAssumption DEF IInv, Redeliver, tables
  <1>1. TypeOK'
    BY DEF TypeOK
  <1>2. Mirrored'
    BY DEF Mirrored
  <1>3. NoOrphanRun' /\ OnlyEligible'
    BY DEF NoOrphanRun, OnlyEligible, InFlight, TypeOK
  <1> QED
    BY <1>1, <1>2, <1>3

\* A step that changes nothing keeps the invariant.
LEMMA StutterInv ==
  ASSUME IInv, UNCHANGED vars
  PROVE  IInv'
  BY DEF IInv, TypeOK, Mirrored, NoOrphanRun, OnlyEligible, InFlight,
         vars, tables, budget

\* The strengthened invariant holds in every reachable state.
THEOREM InvariantHolds == Spec => []IInv
  <1>1. IInv /\ [Next]_vars => IInv'
    <2> SUFFICES ASSUME IInv, [Next]_vars
                 PROVE  IInv'
      OBVIOUS
    <2>1. ASSUME NEW h \in Handlers, ProviderFails(h)
          PROVE  IInv'
      BY <2>1, FailInv DEF ProviderFails
    <2> QED
      BY <2>1, RegisterInv, HandleRegisteredInv, RedeliverInv, ReadRunInv, ClaimInv,
         StoreResultInv, RecordFailureInv, CrashInv, StutterInv
         DEF Next, Execute
  <1> QED
    BY InitInv, <1>1, PTL DEF Spec

\* Every variable keeps its type (TypeOK).
THEOREM TypeCorrect == Spec => []TypeOK
  BY InvariantHolds, PTL DEF IInv

\* The document always shows the state of its run (Mirrored).
THEOREM MirroredHolds == Spec => []Mirrored
  BY InvariantHolds, PTL DEF IInv

\* No crash, race or duplicate delivery strands a run (NoOrphanRun).
THEOREM NoOrphanRunHolds == Spec => []NoOrphanRun
  BY InvariantHolds, PTL DEF IInv

-----------------------------------------------------------------------------
(* One execution of a run at a time, unless a request is delivered twice *)

\* A handler works on the run of d.
WorksOn(h, d) == handler[h] # Idle /\ handler[h].doc = d

\* A run that is not over is carried by one job in the queue or by one handler, and
\* one that was not made or is over by none.
OneCarrierOf(d) ==
  /\ requests[d] \in {0, 1}
  /\ requests[d] = 1 => ~InFlight(d)
  /\ \A g, h \in Handlers : WorksOn(g, d) /\ WorksOn(h, d) => g = h
  /\ runStatus[d] \in {"none", "completed", "failed"} => requests[d] = 0 /\ ~InFlight(d)
OneCarrier == duplicates = 0 => \A d \in Documents : OneCarrierOf(d)

\* A run is executed by one handler at a time if no request was delivered twice:
\* handlers that crash and attempts that fail hand their job on.  So it is the repeated
\* delivery alone that the claim of executeOcrRun would have to stop
\* (ocr/runner.ts:143-187), and does not.
OneExecution ==
  duplicates = 0 => \A d \in Documents : \A g, h \in Handlers :
                      WorksOn(g, d) /\ WorksOn(h, d) => g = h

\* Nor does a run that completed or failed change again before such a delivery: a
\* repeated delivery is the only way to what CompletedStays rules out.
SettledStays ==
  [][duplicates' = 0 =>
       \A d \in Documents :
         runStatus[d] \in {"completed", "failed"} => runStatus'[d] = runStatus[d]]_vars

\* A step of h on another document changes no carrier.
LEMMA CarriedElsewhere ==
  ASSUME NEW h \in Handlers, NEW d \in Documents, OneCarrierOf(d),
         \A g \in Handlers \ {h} : handler'[g] = handler[g],
         ~WorksOn(h, d), ~WorksOn(h, d)',
         requests'[d] = requests[d], runStatus'[d] = runStatus[d]
  PROVE  OneCarrierOf(d)'
  <1>1. \A g \in Handlers : WorksOn(g, d)' <=> WorksOn(g, d)
    BY DEF WorksOn
  <1>2. InFlight(d)' <=> InFlight(d)
    BY <1>1 DEF InFlight, WorksOn
  <1> QED
    BY <1>1, <1>2 DEF OneCarrierOf

\* The handler that carries d goes on with it.
LEMMA CarriedOn ==
  ASSUME NEW h \in Handlers, NEW d \in Documents, OneCarrierOf(d),
         \A g \in Handlers \ {h} : handler'[g] = handler[g],
         WorksOn(h, d), WorksOn(h, d)',
         requests'[d] = requests[d], runStatus'[d] \in {runStatus[d], "running"}
  PROVE  OneCarrierOf(d)'
  <1>1. InFlight(d) /\ InFlight(d)'
    BY DEF InFlight, WorksOn
  <1>2. \A g \in Handlers : WorksOn(g, d)' <=> WorksOn(g, d)
    BY DEF WorksOn
  <1> QED
    BY <1>1, <1>2 DEF OneCarrierOf

\* The handler that carries d leaves it to a job, or to nobody once it is over.
LEMMA CarriedAway ==
  ASSUME NEW h \in Handlers, NEW d \in Documents, OneCarrierOf(d),
         \A g \in Handlers \ {h} : handler'[g] = handler[g],
         WorksOn(h, d), handler'[h] = Idle,
         requests'[d] \in {0, 1},
         runStatus'[d] \in {"none", "completed", "failed"} => requests'[d] = 0
  PROVE  OneCarrierOf(d)'
  <1>1. \A g \in Handlers : ~WorksOn(g, d)'
    BY DEF WorksOn, OneCarrierOf
  <1>2. ~InFlight(d)'
    BY <1>1 DEF InFlight, WorksOn
  <1> QED
    BY <1>1, <1>2 DEF OneCarrierOf

\* What a handler that carries d may rely on.
LEMMA CarrierAlone ==
  ASSUME NEW h \in Handlers, NEW d \in Documents, OneCarrierOf(d), WorksOn(h, d)
  PROVE  requests[d] = 0 /\ runStatus[d] \notin {"none", "completed", "failed"}
  BY DEF OneCarrierOf, InFlight, WorksOn

\* Registration, and the run that it makes.
LEMMA RegisteredCarrier ==
  ASSUME IInv, OneCarrier, duplicates = 0, NEW c \in Documents, NEW d \in Documents,
         Register(c) \/ HandleRegistered(c)
  PROVE  OneCarrierOf(d)'
  <1>1. OneCarrierOf(d) /\ handler' = handler
    BY DEF OneCarrier, Register, HandleRegistered
  <1>2. InFlight(d)' <=> InFlight(d)
    BY <1>1 DEF InFlight
  <1>3. \A g \in Handlers : WorksOn(g, d)' <=> WorksOn(g, d)
    BY <1>1 DEF WorksOn
  <1>4. \/ requests'[d] = requests[d] /\ runStatus'[d] = runStatus[d]
        \/ runStatus[d] = "none" /\ runStatus'[d] = "requested" /\ requests'[d] = requests[d] + 1
    BY DEF Register, HandleRegistered, ScheduleRun, IInv, TypeOK
  <1> QED
    BY <1>1, <1>2, <1>3, <1>4 DEF OneCarrierOf

\* A job is taken: a run that has a job is not over, so the handler takes it up.
LEMMA ReadRunCarrier ==
  ASSUME IInv, OneCarrier, duplicates = 0, NEW h \in Handlers, NEW c \in Documents, ReadRun(h, c),
         NEW d \in Documents
  PROVE  OneCarrierOf(d)'
  <1> DEFINE taken == [at |-> "claim", doc |-> c, attempt |-> attempts[c] + 1]
  <1>1. OneCarrierOf(c) /\ OneCarrierOf(d) /\ runStatus' = runStatus /\ handler[h] = Idle
    BY DEF OneCarrier, ReadRun, tables
  <1>2. requests[c] = 1 /\ requests' = [requests EXCEPT ![c] = 0]
    <2>1. requests[c] \in {0, 1} /\ requests[c] > 0
      BY <1>1 DEF ReadRun, OneCarrierOf
    <2>2. requests' = [requests EXCEPT ![c] = requests[c] - 1]
      BY DEF ReadRun
    <2>3. requests[c] = 1 /\ requests[c] - 1 = 0
      BY <2>1
    <2> QED
      BY <2>2, <2>3, Zenon
  <1>3. runStatus[c] \notin {"none", "completed", "failed"} /\ ~InFlight(c)
    BY <1>1, <1>2 DEF OneCarrierOf
  <1>4. handler' = [handler EXCEPT ![h] = taken]
    <2>1. ~Finished(c)
      BY <1>3 DEF Finished
    <2> QED
      BY <2>1 DEF ReadRun
  <1>5. /\ handler'[h] = taken /\ taken # Idle /\ taken.doc = c
        /\ \A g \in Handlers \ {h} : handler'[g] = handler[g]
    BY <1>4 DEF IInv, TypeOK, Idle
  <1>6. CASE d # c
    <2>1. ~WorksOn(h, d) /\ ~WorksOn(h, d)' /\ requests'[d] = requests[d]
      BY <1>1, <1>2, <1>5, <1>6 DEF WorksOn, IInv, TypeOK
    <2> QED
      BY <1>1, <1>5, <2>1, CarriedElsewhere
  <1>7. CASE d = c
    <2>1. requests'[d] = 0 /\ runStatus'[d] \notin {"none", "completed", "failed"}
      BY <1>1, <1>2, <1>3, <1>7 DEF IInv, TypeOK
    <2>2. \A g \in Handlers : WorksOn(g, d)' => g = h
      BY <1>3, <1>5, <1>7 DEF WorksOn, InFlight
    <2> QED
      BY <2>1, <2>2 DEF OneCarrierOf
  <1> QED
    BY <1>6, <1>7

\* A handler at work is not idle.
LEMMA AtWork ==
  ASSUME NEW h \in Handlers,
         Claim(h) \/ ProviderFails(h) \/ StoreResult(h) \/ RecordFailure(h) \/ Crash(h)
  PROVE  handler[h] # Idle
  <1>1. handler[h] # Idle \/ handler[h].at \in {"claim", "provider", "failing"}
    <2>1. CASE Claim(h)
      BY <2>1 DEF Claim
    <2>2. CASE ProviderFails(h)
      BY <2>2 DEF ProviderFails
    <2>3. CASE StoreResult(h)
      BY <2>3 DEF StoreResult
    <2>4. CASE RecordFailure(h)
      BY <2>4 DEF RecordFailure
    <2>5. CASE Crash(h)
      BY <2>5 DEF Crash
    <2> QED
      BY <2>1, <2>2, <2>3, <2>4, <2>5
  <1> QED
    BY <1>1 DEF Idle

\* It goes on with its document or is idle.
LEMMA GoesOn ==
  ASSUME IInv, NEW h \in Handlers,
         Claim(h) \/ ProviderFails(h) \/ StoreResult(h) \/ RecordFailure(h) \/ Crash(h)
  PROVE  /\ \A g \in Handlers \ {h} : handler'[g] = handler[g]
         /\ \/ handler'[h] = Idle
            \/ handler'[h] # Idle /\ handler'[h].doc = handler[h].doc
  <1>1. handler[h] # Idle /\ handler[h] \in Active \cup Failing
    BY AtWork, HandlerShape DEF IInv
  <1>2. handler \in [Handlers -> {Idle} \cup Active \cup Failing]
    BY DEF IInv, TypeOK
  <1>3. CASE Claim(h)
    <2>1. handler' = [handler EXCEPT ![h] = [handler[h] EXCEPT !.at = "provider"]]
      BY <1>3 DEF Claim
    <2>2. handler'[h] = [handler[h] EXCEPT !.at = "provider"]
      BY <1>2, <2>1
    <2> QED
      BY <1>1, <1>2, <2>1, <2>2 DEF Active, Failing, Idle
  <1>4. CASE \E canRetry \in BOOLEAN : Fail(h, canRetry)
    BY <1>1, <1>2, <1>4 DEF Fail, Active, Failing, Idle
  <1>5. CASE handler' = [handler EXCEPT ![h] = Idle]
    BY <1>2, <1>5
  <1> QED
    BY <1>3, <1>4, <1>5 DEF ProviderFails, StoreResult, RecordFailure, Crash

\* The rest of an execution, and its crash: what becomes of the document of h.
LEMMA WorkedCarrier ==
  ASSUME IInv, OneCarrier, duplicates = 0, NEW h \in Handlers,
         Claim(h) \/ ProviderFails(h) \/ StoreResult(h) \/ RecordFailure(h) \/ Crash(h),
         NEW d \in Documents
  PROVE  OneCarrierOf(d)'
  <1> DEFINE c == handler[h].doc
  <1>1. handler[h] # Idle
    BY AtWork
  <1>2. c \in Documents /\ handler[h] \in Active \cup Failing
    BY <1>1, HandlerShape DEF IInv
  <1>3. OneCarrierOf(d) /\ OneCarrierOf(c)
    BY <1>2 DEF OneCarrier
  <1>4. WorksOn(h, c)
    BY <1>1 DEF WorksOn
  <1>5. requests[c] = 0 /\ runStatus[c] \notin {"none", "completed", "failed"}
    BY <1>2, <1>3, <1>4, CarrierAlone
  <1>6. /\ \A g \in Handlers \ {h} : handler'[g] = handler[g]
        /\ \/ handler'[h] = Idle
           \/ handler'[h] # Idle /\ handler'[h].doc = c
    BY GoesOn
  <1>7. \A x \in Documents \ {c} : requests'[x] = requests[x] /\ runStatus'[x] = runStatus[x]
    BY <1>2 DEF Claim, ClaimTaken, ClaimMissed, ProviderFails, StoreResult, RecordFailure, Crash,
                tables, IInv, TypeOK
  <1>8. handler'[h] # Idle =>
          requests'[c] = requests[c] /\ runStatus'[c] \in {runStatus[c], "running"}
    BY <1>2 DEF Claim, ClaimTaken, ClaimMissed, ProviderFails, StoreResult, RecordFailure, Crash,
                Fail, tables, IInv, TypeOK
  <1>9. handler'[h] = Idle =>
          /\ requests'[c] \in {0, 1}
          /\ runStatus'[c] \in {"none", "completed", "failed"} => requests'[c] = 0
    BY <1>2, <1>5 DEF Claim, ProviderFails, StoreResult, RecordFailure, FailedRun, Crash,
                Fail, tables, IInv, TypeOK, Active, Failing, Idle
  <1>10. CASE d # c
    <2>1. ~WorksOn(h, d) /\ ~WorksOn(h, d)'
      BY <1>6, <1>10 DEF WorksOn
    <2> QED
      BY <1>3, <1>6, <1>7, <1>10, <2>1, CarriedElsewhere
  <1>11. CASE d = c /\ handler'[h] = Idle
    BY <1>3, <1>4, <1>6, <1>9, <1>11, CarriedAway
  <1>12. CASE d = c /\ handler'[h] # Idle
    <2>1. WorksOn(h, d) /\ WorksOn(h, d)'
      BY <1>4, <1>6, <1>12 DEF WorksOn
    <2> QED
      BY <1>3, <1>6, <1>8, <1>12, <2>1, CarriedOn
  <1> QED
    BY <1>10, <1>11, <1>12

\* Every step keeps it; a repeated delivery ends what is promised.
LEMMA NextCarrier == IInv /\ OneCarrier /\ [Next]_vars => OneCarrier'
  <1> SUFFICES ASSUME IInv, OneCarrier, [Next]_vars, duplicates' = 0, NEW d \in Documents
               PROVE  OneCarrierOf(d)'
    BY DEF OneCarrier
  <1>1. ASSUME NEW c \in Documents, Redeliver(c) PROVE FALSE
    BY <1>1 DEF Redeliver, IInv, TypeOK
  <1>2. duplicates = 0
    BY <1>1 DEF Next, Execute, Register, HandleRegistered, ReadRun, Claim, ProviderFails,
                StoreResult, RecordFailure, Crash, budget, vars
  <1>3. CASE UNCHANGED vars
    BY <1>2, <1>3 DEF OneCarrier, OneCarrierOf, InFlight, WorksOn, vars, tables
  <1> QED
    BY <1>1, <1>2, <1>3, RegisteredCarrier, ReadRunCarrier, WorkedCarrier DEF Next, Execute

LEMMA InitCarrier == Init => OneCarrier
  BY DEF Init, OneCarrier, OneCarrierOf, InFlight, WorksOn, Idle

\* One handler at a time executes a run that was requested once (OneExecution).
THEOREM OneExecutionHolds == Spec => []OneExecution
  <1>1. OneCarrier => OneExecution
    BY DEF OneCarrier, OneCarrierOf, OneExecution
  <1> QED
    BY <1>1, InvariantHolds, InitCarrier, NextCarrier, PTL DEF Spec

\* A run that is over changes only after a repeated delivery (SettledStays).
THEOREM SettledStaysHolds == Spec => SettledStays
  <1> DEFINE Kept == duplicates' = 0 =>
                       \A d \in Documents : runStatus[d] \in {"completed", "failed"}
                                              => runStatus'[d] = runStatus[d]
  <1>1. IInv /\ OneCarrier /\ [Next]_vars => [Kept]_vars
    <2> SUFFICES ASSUME IInv, OneCarrier, Next, duplicates' = 0, NEW d \in Documents,
                        runStatus[d] \in {"completed", "failed"}
                 PROVE  runStatus'[d] = runStatus[d]
      OBVIOUS
    <2>1. ASSUME NEW c \in Documents, Redeliver(c) PROVE FALSE
      BY <2>1 DEF Redeliver, IInv, TypeOK
    <2>2. duplicates = 0
      BY <2>1 DEF Next, Execute, Register, HandleRegistered, ReadRun, Claim, ProviderFails,
                  StoreResult, RecordFailure, Crash, budget
    <2>3. OneCarrierOf(d)
      BY <2>2 DEF OneCarrier
    <2>4. \A h \in Handlers : ~WorksOn(h, d)
      BY <2>3, CarrierAlone
    <2>5. ASSUME NEW h \in Handlers, Claim(h) \/ StoreResult(h) \/ RecordFailure(h)
          PROVE  runStatus'[d] = runStatus[d]
      <3>1. handler[h] # Idle
        BY <2>5, AtWork
      <3>2. handler[h].doc \in Documents /\ handler[h].doc # d
        BY <2>4, <3>1, HandlerShape DEF WorksOn, IInv
      <3> QED
        BY <2>5, <3>2 DEF Claim, ClaimTaken, ClaimMissed, StoreResult, RecordFailure, tables,
                          IInv, TypeOK
    <2>6. ASSUME NEW c \in Documents, Register(c) \/ HandleRegistered(c)
          PROVE  runStatus'[d] = runStatus[d]
      BY <2>6 DEF Register, HandleRegistered, ScheduleRun, IInv, TypeOK
    <2>7. ASSUME NEW h \in Handlers,
                 ProviderFails(h) \/ Crash(h) \/ \E c \in Documents : ReadRun(h, c)
          PROVE  runStatus'[d] = runStatus[d]
      BY <2>7 DEF ProviderFails, Crash, ReadRun, tables
    <2> QED
      BY <2>1, <2>5, <2>6, <2>7 DEF Next, Execute
  <1>2. Spec => []IInv /\ []OneCarrier
    BY InvariantHolds, InitCarrier, NextCarrier, PTL DEF Spec
  <1>3. Spec => [][Kept]_vars
    BY <1>1, <1>2, PTL DEF Spec
  <1> QED
    BY <1>3 DEF SettledStays

-----------------------------------------------------------------------------
(* Attempts *)

\* What is counted of a run agrees with what its handler counts on: a handler that is
\* to claim the run is one ahead of it, and none is behind.
AttemptsOf(d) ==
  /\ attempts[d] <= MaxAttempts
  /\ runStatus[d] = "none" => attempts[d] = 0
  /\ runStatus[d] = "requested" => attempts[d] < MaxAttempts
  /\ \A h \in Handlers : WorksOn(h, d) =>
       /\ attempts[d] <= handler[h].attempt
       /\ handler[h].at = "claim" => handler[h].attempt = attempts[d] + 1
AttemptsInv == duplicates = 0 => \A d \in Documents : AttemptsOf(d)

\* attempt_count stays within max_attempts (ocr/runner.ts:127-129, :255-325) until a
\* request is delivered twice.  After that it may not: a handler that has read the
\* run before its last failure claims the failed run once more.
AttemptsBounded ==
  duplicates = 0 => \A d \in Documents : attempts[d] <= MaxAttempts

\* A step that counts nothing and requests nothing.
LEMMA AttemptsKept ==
  ASSUME NEW d \in Documents, AttemptsOf(d), attempts'[d] = attempts[d],
         runStatus'[d] \in {"none", "requested"} => runStatus'[d] = runStatus[d],
         \A g \in Handlers : WorksOn(g, d)' =>
           /\ WorksOn(g, d) /\ handler'[g].attempt = handler[g].attempt
           /\ handler'[g].at = "claim" => handler[g].at = "claim"
  PROVE  AttemptsOf(d)'
  BY DEF AttemptsOf

\* A step of h on another document, or by which h leaves d.
LEMMA AttemptsElsewhere ==
  ASSUME NEW h \in Handlers, NEW d \in Documents, AttemptsOf(d), attempts'[d] = attempts[d],
         runStatus'[d] \in {"none", "requested"} => runStatus'[d] = runStatus[d],
         \A g \in Handlers \ {h} : handler'[g] = handler[g], ~WorksOn(h, d)'
  PROVE  AttemptsOf(d)'
  <1>1. \A g \in Handlers : WorksOn(g, d)' => WorksOn(g, d) /\ handler'[g] = handler[g]
    BY DEF WorksOn
  <1> QED
    BY <1>1, AttemptsKept

\* Registration, and a job that is taken.
LEMMA ArrivingAttempts ==
  ASSUME IInv, OneCarrier, AttemptsInv, duplicates = 0, NEW d \in Documents, NEW c \in Documents,
         \/ Register(c) \/ HandleRegistered(c)
         \/ \E h \in Handlers : ReadRun(h, c)
  PROVE  AttemptsOf(d)'
  <1>1. AttemptsOf(d) /\ attempts' = attempts
    BY DEF AttemptsInv, Register, HandleRegistered, ReadRun, tables
  <1>2. CASE Register(c) \/ HandleRegistered(c)
    <2>1. handler' = handler
      BY <1>2 DEF Register, HandleRegistered
    <2>2. \A g \in Handlers : WorksOn(g, d)' => WorksOn(g, d) /\ handler'[g] = handler[g]
      BY <2>1 DEF WorksOn
    <2>3. \/ runStatus'[d] = runStatus[d]
          \/ runStatus[d] = "none" /\ runStatus'[d] = "requested"
      BY <1>2 DEF Register, HandleRegistered, ScheduleRun, IInv, TypeOK
    <2>4. CASE runStatus[d] = "none" /\ runStatus'[d] = "requested"
      BY <1>1, <2>2, <2>4, OcrAssumption DEF AttemptsOf
    <2> QED
      BY <1>1, <2>2, <2>3, <2>4, AttemptsKept
  <1>3. ASSUME NEW h \in Handlers, ReadRun(h, c) PROVE AttemptsOf(d)'
    <2> DEFINE taken == [at |-> "claim", doc |-> c, attempt |-> attempts[c] + 1]
    <2>1. /\ handler'[h] \in {Idle, taken} /\ runStatus' = runStatus
          /\ \A g \in Handlers \ {h} : handler'[g] = handler[g]
      BY <1>3 DEF ReadRun, tables, IInv, TypeOK
    <2>2. CASE ~WorksOn(h, d)'
      BY <1>1, <2>1, <2>2, AttemptsElsewhere
    <2>3. CASE WorksOn(h, d)'
      <3>1. c = d /\ handler'[h] = taken
        BY <2>1, <2>3 DEF WorksOn
      <3>2. /\ handler'[h].at = "claim" /\ handler'[h].attempt = attempts'[d] + 1
            /\ attempts[d] \in Nat
        BY <1>1, <3>1 DEF IInv, TypeOK
      <3>3. \A g \in Handlers \ {h} : WorksOn(g, d)' => WorksOn(g, d) /\ handler'[g] = handler[g]
        BY <2>1 DEF WorksOn
      <3> QED
        BY <1>1, <2>1, <3>2, <3>3 DEF AttemptsOf
    <2> QED
      BY <2>2, <2>3
  <1> QED
    BY <1>2, <1>3

\* An execution, and its crash.
LEMMA WorkedAttempts ==
  ASSUME IInv, OneCarrier, AttemptsInv, duplicates = 0, NEW h \in Handlers,
         Claim(h) \/ ProviderFails(h) \/ StoreResult(h) \/ RecordFailure(h) \/ Crash(h),
         NEW d \in Documents
  PROVE  AttemptsOf(d)'
  <1> DEFINE c == handler[h].doc
  <1>1. /\ handler[h] # Idle /\ c \in Documents /\ handler[h].attempt \in Nat
        /\ handler[h] \in Active \cup Failing
    BY AtWork, HandlerShape DEF IInv
  <1>2. WorksOn(h, c) /\ AttemptsOf(c) /\ AttemptsOf(d) /\ OneCarrierOf(c)
    BY <1>1 DEF WorksOn, AttemptsInv, OneCarrier
  <1>3. /\ \A g \in Handlers \ {h} : handler'[g] = handler[g]
        /\ \/ handler'[h] = Idle
           \/ handler'[h] # Idle /\ handler'[h].doc = c
    BY GoesOn
  <1>4. d = c => \A g \in Handlers \ {h} : ~WorksOn(g, d) /\ ~WorksOn(g, d)'
    BY <1>2, <1>3 DEF OneCarrierOf, WorksOn
  <1>5. attempts[c] <= handler[h].attempt /\ attempts[c] \in Nat
    BY <1>1, <1>2 DEF AttemptsOf, IInv, TypeOK
  <1>6. CASE d # c
    <2>1. attempts'[d] = attempts[d] /\ runStatus'[d] = runStatus[d]
      BY <1>1, <1>6 DEF Claim, ClaimTaken, ClaimMissed, ProviderFails, StoreResult, RecordFailure,
                        Crash, tables, IInv, TypeOK
    <2>2. ~WorksOn(h, d)'
      BY <1>3, <1>6 DEF WorksOn
    <2> QED
      BY <1>2, <1>3, <2>1, <2>2, AttemptsElsewhere
  <1>7. CASE d = c /\ Claim(h)
    <2>1. /\ handler' = [handler EXCEPT ![h] = [handler[h] EXCEPT !.at = "provider"]]
          /\ handler[h].at = "claim"
      BY <1>7 DEF Claim
    <2>2. handler'[h].at = "provider" /\ handler'[h].attempt = handler[h].attempt
      BY <1>1, <2>1 DEF IInv, TypeOK, Active, Failing
    <2>3. handler[h].attempt = attempts[d] + 1 /\ runStatus[d] \notin {"none", "failed"}
      BY <1>2, <1>7, <2>1, CarrierAlone DEF AttemptsOf
    <2>4. CASE runStatus[d] = "requested"
      <3>1. attempts'[d] = handler[h].attempt /\ runStatus'[d] = "running"
        BY <1>1, <1>7, <2>4 DEF Claim, ClaimTaken, IInv, TypeOK
      <3>2. attempts'[d] <= MaxAttempts
        BY <1>2, <1>5, <1>7, <2>3, <2>4, <3>1, OcrAssumption DEF AttemptsOf
      <3> QED
        BY <1>1, <1>4, <1>7, <2>2, <3>1, <3>2 DEF AttemptsOf
    <2>5. CASE runStatus[d] # "requested"
      <3>1. attempts' = attempts /\ runStatus' = runStatus
        BY <1>7, <2>3, <2>5 DEF Claim, ClaimMissed
      <3> QED
        BY <1>2, <1>3, <1>4, <1>5, <1>7, <2>2, <3>1 DEF AttemptsOf
    <2> QED
      BY <2>4, <2>5
  <1>8. CASE d = c /\ RecordFailure(h)
    <2>1. /\ handler'[h] = Idle /\ attempts' = attempts
          /\ runStatus'[d] = FailedRun(h)
      BY <1>1, <1>8 DEF RecordFailure, IInv, TypeOK
    <2>2. \/ runStatus'[d] = "failed"
          \/ runStatus'[d] = "requested" /\ attempts[d] < MaxAttempts
      BY <1>1, <1>5, <1>8, <2>1, OcrAssumption DEF FailedRun, Final
    <2>3. \A g \in Handlers : ~WorksOn(g, d)'
      BY <1>4, <1>8, <2>1 DEF WorksOn
    <2> QED
      BY <1>2, <1>8, <2>1, <2>2, <2>3 DEF AttemptsOf
  <1>9. CASE d = c /\ (ProviderFails(h) \/ StoreResult(h) \/ Crash(h))
    <2>1. attempts' = attempts /\ runStatus'[d] \in {runStatus[d], "completed"}
      BY <1>1, <1>9 DEF ProviderFails, StoreResult, Crash, tables, IInv, TypeOK
    <2>2. handler'[h] # Idle =>
            handler'[h].attempt = handler[h].attempt /\ handler'[h].at = "failing"
      BY <1>1, <1>9 DEF ProviderFails, StoreResult, Crash, Fail, IInv, TypeOK
    <2>3. \A g \in Handlers : WorksOn(g, d)' =>
            /\ WorksOn(g, d) /\ handler'[g].attempt = handler[g].attempt
            /\ handler'[g].at = "claim" => handler[g].at = "claim"
      BY <1>2, <1>3, <1>4, <1>9, <2>2 DEF WorksOn
    <2> QED
      BY <1>2, <2>1, <2>3, AttemptsKept
  <1> QED
    BY <1>6, <1>7, <1>8, <1>9

LEMMA InitAttempts == Init => AttemptsInv
  BY OcrAssumption DEF Init, AttemptsInv, AttemptsOf, WorksOn, Idle

LEMMA NextAttempts == IInv /\ OneCarrier /\ AttemptsInv /\ [Next]_vars => AttemptsInv'
  <1> SUFFICES ASSUME IInv, OneCarrier, AttemptsInv, [Next]_vars, duplicates' = 0,
                      NEW d \in Documents
               PROVE  AttemptsOf(d)'
    BY DEF AttemptsInv
  <1>1. ASSUME NEW c \in Documents, Redeliver(c) PROVE FALSE
    BY <1>1 DEF Redeliver, IInv, TypeOK
  <1>2. duplicates = 0
    BY <1>1 DEF Next, Execute, Register, HandleRegistered, ReadRun, Claim, ProviderFails,
                StoreResult, RecordFailure, Crash, budget, vars
  <1>3. CASE UNCHANGED vars
    BY <1>2, <1>3 DEF AttemptsInv, AttemptsOf, WorksOn, vars, tables
  <1> QED
    BY <1>1, <1>2, <1>3, ArrivingAttempts, WorkedAttempts DEF Next, Execute

\* No run is attempted more often than it may be (AttemptsBounded).
THEOREM AttemptsBoundedHolds == Spec => []AttemptsBounded
  <1>1. AttemptsInv => AttemptsBounded
    BY DEF AttemptsInv, AttemptsOf, AttemptsBounded
  <1> QED
    BY <1>1, InvariantHolds, InitCarrier, NextCarrier, InitAttempts, NextAttempts, PTL DEF Spec
=============================================================================
