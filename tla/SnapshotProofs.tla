--------------------------- MODULE SnapshotProofs ---------------------------
(***************************************************************************)
(* Machine-checked facts about SnapshotLifecycle, for any runs, snapshots,  *)
(* handlers, users and bound: its types, that a sentence snapshot is        *)
(* decided once, that a snapshot sets the engine off once, that what the    *)
(* worker proposes is listed, and that it proposes at most one snapshot per *)
(* delivery of a confirmed extraction.                                      *)
(***************************************************************************)
EXTENDS SnapshotLifecycle, FiniteSetTheorems, TLAPS

-----------------------------------------------------------------------------
(* Types *)

\* What TypeOK says of a handler and of a person at work.
LEMMA HandlerShape ==
  ASSUME TypeOK, NEW h \in Handlers, handler[h] # Idle
  PROVE  /\ handler[h] \in Proposing \cup Showing /\ handler[h].run \in Runs
         /\ handler[h].at \in {"propose", "show"}
         /\ handler[h].at = "show" => handler[h].snap \in Snapshots
  BY DEF TypeOK, Proposing, Showing

\* What TypeOK says of a person with a request under way.
LEMMA UserShape ==
  ASSUME TypeOK, NEW u \in Users, user[u] # Idle
  PROVE  /\ user[u] \in Deciding \cup Promoting /\ user[u].snap \in Snapshots
         /\ user[u].at = "link" => user[u].run \in Runs
  BY DEF TypeOK, Deciding, Promoting

\* An insertion keeps the columns in their types.
LEMMA InsertShape ==
  ASSUME TypeOK, NEW s \in Snapshots, NEW k \in {"sentence", "custody"},
         NEW maker \in Runs \cup {Nobody}, NEW o \in Snapshots \cup {0}, Insert(s, k, maker, o)
  PROVE  /\ kind' \in [Snapshots -> {"none", "sentence", "custody"}]
         /\ madeBy' \in [Snapshots -> Runs \cup {Nobody}]
         /\ amends' \in [Snapshots -> Snapshots \cup {0}]
  BY DEF TypeOK, Insert

\* Initially.
LEMMA InitType == Init => TypeOK
  BY SnapshotAssumption DEF Init, TypeOK

\* The extractions and the deliveries.
LEMMA SourcesType ==
  ASSUME TypeOK, NEW r \in Runs, ConfirmExtraction(r) \/ RequestPromotion(r) \/ Redeliver(r)
  PROVE  TypeOK'
  <1> USE DEF TypeOK, prom, row, decisions, budget
  <1>1. CASE ConfirmExtraction(r)
    BY <1>1 DEF ConfirmExtraction
  <1>2. CASE RequestPromotion(r)
    BY <1>2 DEF RequestPromotion
  <1>3. CASE Redeliver(r)
    BY <1>3, SnapshotAssumption DEF Redeliver, Affordable
  <1> QED
    BY <1>1, <1>2, <1>3

\* The worker.
LEMMA HandlersType ==
  ASSUME TypeOK, NEW h \in Handlers, Execute(h) \/ Crash(h)
  PROVE  TypeOK'
  <1> USE DEF prom, row, decisions, budget
  <1>1. ASSUME NEW r \in Runs, ReadPromotion(h, r)
        PROVE  TypeOK'
    <2>1. [at |-> "propose", run |-> r] \in Proposing
      BY DEF Proposing
    <2>2. jobs' \in [Runs -> Nat]
      BY <1>1 DEF ReadPromotion, TypeOK
    <2>3. handler' \in [Handlers -> {Idle} \cup Proposing \cup Showing]
      BY <1>1, <2>1 DEF ReadPromotion, TypeOK
    <2> QED
      BY <1>1, <2>2, <2>3 DEF ReadPromotion, TypeOK
  <1>2. CASE FailPromotion(h)
    BY <1>2 DEF FailPromotion, TypeOK
  <1>3. CASE Propose(h)
    <2>1. PICK r \in Runs : r = handler[h].run
      BY <1>3, HandlerShape DEF Propose, Idle
    <2>2. class[r] \in {"sentence", "custody"}
      BY <1>3, <2>1 DEF Propose, TypeOK
    <2>3. PICK s \in Snapshots :
            /\ Insert(s, class[r], r, 0)
            /\ promotion' = [promotion EXCEPT ![r] = "proposed"]
            /\ target' = [target EXCEPT ![r] = s]
            /\ handler' = [handler EXCEPT ![h] = Proposed(r, s)]
      BY <1>3, <2>1 DEF Propose
    <2>4. /\ kind' \in [Snapshots -> {"none", "sentence", "custody"}]
          /\ madeBy' \in [Snapshots -> Runs \cup {Nobody}]
          /\ amends' \in [Snapshots -> Snapshots \cup {0}]
      BY <2>2, <2>3, InsertShape
    <2>5. Proposed(r, s) \in Showing
      BY DEF Proposed, Showing
    <2>6. handler' \in [Handlers -> {Idle} \cup Proposing \cup Showing]
      BY <2>3, <2>5 DEF TypeOK
    <2>7. /\ promotion' \in [Runs -> {"none", "requested", "proposed", "failed"}]
          /\ target' \in [Runs -> Snapshots \cup {0}]
      BY <2>3 DEF TypeOK
    <2> QED
      BY <1>3, <2>4, <2>6, <2>7 DEF Propose, TypeOK
  <1>4. CASE Show(h)
    BY <1>4 DEF Show, TypeOK
  <1>5. CASE Crash(h)
    <2>1. jobs' \in [Runs -> Nat]
      BY <1>5, HandlerShape DEF Crash, TypeOK
    <2> QED
      BY <1>5, <2>1, SnapshotAssumption DEF Crash, Affordable, TypeOK
  <1> QED
    BY <1>1, <1>2, <1>3, <1>4, <1>5 DEF Execute

\* A snapshot entered by hand.
LEMMA ByHandType ==
  ASSUME TypeOK, NEW k \in {"sentence", "custody"}, ProposeByHand(k)
  PROVE  TypeOK'
  <1>1. PICK s \in Snapshots, o \in Snapshots \cup {0} : Insert(s, k, Nobody, o)
    BY DEF ProposeByHand, Amendable
  <1>2. /\ kind' \in [Snapshots -> {"none", "sentence", "custody"}]
        /\ madeBy' \in [Snapshots -> Runs \cup {Nobody}]
        /\ amends' \in [Snapshots -> Snapshots \cup {0}]
    BY <1>1, InsertShape
  <1> QED
    BY <1>2, SnapshotAssumption DEF ProposeByHand, Affordable, TypeOK, prom, decisions

\* People at the promotions and at the reviews.
LEMMA RequestsType ==
  ASSUME TypeOK, NEW u \in Users, Request(u)
  PROVE  TypeOK'
  <1> USE DEF prom, row, decisions, budget
  <1>1. ASSUME NEW r \in Runs, PromoteByHand(u, r)
        PROVE  TypeOK'
    <2>1. PICK s \in Snapshots :
            /\ Insert(s, "sentence", Nobody, 0)
            /\ user' = [user EXCEPT ![u] = [at |-> "link", run |-> r, snap |-> s]]
      BY <1>1 DEF PromoteByHand
    <2>2. /\ kind' \in [Snapshots -> {"none", "sentence", "custody"}]
          /\ madeBy' \in [Snapshots -> Runs \cup {Nobody}]
          /\ amends' \in [Snapshots -> Snapshots \cup {0}]
      BY <2>1, InsertShape
    <2>3. [at |-> "link", run |-> r, snap |-> s] \in Promoting
      BY DEF Promoting
    <2>4. user' \in [Users -> {Idle} \cup Deciding \cup Promoting]
      BY <2>1, <2>3 DEF TypeOK
    <2> QED
      BY <1>1, <2>2, <2>4, SnapshotAssumption DEF PromoteByHand, Affordable, TypeOK
  <1>2. ASSUME NEW s \in Snapshots, ReadSnapshot(u, s)
        PROVE  TypeOK'
    <2>1. PICK act \in {"approve", "reject", "confirm", "supersede"} :
            user' = [user EXCEPT ![u] = [at |-> act, snap |-> s]]
      BY <1>2 DEF ReadSnapshot
    <2>2. [at |-> act, snap |-> s] \in Deciding
      BY DEF Deciding
    <2>3. user' \in [Users -> {Idle} \cup Deciding \cup Promoting]
      BY <2>1, <2>2 DEF TypeOK
    <2> QED
      BY <1>2, <2>3 DEF ReadSnapshot, TypeOK
  <1>3. CASE Link(u)
    <2>1. user[u] # Idle /\ user[u].at = "link"
      BY <1>3 DEF Link, Idle
    <2>2. user[u].snap \in Snapshots /\ user[u].run \in Runs
      BY <2>1, UserShape
    <2>3. [at |-> "list", snap |-> user[u].snap] \in Deciding
      BY <2>2 DEF Deciding
    <2>4. user' \in [Users -> {Idle} \cup Deciding \cup Promoting]
      BY <1>3, <2>3 DEF Link, TypeOK
    <2>5. /\ promotion' \in [Runs -> {"none", "requested", "proposed", "failed"}]
          /\ target' \in [Runs -> Snapshots \cup {0}]
      BY <1>3, <2>2 DEF Link, TypeOK
    <2> QED
      BY <1>3, <2>4, <2>5 DEF Link, TypeOK
  <1>4. CASE List(u)
    BY <1>4 DEF List, TypeOK
  <1>5. CASE Conflict(u)
    BY <1>5 DEF Conflict, TypeOK
  <1>6. CASE Approve(u)
    <2>1. PICK s \in Snapshots : s = user[u].snap
      BY <1>6, UserShape DEF Approve, Idle
    <2>2. [at |-> "resolve", snap |-> s] \in Deciding
      BY DEF Deciding
    <2>3. user' \in [Users -> {Idle} \cup Deciding \cup Promoting]
      BY <1>6, <2>1, <2>2 DEF Approve, TypeOK
    <2>4. marks' \in [Snapshots -> SUBSET {"confirmed", "rejected", "superseded"}]
      BY <1>6, <2>1 DEF Approve, TypeOK
    <2>5. triggers' \in [Snapshots -> Nat]
      BY <1>6, <2>1 DEF Approve, TypeOK
    <2> QED
      BY <1>6, <2>3, <2>4, <2>5 DEF Approve, TypeOK
  <1>7. CASE Reject(u)
    <2>1. PICK s \in Snapshots : s = user[u].snap
      BY <1>7, UserShape DEF Reject, Idle
    <2>2. [at |-> "resolve", snap |-> s] \in Deciding
      BY DEF Deciding
    <2>3. user' \in [Users -> {Idle} \cup Deciding \cup Promoting]
      BY <1>7, <2>1, <2>2 DEF Reject, TypeOK
    <2>4. marks' \in [Snapshots -> SUBSET {"confirmed", "rejected", "superseded"}]
      BY <1>7, <2>1 DEF Reject, TypeOK
    <2>5. rejections' \in [Snapshots -> Nat]
      BY <1>7, <2>1 DEF Reject, TypeOK
    <2> QED
      BY <1>7, <2>3, <2>4, <2>5 DEF Reject, TypeOK
  <1>8. CASE Supersede(u)
    <2>1. PICK o \in Snapshots : o = user[u].snap
      BY <1>8, UserShape DEF Supersede, Idle
    <2>2. PICK s \in Snapshots :
            /\ Insert(s, kind[o], Nobody, o)
            /\ replacedBy' = [replacedBy EXCEPT ![o] = @ \cup {s}]
      BY <1>8, <2>1 DEF Supersede
    <2>3. /\ kind' \in [Snapshots -> {"none", "sentence", "custody"}]
          /\ madeBy' \in [Snapshots -> Runs \cup {Nobody}]
          /\ amends' \in [Snapshots -> Snapshots \cup {0}]
      BY <2>2 DEF Insert, TypeOK
    <2>4. marks' \in [Snapshots -> SUBSET {"confirmed", "rejected", "superseded"}]
      BY <1>8, <2>1 DEF Supersede, TypeOK
    <2>5. replacedBy' \in [Snapshots -> SUBSET Snapshots]
      BY <2>2 DEF TypeOK
    <2> QED
      BY <1>8, <2>3, <2>4, <2>5, SnapshotAssumption DEF Supersede, Affordable, TypeOK
  <1>9. CASE Resolve(u)
    <2>1. queue' \in [Snapshots -> {"absent", "active", "resolved"}]
      BY <1>9 DEF Resolve, OffQueue, TypeOK
    <2> QED
      BY <1>9, <2>1 DEF Resolve, TypeOK
  <1>10. CASE RequestLost(u)
    BY <1>10, SnapshotAssumption DEF RequestLost, Affordable, TypeOK
  <1> QED
    BY <1>1, <1>2, <1>3, <1>4, <1>5, <1>6, <1>7, <1>8, <1>9, <1>10 DEF Request

\* Every step keeps the types.
LEMMA NextType == TypeOK /\ [Next]_vars => TypeOK'
  <1> SUFFICES ASSUME TypeOK, [Next]_vars PROVE TypeOK'
    OBVIOUS
  <1>1. CASE UNCHANGED vars
    BY <1>1 DEF vars, prom, row, decisions, budget, TypeOK
  <1> QED
    BY <1>1, SourcesType, HandlersType, ByHandType, RequestsType DEF Next

\* Every variable has its type in every reachable state.
THEOREM TypeCorrect == Spec => []TypeOK
  BY InitType, NextType, PTL DEF Spec

-----------------------------------------------------------------------------
(* Decisions *)

\* What is not there has no past.
NoneIsNew ==
  \A s \in Snapshots : kind[s] = "none" =>
    marks[s] = {} /\ rejections[s] = 0 /\ triggers[s] = 0 /\ amends[s] = 0 /\ madeBy[s] = Nobody
\* A sentence snapshot has one status.
SentenceMarks ==
  \A s \in Snapshots : kind[s] = "sentence" =>
    marks[s] \in {{}, {"confirmed"}, {"rejected"}, {"superseded"}}
\* A custody snapshot that was confirmed stays so.
CustodyMarks ==
  \A s \in Snapshots : kind[s] = "custody" =>
    /\ triggers[s] = (IF "confirmed" \in marks[s] THEN 1 ELSE 0)
    /\ "superseded" \in marks[s] => "confirmed" \in marks[s]
\* What a person read is still true as far as it does not change.
RequestsFounded ==
  \A u \in Users :
    /\ user[u].at \in {"approve", "reject", "confirm", "supersede"} => kind[user[u].snap] # "none"
    /\ user[u].at = "supersede" /\ kind[user[u].snap] = "custody" =>
         "confirmed" \in marks[user[u].snap]
    /\ user[u].at = "resolve" => marks[user[u].snap] # {}
\* A mark, an event and a replacement come together.
ReplacedOnce ==
  \A o \in Snapshots :
    /\ "superseded" \in marks[o] <=> replacedBy[o] # {}
    /\ \A s, t \in replacedBy[o] : s = t
    /\ \A s \in replacedBy[o] : amends[s] = o /\ kind[s] = kind[o]
DecisionInv ==
  /\ NoneIsNew /\ SentenceDecidedOnce /\ SentenceMarks /\ CustodyMarks
  /\ RequestsFounded /\ ReplacedOnce

\* Initially no snapshot is there.
LEMMA InitDecision == Init => DecisionInv
  BY SnapshotAssumption
     DEF Init, DecisionInv, NoneIsNew, SentenceDecidedOnce, SentenceMarks, CustodyMarks,
         RequestsFounded,
         ReplacedOnce, Idle

\* Steps that decide nothing and insert nothing.
LEMMA NothingDecided ==
  ASSUME DecisionInv, UNCHANGED <<kind, amends, madeBy, marks, decisions>>,
         RequestsFounded'
  PROVE  DecisionInv'
  BY DEF DecisionInv, NoneIsNew, SentenceDecidedOnce, SentenceMarks, CustodyMarks,
         ReplacedOnce, decisions

\* A snapshot that supersedes none, whatever it says it amends.
LEMMA InsertDecides ==
  ASSUME TypeOK, DecisionInv, NEW s \in Snapshots, NEW k \in {"sentence", "custody"}, NEW maker, NEW o,
         Insert(s, k, maker, o), UNCHANGED <<marks, decisions>>, RequestsFounded'
  PROVE  DecisionInv'
  <1> USE DEF decisions
  <1>1. kind[s] = "none" /\ marks[s] = {} /\ replacedBy[s] = {}
    BY DEF Insert, Fresh, DecisionInv, NoneIsNew, ReplacedOnce
  <1>2. \A x \in Snapshots : x # s => amends'[x] = amends[x]
    BY DEF Insert, TypeOK
  <1>3. \A x \in Snapshots : kind'[x] = IF x = s THEN k ELSE kind[x]
    BY DEF Insert, TypeOK
  <1>4. \A x \in Snapshots : x # s => madeBy'[x] = madeBy[x]
    BY DEF Insert, TypeOK
  <1>5. NoneIsNew'
    BY <1>2, <1>3, <1>4 DEF DecisionInv, NoneIsNew
  <1>6. SentenceDecidedOnce'
    <2> SUFFICES ASSUME NEW x \in Snapshots, kind'[x] = "sentence"
                 PROVE  /\ rejections[x] + triggers[x] <= 1
                        /\ rejections[x] = 1 <=> marks[x] = {"rejected"}
                        /\ triggers[x] = 1 <=> marks[x] \in {{"confirmed"}, {"superseded"}}
      BY DEF SentenceDecidedOnce
    <2>1. CASE x = s
      BY <1>1, <2>1 DEF DecisionInv, NoneIsNew
    <2>2. CASE x # s
      BY <1>3, <2>2 DEF DecisionInv, SentenceDecidedOnce
    <2> QED
      BY <2>1, <2>2
  <1>7. CustodyMarks'
    BY <1>1, <1>3 DEF DecisionInv, NoneIsNew, CustodyMarks
  <1>8. ReplacedOnce'
    <2>1. \A p \in Snapshots : replacedBy[p] # {} => kind[p] # "none"
      BY DEF DecisionInv, NoneIsNew, ReplacedOnce
    <2>2. \A p \in Snapshots : s \notin replacedBy[p] /\ (replacedBy[p] # {} => p # s)
      BY <1>1, <2>1 DEF DecisionInv, ReplacedOnce
    <2> QED
      BY <1>2, <1>3, <2>2 DEF DecisionInv, ReplacedOnce, TypeOK
  <1>9. SentenceMarks'
    BY <1>1, <1>3 DEF DecisionInv, NoneIsNew, SentenceMarks
  <1> QED
    BY <1>5, <1>6, <1>7, <1>8, <1>9 DEF DecisionInv

\* People who read before a snapshot was inserted read another one.
LEMMA InsertFounded ==
  ASSUME TypeOK, DecisionInv, NEW s \in Snapshots, NEW k \in {"sentence", "custody"}, NEW maker,
         NEW o, Insert(s, k, maker, o), marks' = marks,
         \A u \in Users :
           \/ user'[u] = user[u]
           \/ user'[u].at \notin {"approve", "reject", "confirm", "supersede", "resolve"}
  PROVE  RequestsFounded'
  <1>1. kind[s] = "none" /\ \A x \in Snapshots : kind'[x] = IF x = s THEN k ELSE kind[x]
    BY DEF Insert, Fresh, TypeOK
  <1>2. \A u \in Users :
          user[u].at \in {"approve", "reject", "confirm", "supersede", "resolve"} =>
            user[u].snap \in Snapshots
    BY UserShape DEF Idle
  <1> QED
    BY <1>1, <1>2 DEF DecisionInv, RequestsFounded

\* A confirmation finds the snapshot undecided, or custody not confirmed.
LEMMA ApproveDecides ==
  ASSUME TypeOK, DecisionInv, NEW u \in Users, Approve(u)
  PROVE  DecisionInv'
  <1>1. PICK s \in Snapshots : s = user[u].snap
    BY UserShape DEF Approve, Idle
  <1>2. /\ kind[s] # "none" /\ Confirmable(s)
        /\ marks' = [marks EXCEPT ![s] = marks[s] \cup {"confirmed"}]
        /\ triggers' = [triggers EXCEPT ![s] = triggers[s] + 1]
        /\ UNCHANGED <<kind, amends, madeBy, rejections, replacedBy>>
    BY <1>1 DEF Approve, DecisionInv, RequestsFounded, TypeOK
  <1>3. \A x \in Snapshots :
          /\ marks'[x] = IF x = s THEN marks[s] \cup {"confirmed"} ELSE marks[x]
          /\ triggers'[x] = IF x = s THEN triggers[s] + 1 ELSE triggers[x]
    BY <1>2 DEF TypeOK
  <1>4. NoneIsNew'
    BY <1>2, <1>3 DEF DecisionInv, NoneIsNew
  <1>5. SentenceDecidedOnce'
    <2> SUFFICES ASSUME NEW x \in Snapshots, kind[x] = "sentence"
                 PROVE  /\ rejections[x] + triggers'[x] <= 1
                        /\ rejections[x] = 1 <=> marks'[x] = {"rejected"}
                        /\ triggers'[x] = 1 <=> marks'[x] \in {{"confirmed"}, {"superseded"}}
      BY <1>2 DEF SentenceDecidedOnce
    <2>1. CASE x = s
      <3>1. marks[x] = {} /\ marks'[x] = {"confirmed"} /\ triggers'[x] = triggers[x] + 1
        BY <1>2, <1>3, <2>1 DEF Confirmable
      <3>2. rejections[x] \in Nat /\ triggers[x] \in Nat
        BY DEF TypeOK
      <3>3. marks[x] # {"rejected"} /\ marks[x] # {"confirmed"} /\ marks[x] # {"superseded"}
        BY <3>1
      <3>4. rejections[x] # 1 /\ triggers[x] # 1 /\ rejections[x] + triggers[x] <= 1
        BY <3>3 DEF DecisionInv, SentenceDecidedOnce
      <3> QED
        BY <3>1, <3>2, <3>4
    <2>2. CASE x # s
      BY <1>3, <2>2 DEF DecisionInv, SentenceDecidedOnce
    <2> QED
      BY <2>1, <2>2
  <1>6. CustodyMarks'
    BY <1>2, <1>3 DEF DecisionInv, CustodyMarks, Confirmable, TypeOK
  <1>7. ReplacedOnce'
    BY <1>2, <1>3 DEF DecisionInv, ReplacedOnce
  <1>8. RequestsFounded'
    <2>1. \A v \in Users : v # u => user'[v] = user[v]
      BY DEF Approve, TypeOK
    <2>2. user'[u] = Idle \/ user'[u] = [at |-> "resolve", snap |-> s]
      BY <1>1 DEF Approve, TypeOK
    <2>3. \A v \in Users : user[v] # Idle => user[v].snap \in Snapshots
      BY UserShape
    <2> QED
      BY <1>2, <1>3, <2>1, <2>2, <2>3 DEF DecisionInv, RequestsFounded, Idle
  <1>9. SentenceMarks'
    BY <1>2, <1>3 DEF DecisionInv, SentenceMarks, Confirmable
  <1> QED
    BY <1>4, <1>5, <1>6, <1>7, <1>8, <1>9 DEF DecisionInv

\* A rejection finds a sentence snapshot undecided.
LEMMA RejectDecides ==
  ASSUME TypeOK, DecisionInv, NEW u \in Users, Reject(u)
  PROVE  DecisionInv'
  <1>1. PICK s \in Snapshots : s = user[u].snap
    BY UserShape DEF Reject, Idle
  <1>2. /\ kind[s] # "none" /\ Rejectable(s)
        /\ marks' = [marks EXCEPT ![s] = marks[s] \cup {"rejected"}]
        /\ rejections' = [rejections EXCEPT ![s] = rejections[s] + 1]
        /\ UNCHANGED <<kind, amends, madeBy, triggers, replacedBy>>
    BY <1>1 DEF Reject, DecisionInv, RequestsFounded, TypeOK
  <1>3. \A x \in Snapshots :
          /\ marks'[x] = IF x = s THEN marks[s] \cup {"rejected"} ELSE marks[x]
          /\ rejections'[x] = IF x = s THEN rejections[s] + 1 ELSE rejections[x]
    BY <1>2 DEF TypeOK
  <1>4. NoneIsNew'
    BY <1>2, <1>3 DEF DecisionInv, NoneIsNew
  <1>5. SentenceDecidedOnce'
    <2> SUFFICES ASSUME NEW x \in Snapshots, kind[x] = "sentence"
                 PROVE  /\ rejections'[x] + triggers[x] <= 1
                        /\ rejections'[x] = 1 <=> marks'[x] = {"rejected"}
                        /\ triggers[x] = 1 <=> marks'[x] \in {{"confirmed"}, {"superseded"}}
      BY <1>2 DEF SentenceDecidedOnce
    <2>1. CASE x = s
      <3>1. marks[x] = {} /\ marks'[x] = {"rejected"} /\ rejections'[x] = rejections[x] + 1
        BY <1>2, <1>3, <2>1 DEF Rejectable
      <3>2. rejections[x] \in Nat /\ triggers[x] \in Nat
        BY DEF TypeOK
      <3>3. marks[x] # {"rejected"} /\ marks[x] # {"confirmed"} /\ marks[x] # {"superseded"}
        BY <3>1
      <3>4. rejections[x] # 1 /\ triggers[x] # 1 /\ rejections[x] + triggers[x] <= 1
        BY <3>3 DEF DecisionInv, SentenceDecidedOnce
      <3> QED
        BY <3>1, <3>2, <3>4
    <2>2. CASE x # s
      BY <1>3, <2>2 DEF DecisionInv, SentenceDecidedOnce
    <2> QED
      BY <2>1, <2>2
  <1>6. CustodyMarks'
    BY <1>2, <1>3 DEF DecisionInv, CustodyMarks, TypeOK
  <1>7. ReplacedOnce'
    BY <1>2, <1>3 DEF DecisionInv, ReplacedOnce
  <1>8. RequestsFounded'
    <2>1. \A v \in Users : v # u => user'[v] = user[v]
      BY DEF Reject, TypeOK
    <2>2. user'[u] = [at |-> "resolve", snap |-> s]
      BY <1>1 DEF Reject, TypeOK
    <2>3. \A v \in Users : user[v] # Idle => user[v].snap \in Snapshots
      BY UserShape
    <2> QED
      BY <1>2, <1>3, <2>1, <2>2, <2>3 DEF DecisionInv, RequestsFounded, Idle
  <1>9. SentenceMarks'
    BY <1>2, <1>3 DEF DecisionInv, SentenceMarks, Rejectable
  <1> QED
    BY <1>4, <1>5, <1>6, <1>7, <1>8, <1>9 DEF DecisionInv

\* A replacement finds the snapshot confirmed and not replaced.
LEMMA SupersedeDecides ==
  ASSUME TypeOK, DecisionInv, NEW u \in Users, Supersede(u)
  PROVE  DecisionInv'
  <1>1. PICK o \in Snapshots : o = user[u].snap
    BY UserShape DEF Supersede, Idle
  <1>2. /\ kind[o] # "none" /\ Supersedable(o)
        /\ kind[o] = "custody" => "confirmed" \in marks[o]
        /\ marks' = [marks EXCEPT ![o] = IF kind[o] = "sentence" THEN {"superseded"}
                                         ELSE marks[o] \cup {"superseded"}]
        /\ user' = [user EXCEPT ![u] = Idle]
        /\ UNCHANGED <<rejections, triggers>>
    BY <1>1 DEF Supersede, DecisionInv, RequestsFounded, TypeOK, decisions
  <1>3. PICK s \in Snapshots :
          /\ Insert(s, kind[o], Nobody, o)
          /\ replacedBy' = [replacedBy EXCEPT ![o] = replacedBy[o] \cup {s}]
    BY <1>1 DEF Supersede
  <1>4. /\ kind[s] = "none" /\ s # o /\ marks[s] = {} /\ amends[s] = 0
        /\ rejections[s] = 0 /\ triggers[s] = 0
    BY <1>2, <1>3 DEF Insert, Fresh, DecisionInv, NoneIsNew
  <1>5. \A x \in Snapshots :
          /\ kind'[x] = IF x = s THEN kind[o] ELSE kind[x]
          /\ amends'[x] = IF x = s THEN o ELSE amends[x]
          /\ x # s => madeBy'[x] = madeBy[x]
          /\ x # o => marks'[x] = marks[x]
    BY <1>2, <1>3 DEF Insert, TypeOK
  <1>6. /\ marks'[o] = IF kind[o] = "sentence" THEN {"superseded"} ELSE marks[o] \cup {"superseded"}
        /\ kind[o] \in {"sentence", "custody"}
    BY <1>2 DEF TypeOK
  <1>7. "superseded" \notin marks[o] /\ kind'[o] = kind[o]
    BY <1>2, <1>4, <1>5 DEF Supersedable
  <1>8. NoneIsNew'
    BY <1>2, <1>4, <1>5, <1>6 DEF DecisionInv, NoneIsNew
  <1>9. SentenceDecidedOnce'
    <2> SUFFICES ASSUME NEW x \in Snapshots, kind'[x] = "sentence"
                 PROVE  /\ rejections[x] + triggers[x] <= 1
                        /\ rejections[x] = 1 <=> marks'[x] = {"rejected"}
                        /\ triggers[x] = 1 <=> marks'[x] \in {{"confirmed"}, {"superseded"}}
      BY <1>2 DEF SentenceDecidedOnce
    <2>1. CASE x = s
      BY <1>4, <1>5, <2>1
    <2>2. CASE x = o
      <3>1. marks[x] = {"confirmed"} /\ marks'[x] = {"superseded"} /\ kind[x] = "sentence"
        BY <1>2, <1>6, <1>7, <2>2 DEF Supersedable
      <3>2. rejections[x] \in Nat /\ triggers[x] = 1 /\ rejections[x] + triggers[x] <= 1
        BY <3>1 DEF DecisionInv, SentenceDecidedOnce, TypeOK
      <3> QED
        BY <3>1, <3>2
    <2>3. CASE x # s /\ x # o
      BY <1>5, <2>3 DEF DecisionInv, SentenceDecidedOnce
    <2> QED
      BY <2>1, <2>2, <2>3
  <1>10. CustodyMarks'
    BY <1>2, <1>4, <1>5, <1>6, <1>7 DEF DecisionInv, CustodyMarks
  <1>11. ReplacedOnce'
    <2>1. \A p \in Snapshots : s \notin replacedBy[p] /\ (replacedBy[p] # {} => p # s)
      BY <1>4 DEF DecisionInv, NoneIsNew, ReplacedOnce
    <2>2. replacedBy[o] = {}
      BY <1>7 DEF DecisionInv, ReplacedOnce
    <2>3. \A p \in Snapshots : replacedBy'[p] = IF p = o THEN {s} ELSE replacedBy[p]
      BY <1>3, <2>2 DEF TypeOK
    <2> SUFFICES ASSUME NEW p \in Snapshots
                 PROVE  /\ "superseded" \in marks'[p] <=> replacedBy'[p] # {}
                        /\ \A x, y \in replacedBy'[p] : x = y
                        /\ \A x \in replacedBy'[p] : amends'[x] = p /\ kind'[x] = kind'[p]
      BY DEF ReplacedOnce
    <2>4. CASE p = o
      BY <1>5, <1>6, <1>7, <2>3, <2>4
    <2>5. CASE p # o
      BY <1>4, <1>5, <2>1, <2>3, <2>5 DEF DecisionInv, ReplacedOnce, TypeOK
    <2> QED
      BY <2>4, <2>5
  <1>12. RequestsFounded'
    <2>1. \A v \in Users : user[v] # Idle => user[v].snap \in Snapshots
      BY UserShape
    <2>2. \A v \in Users : user'[v] = IF v = u THEN Idle ELSE user[v]
      BY <1>2 DEF TypeOK
    <2> QED
      BY <1>4, <1>5, <1>6, <1>7, <2>1, <2>2 DEF DecisionInv, RequestsFounded, Idle
  <1>13. SentenceMarks'
    BY <1>4, <1>5, <1>6 DEF DecisionInv, SentenceMarks
  <1> QED
    BY <1>8, <1>9, <1>10, <1>11, <1>12, <1>13 DEF DecisionInv

\* The other steps insert a snapshot or leave them alone.
LEMMA NextDecision == TypeOK /\ DecisionInv /\ [Next]_vars => DecisionInv'
  <1> SUFFICES ASSUME TypeOK, DecisionInv, [Next]_vars PROVE DecisionInv'
    OBVIOUS
  <1> USE DEF prom, row, decisions, budget
  <1>1. ASSUME UNCHANGED <<row, decisions>>,
               \A u \in Users :
                 \/ user'[u] = user[u]
                 \/ user'[u].at \notin {"approve", "reject", "confirm", "supersede", "resolve"}
        PROVE  DecisionInv'
    <2>1. RequestsFounded'
      BY <1>1 DEF DecisionInv, RequestsFounded
    <2> QED
      BY <1>1, <2>1, NothingDecided
  <1>2. ASSUME NEW r \in Runs, ConfirmExtraction(r) \/ RequestPromotion(r) \/ Redeliver(r)
        PROVE  DecisionInv'
    BY <1>1, <1>2 DEF ConfirmExtraction, RequestPromotion, Redeliver
  <1>3. ASSUME NEW h \in Handlers, Propose(h)
        PROVE  DecisionInv'
    <2>1. class[handler[h].run] \in {"sentence", "custody"}
      BY <1>3, HandlerShape DEF Propose, Idle, TypeOK
    <2>2. PICK s \in Snapshots : Insert(s, class[handler[h].run], handler[h].run, 0)
      BY <1>3 DEF Propose
    <2>3. PICK k \in {"sentence", "custody"} : k = class[handler[h].run]
      BY <2>1
    <2>6. PICK maker : maker = handler[h].run
      OBVIOUS
    <2>4. Insert(s, k, maker, 0)
      BY <2>2, <2>3, <2>6
    <2>5. RequestsFounded'
      BY <1>3, <2>4, InsertFounded DEF Propose
    <2> QED
      BY <1>3, <2>4, <2>5, InsertDecides DEF Propose
  <1>4. ASSUME NEW h \in Handlers,
               (\E r \in Runs : ReadPromotion(h, r)) \/ FailPromotion(h) \/ Show(h) \/ Crash(h)
        PROVE  DecisionInv'
    BY <1>1, <1>4 DEF ReadPromotion, FailPromotion, Show, Crash
  <1>5. ASSUME NEW k \in {"sentence", "custody"}, ProposeByHand(k)
        PROVE  DecisionInv'
    <2>1. PICK s \in Snapshots, o \in Amendable(k) : Insert(s, k, Nobody, o)
      BY <1>5 DEF ProposeByHand
    <2>2. RequestsFounded'
      BY <1>5, <2>1, InsertFounded DEF ProposeByHand
    <2> QED
      BY <1>5, <2>1, <2>2, InsertDecides DEF ProposeByHand
  <1>6. ASSUME NEW u \in Users, NEW r \in Runs, PromoteByHand(u, r)
        PROVE  DecisionInv'
    <2>1. PICK s \in Snapshots :
            /\ Insert(s, "sentence", Nobody, 0)
            /\ user' = [user EXCEPT ![u] = [at |-> "link", run |-> r, snap |-> s]]
      BY <1>6 DEF PromoteByHand
    <2>2. \A v \in Users : user'[v] = user[v] \/ user'[v].at = "link"
      BY <2>1 DEF TypeOK
    <2>3. RequestsFounded'
      BY <1>6, <2>1, <2>2, InsertFounded DEF PromoteByHand
    <2> QED
      BY <1>6, <2>1, <2>3, InsertDecides DEF PromoteByHand
  <1>7. ASSUME NEW u \in Users, NEW s \in Snapshots, ReadSnapshot(u, s)
        PROVE  DecisionInv'
    <2>1. PICK act \in {"approve", "reject", "confirm", "supersede"} :
            /\ Allowed(act, s)
            /\ user' = [user EXCEPT ![u] = [at |-> act, snap |-> s]]
      BY <1>7 DEF ReadSnapshot
    <2>2. \A v \in Users :
            user'[v] = IF v = u THEN [at |-> act, snap |-> s] ELSE user[v]
      BY <2>1 DEF TypeOK
    <2>3. kind[s] # "none" /\ (act = "supersede" => "confirmed" \in marks[s])
      BY <1>7, <2>1 DEF ReadSnapshot, Allowed
    <2>4. RequestsFounded'
      BY <1>7, <2>2, <2>3 DEF ReadSnapshot, DecisionInv, RequestsFounded
    <2> QED
      BY <1>7, <2>4, NothingDecided DEF ReadSnapshot
  <1>8. ASSUME NEW u \in Users, Link(u) \/ List(u) \/ Conflict(u) \/ Resolve(u) \/ RequestLost(u)
        PROVE  DecisionInv'
    <2>1. UNCHANGED <<row, decisions>>
      BY <1>8 DEF Link, List, Conflict, Resolve, RequestLost
    <2>2. \A v \in Users :
            user'[v] = user[v] \/ user'[v] = Idle \/ user'[v].at = "list"
      BY <1>8 DEF Link, List, Conflict, Resolve, RequestLost, TypeOK
    <2> QED
      BY <1>1, <2>1, <2>2 DEF Idle
  <1>9. CASE UNCHANGED vars
    BY <1>1, <1>9 DEF vars
  <1> QED
    BY <1>2, <1>3, <1>4, <1>5, <1>6, <1>7, <1>8, <1>9, ApproveDecides, RejectDecides,
       SupersedeDecides DEF Next, Execute, Request

\* However people and routes race, a sentence snapshot gets one decision.
THEOREM SentenceDecidedOnceHolds == Spec => []SentenceDecidedOnce
  BY InitType, NextType, InitDecision, NextDecision, PTL DEF Spec, DecisionInv

\* A snapshot of either kind sets the engine off once at most; it is superseded
\* once at most, after it was confirmed, with one event that names its
\* replacement, whatever the rows entered by hand say they amend.
THEOREM ConfirmedOnceHolds == Spec => []ConfirmedOnce
  <1>1. TypeOK /\ DecisionInv => ConfirmedOnce
    <2> SUFFICES ASSUME TypeOK, DecisionInv PROVE ConfirmedOnce
      OBVIOUS
    <2>1. ASSUME NEW s \in Snapshots
          PROVE  /\ triggers[s] <= 1
                 /\ "superseded" \in marks[s] => triggers[s] = 1
      <3>1. triggers[s] \in Nat /\ rejections[s] \in Nat
        BY DEF TypeOK
      <3>2. CASE kind[s] = "none"
        BY <3>2 DEF DecisionInv, NoneIsNew
      <3>3. CASE kind[s] = "custody"
        BY <3>3 DEF DecisionInv, CustodyMarks
      <3>4. CASE kind[s] = "sentence"
        <4>1. /\ triggers[s] <= 1
              /\ triggers[s] = 1 <=> marks[s] \in {{"confirmed"}, {"superseded"}}
              /\ rejections[s] = 1 <=> marks[s] = {"rejected"}
          BY <3>1, <3>4 DEF DecisionInv, SentenceDecidedOnce
        <4>2. marks[s] \in {{}, {"confirmed"}, {"rejected"}, {"superseded"}}
          BY <3>4 DEF DecisionInv, SentenceMarks
        <4> QED
          BY <4>1, <4>2
      <3> QED
        BY <3>2, <3>3, <3>4 DEF TypeOK
    <2> QED
      BY <2>1 DEF ConfirmedOnce, DecisionInv, ReplacedOnce
  <1> QED
    BY <1>1, InitType, NextType, InitDecision, NextDecision, PTL DEF Spec

-----------------------------------------------------------------------------
(* What the worker proposes is listed *)

\* Initially nothing was proposed.
LEMMA InitListed == Init => ProposedListed
  <1> SUFFICES ASSUME Init PROVE ProposedListed
    OBVIOUS
  <1>1. Unlisted = {}
    BY DEF Init, Unlisted
  <1> QED
    BY <1>1, FS_EmptySet DEF Init, ProposedListed

\* Sets of snapshots are finite.
LEMMA UnlistedFinite ==
  ASSUME NEW S \in SUBSET Snapshots
  PROVE  IsFiniteSet(S) /\ Cardinality(S) \in Nat
  BY SnapshotAssumption, FS_Subset, FS_CardinalityType

\* A step after which no more snapshots are unlisted, and a crash.
LEMMA NoMoreUnlisted ==
  ASSUME TypeOK, ProposedListed, Unlisted' \subseteq Unlisted, crashes' = crashes
  PROVE  ProposedListed'
  <1>1. Unlisted \in SUBSET Snapshots /\ Unlisted' \in SUBSET Snapshots
    BY DEF Unlisted
  <1>2. Cardinality(Unlisted') <= Cardinality(Unlisted)
    BY <1>1, UnlistedFinite, FS_Subset
  <1> QED
    BY <1>1, <1>2, UnlistedFinite DEF ProposedListed, TypeOK

\* A crash after which one more snapshot may be unlisted.
LEMMA OneMoreUnlisted ==
  ASSUME TypeOK, ProposedListed, NEW x, Unlisted' \subseteq Unlisted \cup {x},
         crashes' = crashes + 1
  PROVE  ProposedListed'
  <1>1. Unlisted \in SUBSET Snapshots /\ Unlisted' \in SUBSET Snapshots
    BY DEF Unlisted
  <1>2. IsFiniteSet(Unlisted) /\ Cardinality(Unlisted) \in Nat /\ Cardinality(Unlisted') \in Nat
    BY <1>1, UnlistedFinite
  <1>3. /\ IsFiniteSet(Unlisted \cup {x})
        /\ Cardinality(Unlisted \cup {x}) \in {Cardinality(Unlisted), Cardinality(Unlisted) + 1}
    BY <1>2, FS_AddElement
  <1>4. Cardinality(Unlisted') <= Cardinality(Unlisted \cup {x})
    BY <1>3, FS_Subset
  <1> QED
    BY <1>2, <1>3, <1>4 DEF ProposedListed, TypeOK

\* No handler stops short of a listing, no snapshot of a worker is new, no
\* undecided one leaves the list.
LEMMA UnlistedKept ==
  ASSUME handler' = handler,
         \A s \in Snapshots : madeBy'[s] # Nobody => madeBy'[s] = madeBy[s],
         \A s \in Snapshots : marks'[s] = {} => marks[s] = {},
         \A s \in Snapshots : queue[s] = "active" => queue'[s] = "active" \/ marks'[s] # {}
  PROVE  Unlisted' \subseteq Unlisted
  BY DEF Unlisted

\* A handler lists what it proposed, unless it dies.
LEMMA HandlersListed ==
  ASSUME TypeOK, DecisionInv, ProposedListed, NEW h \in Handlers, Execute(h) \/ Crash(h)
  PROVE  ProposedListed'
  <1> USE DEF prom, row, decisions, budget
  <1>1. ASSUME handler[h].at # "show", UNCHANGED <<row, queue, crashes>>,
               \E new : handler' = [handler EXCEPT ![h] = new]
        PROVE  ProposedListed'
    <2>1. Unlisted' \subseteq Unlisted
      BY <1>1 DEF Unlisted, TypeOK
    <2> QED
      BY <1>1, <2>1, NoMoreUnlisted
  <1>2. ASSUME NEW r \in Runs, ReadPromotion(h, r)
        PROVE  ProposedListed'
    <2>1. \E new : handler' = [handler EXCEPT ![h] = new]
      BY <1>2 DEF ReadPromotion
    <2>2. handler[h].at # "show" /\ UNCHANGED <<row, queue, crashes>>
      BY <1>2 DEF ReadPromotion, Idle
    <2> QED
      BY <1>1, <2>1, <2>2
  <1>3. CASE FailPromotion(h)
    <2>1. \E new : handler' = [handler EXCEPT ![h] = new]
      BY <1>3 DEF FailPromotion
    <2> QED
      BY <1>1, <1>3, <2>1 DEF FailPromotion
  <1>4. CASE Propose(h)
    <2>1. PICK s \in Snapshots :
            /\ madeBy' = [madeBy EXCEPT ![s] = handler[h].run]
            /\ handler' = [handler EXCEPT ![h] = Proposed(handler[h].run, s)]
      BY <1>4 DEF Propose, Insert
    <2>3. handler'[h] = Proposed(handler[h].run, s)
      BY <2>1 DEF TypeOK
    <2>2. handler'[h].at = "show" /\ handler'[h].snap = s
      BY <2>3 DEF Proposed
    <2>4. s \notin Unlisted'
      BY <2>2, <2>3 DEF Unlisted
    <2>5. \A x \in Snapshots : x # s => madeBy'[x] = madeBy[x]
      BY <2>1 DEF TypeOK
    <2>6. \A g \in Handlers : g # h => handler'[g] = handler[g]
      BY <2>1 DEF TypeOK
    <2>7. handler[h].at # "show" /\ UNCHANGED <<marks, queue, crashes>>
      BY <1>4 DEF Propose
    <2>8. ASSUME NEW x \in Unlisted' PROVE x \in Unlisted
      BY <2>4, <2>5, <2>6, <2>7, <2>8 DEF Unlisted
    <2> QED
      BY <2>7, <2>8, NoMoreUnlisted
  <1>5. CASE Show(h)
    <2>1. PICK s \in Snapshots : s = handler[h].snap
      BY <1>5, HandlerShape DEF Show, Idle
    <2>2. \A g \in Handlers : g # h => handler'[g] = handler[g]
      BY <1>5 DEF Show, TypeOK
    <2>3. /\ queue'[s] = "active"
          /\ \A x \in Snapshots : x # s => queue'[x] = queue[x]
      BY <1>5, <2>1 DEF Show, TypeOK
    <2>4. UNCHANGED <<marks, madeBy, crashes>>
      BY <1>5 DEF Show
    <2>5. ASSUME NEW x \in Unlisted' PROVE x \in Unlisted
      BY <2>1, <2>2, <2>3, <2>4, <2>5 DEF Unlisted
    <2> QED
      BY <2>4, <2>5, NoMoreUnlisted
  <1>6. CASE Crash(h)
    <2>1. PICK x : x = handler[h].snap
      OBVIOUS
    <2>2. \A g \in Handlers : g # h => handler'[g] = handler[g]
      BY <1>6 DEF Crash, TypeOK
    <2>3. UNCHANGED <<marks, madeBy, queue>> /\ crashes' = crashes + 1
      BY <1>6 DEF Crash
    <2>4. Unlisted' \subseteq Unlisted \cup {x}
      BY <2>1, <2>2, <2>3 DEF Unlisted
    <2> QED
      BY <2>3, <2>4, OneMoreUnlisted
  <1> QED
    BY <1>2, <1>3, <1>4, <1>5, <1>6 DEF Execute

\* Every step keeps what was proposed on the list, but for one per crash.
LEMMA NextListed == TypeOK /\ DecisionInv /\ ProposedListed /\ [Next]_vars => ProposedListed'
  <1> SUFFICES ASSUME TypeOK, DecisionInv, ProposedListed, [Next]_vars PROVE ProposedListed'
    OBVIOUS
  <1> USE DEF prom, row, decisions, budget
  <1>1. ASSUME UNCHANGED <<row, queue, handler, crashes>>
        PROVE  ProposedListed'
    BY <1>1, UnlistedKept, NoMoreUnlisted
  <1>2. ASSUME NEW r \in Runs, ConfirmExtraction(r) \/ RequestPromotion(r) \/ Redeliver(r)
        PROVE  ProposedListed'
    BY <1>1, <1>2 DEF ConfirmExtraction, RequestPromotion, Redeliver
  <1>3. ASSUME NEW s \in Snapshots, NEW k, NEW o, Insert(s, k, Nobody, o),
               UNCHANGED <<marks, queue, handler, crashes>>
        PROVE  ProposedListed'
    <2>1. \A x \in Snapshots : madeBy'[x] # Nobody => madeBy'[x] = madeBy[x]
      BY <1>3 DEF Insert, TypeOK
    <2> QED
      BY <1>3, <2>1, UnlistedKept, NoMoreUnlisted
  <1>4. ASSUME NEW k, ProposeByHand(k)
        PROVE  ProposedListed'
    BY <1>3, <1>4 DEF ProposeByHand
  <1>5. ASSUME NEW u \in Users, NEW r \in Runs, PromoteByHand(u, r)
        PROVE  ProposedListed'
    BY <1>3, <1>5 DEF PromoteByHand
  <1>6. ASSUME NEW u \in Users,
               \/ (\E s \in Snapshots : ReadSnapshot(u, s))
               \/ Link(u) \/ Conflict(u)
        PROVE  ProposedListed'
    BY <1>1, <1>6 DEF ReadSnapshot, Link, Conflict
  <1>7. ASSUME NEW u \in Users, List(u) \/ Resolve(u)
        PROVE  ProposedListed'
    <2>1. PICK s \in Snapshots : s = user[u].snap
      BY <1>7, UserShape DEF List, Resolve, Idle
    <2>2. UNCHANGED <<marks, madeBy, handler, crashes>>
      BY <1>7 DEF List, Resolve
    <2>3. \A x \in Snapshots : queue[x] = "active" => queue'[x] = "active" \/ marks[x] # {}
      BY <1>7, <2>1 DEF List, Resolve, OffQueue, TypeOK, DecisionInv, RequestsFounded
    <2> QED
      BY <2>2, <2>3, UnlistedKept, NoMoreUnlisted
  <1>8. ASSUME NEW u \in Users, Approve(u) \/ Reject(u)
        PROVE  ProposedListed'
    <2>1. \A x \in Snapshots : marks'[x] = {} => marks[x] = {}
      BY <1>8 DEF Approve, Reject, TypeOK
    <2>2. UNCHANGED <<madeBy, queue, handler, crashes>>
      BY <1>8 DEF Approve, Reject
    <2> QED
      BY <2>1, <2>2, UnlistedKept, NoMoreUnlisted
  <1>9. ASSUME NEW u \in Users, Supersede(u)
        PROVE  ProposedListed'
    <2>1. PICK o \in Snapshots : o = user[u].snap
      BY <1>9, UserShape DEF Supersede, Idle
    <2>2. PICK s \in Snapshots : Insert(s, kind[o], Nobody, o)
      BY <1>9, <2>1 DEF Supersede
    <2>3. \A x \in Snapshots : madeBy'[x] # Nobody => madeBy'[x] = madeBy[x]
      BY <2>2 DEF Insert, TypeOK
    <2>4. \A x \in Snapshots : marks'[x] = {} => marks[x] = {}
      BY <1>9, <2>1 DEF Supersede, TypeOK
    <2>5. UNCHANGED <<queue, handler, crashes>>
      BY <1>9 DEF Supersede
    <2> QED
      BY <2>3, <2>4, <2>5, UnlistedKept, NoMoreUnlisted
  <1>10. ASSUME NEW u \in Users, RequestLost(u)
         PROVE  ProposedListed'
    <2>1. Unlisted' \subseteq Unlisted /\ crashes' = crashes + 1
      BY <1>10, UnlistedKept DEF RequestLost
    <2>2. Unlisted' \subseteq Unlisted \cup {u}
      BY <2>1
    <2> QED
      BY <2>1, <2>2, OneMoreUnlisted
  <1>11. CASE UNCHANGED vars
    BY <1>1, <1>11 DEF vars
  <1> QED
    BY <1>2, <1>4, <1>5, <1>6, <1>7, <1>8, <1>9, <1>10, <1>11, HandlersListed
       DEF Next, Request

\* Whatever crashes and whoever decides, a snapshot the worker proposed is on
\* the list, or decided, or one of as many as there were crashes.
THEOREM ProposedListedHolds == Spec => []ProposedListed
  BY InitType, NextType, InitDecision, NextDecision, InitListed, NextListed, PTL DEF Spec

-----------------------------------------------------------------------------
(* One snapshot per delivery *)

\* Handlers that have read a promotion and are about to carry it out.
Proposers(r) == {h \in Handlers : handler[h].at = "propose" /\ handler[h].run = r}

\* Nothing has been made of the run, by a worker or by a request.
Unmade(r) ==
  /\ MadeFrom(r) = {} /\ target[r] = 0
  /\ \A h \in Handlers : handler[h].at = "show" => handler[h].run # r

\* Every handler about to propose has used up a delivery, so have the snapshots
\* made.  While a promotion waits the jobs count too; afterwards they do nothing,
\* so a crash may well bring them back.
DeliveryOf(r) ==
  /\ IsFiniteSet(Proposers(r))
  /\ promotion[r] # "proposed" => Unmade(r)
  /\ promotion[r] = "none" => jobs[r] = 0 /\ Proposers(r) = {}
  /\ promotion[r] = "requested" => jobs[r] + Cardinality(Proposers(r)) <= 1 + duplicates
  /\ promotion[r] = "failed" => class[r] = "unmappable"
  /\ promotion[r] = "proposed" /\ class[r] = "unmappable" => Proposers(r) = {}
  /\ Cardinality(Proposers(r)) + Cardinality(MadeFrom(r)) <= 1 + duplicates
DeliveryInv == \A r \in Runs : DeliveryOf(r)

\* Initially nothing was delivered.
LEMMA InitDelivery == Init => DeliveryInv
  <1> SUFFICES ASSUME Init, NEW r \in Runs PROVE DeliveryOf(r)
    BY DEF DeliveryInv
  <1>1. Proposers(r) = {} /\ MadeFrom(r) = {} /\ \A h \in Handlers : handler[h].at # "show"
    BY SnapshotAssumption DEF Init, Proposers, MadeFrom, Idle
  <1> QED
    BY <1>1, FS_EmptySet DEF Init, DeliveryOf, Unmade

\* The counts are natural numbers.
LEMMA DeliveryCounts ==
  ASSUME TypeOK, NEW r \in Runs, DeliveryOf(r)
  PROVE  /\ Cardinality(Proposers(r)) \in Nat
         /\ IsFiniteSet(MadeFrom(r)) /\ Cardinality(MadeFrom(r)) \in Nat
         /\ jobs[r] \in Nat /\ duplicates \in Nat
  <1>1. MadeFrom(r) \in SUBSET Snapshots
    BY DEF MadeFrom
  <1> QED
    BY <1>1, UnlistedFinite, FS_CardinalityType DEF DeliveryOf, TypeOK

\* A step that leaves the promotion and the deliveries of a run alone, and by which
\* no handler takes it up and no snapshot is made of it.
LEMMA NothingMadeOf ==
  ASSUME TypeOK, NEW r \in Runs, DeliveryOf(r),
         promotion'[r] = promotion[r], target'[r] = target[r], class' = class,
         jobs'[r] = jobs[r], duplicates' = duplicates,
         Proposers(r)' \subseteq Proposers(r), MadeFrom(r)' \subseteq MadeFrom(r),
         \A h \in Handlers : handler'[h].at = "show" /\ handler'[h].run = r
                               => handler[h].at = "show" /\ handler[h].run = r
  PROVE  DeliveryOf(r)'
  <1>1. IsFiniteSet(Proposers(r)) /\ IsFiniteSet(MadeFrom(r))
    BY DeliveryCounts DEF DeliveryOf
  <1>2. /\ IsFiniteSet(Proposers(r)')
        /\ Cardinality(Proposers(r)') \in Nat
        /\ Cardinality(Proposers(r)') <= Cardinality(Proposers(r))
    BY <1>1, FS_Subset, FS_CardinalityType
  <1>3. /\ Cardinality(MadeFrom(r)') \in Nat
        /\ Cardinality(MadeFrom(r)') <= Cardinality(MadeFrom(r))
    BY <1>1, FS_Subset, FS_CardinalityType
  <1>4. Unmade(r) => Unmade(r)'
    BY DEF Unmade
  <1> QED
    BY <1>2, <1>3, <1>4, DeliveryCounts DEF DeliveryOf

\* One snapshot more of one run, whose handler is done with it.
LEMMA OneMadeOf ==
  ASSUME TypeOK, DeliveryInv, NEW h \in Handlers, Propose(h), NEW r \in Runs
  PROVE  DeliveryOf(r)'
  <1> USE DEF prom, row, decisions, budget
  <1>1. handler[h].run \in Runs /\ h \in Proposers(handler[h].run)
    BY HandlerShape DEF Propose, Idle, Proposers
  <1>2. PICK s \in Snapshots :
          /\ Insert(s, class[handler[h].run], handler[h].run, 0)
          /\ promotion' = [promotion EXCEPT ![handler[h].run] = "proposed"]
          /\ target' = [target EXCEPT ![handler[h].run] = s]
          /\ handler' = [handler EXCEPT ![h] = Proposed(handler[h].run, s)]
    BY DEF Propose
  <1>3. /\ handler'[h] = Proposed(handler[h].run, s)
        /\ \A g \in Handlers : g # h => handler'[g] = handler[g]
    BY <1>2 DEF TypeOK
  <1>4. handler'[h].at = "show" /\ handler'[h].run = handler[h].run
    BY <1>3 DEF Proposed
  <1>5. /\ madeBy'[s] = handler[h].run
        /\ \A x \in Snapshots : x # s => madeBy'[x] = madeBy[x]
    BY <1>2 DEF Insert, TypeOK
  <1>6. UNCHANGED <<class, jobs, duplicates>> /\ class[handler[h].run] # "unmappable"
    BY DEF Propose
  <1>7. DeliveryOf(r)
    BY DEF DeliveryInv
  <1>8. CASE r # handler[h].run
    <2>1. promotion'[r] = promotion[r] /\ target'[r] = target[r]
      BY <1>2, <1>8 DEF TypeOK
    <2>2. Proposers(r)' \subseteq Proposers(r)
      BY <1>3, <1>4, <1>8 DEF Proposers
    <2>3. MadeFrom(r)' \subseteq MadeFrom(r)
      BY <1>5, <1>8 DEF MadeFrom
    <2>4. \A g \in Handlers : handler'[g].at = "show" /\ handler'[g].run = r
                                => handler[g].at = "show" /\ handler[g].run = r
      BY <1>3, <1>4, <1>8
    <2> QED
      BY <1>6, <1>7, <2>1, <2>2, <2>3, <2>4, NothingMadeOf
  <1>9. CASE r = handler[h].run
    <2>1. promotion'[r] = "proposed" /\ class'[r] # "unmappable"
      BY <1>1, <1>2, <1>6, <1>9 DEF TypeOK
    <2>2. Proposers(r)' = Proposers(r) \ {h}
      BY <1>3, <1>4 DEF Proposers
    <2>3. MadeFrom(r)' \subseteq MadeFrom(r) \cup {s}
      BY <1>5 DEF MadeFrom
    <2>4. IsFiniteSet(Proposers(r)) /\ IsFiniteSet(MadeFrom(r)) /\ h \in Proposers(r)
      BY <1>1, <1>7, <1>9, DeliveryCounts DEF DeliveryOf
    <2>5. /\ IsFiniteSet(Proposers(r)')
          /\ Cardinality(Proposers(r)') = Cardinality(Proposers(r)) - 1
      BY <2>2, <2>4, FS_RemoveElement
    <2>6. /\ Cardinality(MadeFrom(r)') \in Nat
          /\ Cardinality(MadeFrom(r)') <= Cardinality(MadeFrom(r)) + 1
      <3>1. Cardinality(MadeFrom(r)) \in Nat
        BY <1>7, DeliveryCounts
      <3>2. /\ IsFiniteSet(MadeFrom(r) \cup {s})
            /\ Cardinality(MadeFrom(r) \cup {s})
                 \in {Cardinality(MadeFrom(r)), Cardinality(MadeFrom(r)) + 1}
        BY <2>4, <3>1, FS_AddElement
      <3>3. /\ IsFiniteSet(MadeFrom(r)')
            /\ Cardinality(MadeFrom(r)') <= Cardinality(MadeFrom(r) \cup {s})
        BY <2>3, <3>2, FS_Subset
      <3> QED
        BY <3>1, <3>2, <3>3, FS_CardinalityType
    <2> QED
      BY <1>6, <1>7, <2>1, <2>5, <2>6, DeliveryCounts DEF DeliveryOf
  <1> QED
    BY <1>8, <1>9

\* The handlers of the promotions.
LEMMA HandlersDelivery ==
  ASSUME TypeOK, DeliveryInv, NEW h \in Handlers, Execute(h) \/ Crash(h), NEW r \in Runs
  PROVE  DeliveryOf(r)'
  <1> USE DEF prom, row, decisions, budget
  <1>1. DeliveryOf(r)
    BY DEF DeliveryInv
  <1>2. ASSUME NEW q \in Runs, ReadPromotion(h, q)
        PROVE  DeliveryOf(r)'
    <2>1. handler[h] = Idle /\ h \notin Proposers(r)
      BY <1>2 DEF ReadPromotion, Idle, Proposers
    <2>2. UNCHANGED <<class, prom, madeBy, duplicates>> /\ MadeFrom(r)' = MadeFrom(r)
      BY <1>2 DEF ReadPromotion, MadeFrom
    <2>3. /\ \A g \in Handlers : g # h => handler'[g] = handler[g]
          /\ handler'[h] = IF AwaitsProposal(q) THEN [at |-> "propose", run |-> q] ELSE Idle
      BY <1>2 DEF ReadPromotion, TypeOK
    <2>4. handler'[h].at # "show"
      BY <2>3 DEF Idle
    <2>5. /\ jobs[q] > 0 /\ jobs'[q] = jobs[q] - 1
          /\ \A x \in Runs : x # q => jobs'[x] = jobs[x]
      BY <1>2 DEF ReadPromotion, TypeOK
    <2>6. CASE q # r
      <3>1. Proposers(r)' \subseteq Proposers(r)
        BY <2>3, <2>6 DEF Proposers, Idle
      <3> QED
        BY <1>1, <2>2, <2>3, <2>4, <2>5, <2>6, <3>1, NothingMadeOf
    <2>7. CASE q = r /\ promotion[r] # "requested"
      <3>1. Proposers(r)' = Proposers(r)
        BY <2>1, <2>3, <2>7 DEF Proposers, Idle, AwaitsProposal
      <3>2. promotion[r] # "none"
        BY <1>1, <2>5, <2>7 DEF DeliveryOf
      <3>3. Unmade(r) => Unmade(r)'
        BY <2>2, <2>3, <2>4 DEF Unmade
      <3> QED
        BY <1>1, <2>2, <2>7, <3>1, <3>2, <3>3 DEF DeliveryOf
    <2>8. CASE q = r /\ promotion[r] = "requested"
      <3>1. Proposers(r)' = Proposers(r) \cup {h}
        BY <2>3, <2>8 DEF Proposers, AwaitsProposal
      <3>2. /\ IsFiniteSet(Proposers(r)')
            /\ Cardinality(Proposers(r)') = Cardinality(Proposers(r)) + 1
        BY <1>1, <2>1, <3>1, FS_AddElement DEF DeliveryOf
      <3>3. Unmade(r) => Unmade(r)'
        BY <2>2, <2>3, <2>4 DEF Unmade
      <3>4. Cardinality(MadeFrom(r)) = 0
        BY <1>1, <2>8, FS_EmptySet DEF DeliveryOf, Unmade
      <3> QED
        BY <1>1, <2>2, <2>5, <2>8, <3>2, <3>3, <3>4, DeliveryCounts DEF DeliveryOf
    <2> QED
      BY <2>6, <2>7, <2>8
  <1>3. CASE FailPromotion(h)
    <2>1. /\ handler[h].run \in Runs /\ handler[h].at = "propose"
          /\ class[handler[h].run] = "unmappable" /\ h \in Proposers(handler[h].run)
      BY <1>3, HandlerShape DEF FailPromotion, Idle, Proposers
    <2>2. UNCHANGED <<class, target, jobs, madeBy, duplicates>> /\ MadeFrom(r)' = MadeFrom(r)
      BY <1>3 DEF FailPromotion, MadeFrom
    <2>3. handler'[h] = Idle /\ \A g \in Handlers : g # h => handler'[g] = handler[g]
      BY <1>3 DEF FailPromotion, TypeOK
    <2>4. /\ Proposers(r)' \subseteq Proposers(r)
          /\ \A g \in Handlers : handler'[g].at = "show" => handler'[g] = handler[g]
      BY <2>3 DEF Proposers, Idle
    <2>5. CASE r # handler[h].run
      <3>1. promotion'[r] = promotion[r]
        BY <1>3, <2>5 DEF FailPromotion, TypeOK
      <3> QED
        BY <1>1, <2>2, <2>4, <3>1, NothingMadeOf
    <2>6. CASE r = handler[h].run
      <3>1. promotion'[r] = "failed"
        BY <1>3, <2>6 DEF FailPromotion, TypeOK
      <3>2. Unmade(r)
        BY <1>1, <2>1, <2>6 DEF DeliveryOf
      <3>3. Unmade(r)'
        BY <2>2, <2>4, <3>2 DEF Unmade
      <3>4. /\ IsFiniteSet(Proposers(r)') /\ Cardinality(Proposers(r)') \in Nat
            /\ Cardinality(Proposers(r)') <= Cardinality(Proposers(r))
        BY <1>1, <2>4, FS_Subset, FS_CardinalityType DEF DeliveryOf
      <3> QED
        BY <1>1, <2>1, <2>2, <2>6, <3>1, <3>3, <3>4, DeliveryCounts DEF DeliveryOf
    <2> QED
      BY <2>5, <2>6
  <1>4. CASE Propose(h)
    BY <1>4, OneMadeOf
  <1>5. CASE Show(h)
    <2>1. handler'[h] = Idle /\ \A g \in Handlers : g # h => handler'[g] = handler[g]
      BY <1>5 DEF Show, TypeOK
    <2>2. /\ Proposers(r)' \subseteq Proposers(r)
          /\ \A g \in Handlers : handler'[g].at = "show" => handler'[g] = handler[g]
      BY <2>1 DEF Proposers, Idle
    <2>3. MadeFrom(r)' = MadeFrom(r)
      BY <1>5 DEF Show, MadeFrom
    <2> QED
      BY <1>1, <1>5, <2>2, <2>3, NothingMadeOf DEF Show
  <1>6. CASE Crash(h)
    <2>1. handler'[h] = Idle /\ \A g \in Handlers : g # h => handler'[g] = handler[g]
      BY <1>6 DEF Crash, TypeOK
    <2>2. /\ Proposers(r)' \subseteq Proposers(r) /\ h \notin Proposers(r)'
          /\ \A g \in Handlers : handler'[g].at = "show" => handler'[g] = handler[g]
      BY <2>1 DEF Proposers, Idle
    <2>3. UNCHANGED <<class, prom, madeBy, duplicates>> /\ MadeFrom(r)' = MadeFrom(r)
      BY <1>6 DEF Crash, MadeFrom
    <2>4. handler[h].run \in Runs /\ handler[h].at \in {"propose", "show"}
      BY <1>6, HandlerShape DEF Crash
    <2>5. /\ jobs'[handler[h].run] = jobs[handler[h].run] + 1
          /\ \A x \in Runs : x # handler[h].run => jobs'[x] = jobs[x]
      BY <1>6, <2>4 DEF Crash, TypeOK
    <2>6. CASE r # handler[h].run
      BY <1>1, <2>2, <2>3, <2>5, <2>6, NothingMadeOf
    <2>7. CASE r = handler[h].run
      <3>1. Unmade(r) => Unmade(r)'
        BY <2>2, <2>3 DEF Unmade
      <3>2. promotion[r] # "proposed" => h \in Proposers(r)
        BY <1>1, <2>4, <2>7 DEF DeliveryOf, Unmade, Proposers
      <3>3. /\ IsFiniteSet(Proposers(r)') /\ Cardinality(Proposers(r)') \in Nat
            /\ Cardinality(Proposers(r)') <= Cardinality(Proposers(r))
        BY <1>1, <2>2, FS_Subset, FS_CardinalityType DEF DeliveryOf
      <3>4. h \in Proposers(r) => Cardinality(Proposers(r)') = Cardinality(Proposers(r)) - 1
        <4>1. Proposers(r)' = Proposers(r) \ {h}
          BY <2>1, <2>2 DEF Proposers
        <4> QED
          BY <1>1, <4>1, FS_RemoveElement DEF DeliveryOf
      <3> QED
        BY <1>1, <2>2, <2>3, <2>5, <2>7, <3>1, <3>2, <3>3, <3>4, DeliveryCounts DEF DeliveryOf
    <2> QED
      BY <2>6, <2>7
  <1> QED
    BY <1>2, <1>3, <1>4, <1>5, <1>6 DEF Execute


\* Deliveries, requests and decisions.
LEMMA NextDelivery == TypeOK /\ DeliveryInv /\ [Next]_vars => DeliveryInv'
  <1> SUFFICES ASSUME TypeOK, DeliveryInv, [Next]_vars, NEW r \in Runs PROVE DeliveryOf(r)'
    BY DEF DeliveryInv
  <1> USE DEF prom, row, decisions, budget
  <1>1. DeliveryOf(r)
    BY DEF DeliveryInv
  <1>2. ASSUME UNCHANGED <<class, prom, jobs, madeBy, handler, duplicates>>
        PROVE  DeliveryOf(r)'
    BY <1>1, <1>2 DEF DeliveryOf, Unmade, Proposers, MadeFrom
  <1>3. ASSUME NEW s \in Snapshots, NEW k, NEW o, Insert(s, k, Nobody, o),
               UNCHANGED <<class, prom, jobs, handler, duplicates>>
        PROVE  DeliveryOf(r)'
    <2>1. MadeFrom(r)' \subseteq MadeFrom(r)
      BY <1>3, SnapshotAssumption DEF Insert, MadeFrom, TypeOK
    <2>2. Proposers(r)' = Proposers(r)
      BY <1>3 DEF Proposers
    <2> QED
      BY <1>1, <1>3, <2>1, <2>2, NothingMadeOf
  <1>4. ASSUME NEW q \in Runs, RequestPromotion(q)
        PROVE  DeliveryOf(r)'
    <2>1. Proposers(r)' = Proposers(r) /\ MadeFrom(r)' = MadeFrom(r) /\ Unmade(r)' = Unmade(r)
      BY <1>4 DEF RequestPromotion, Proposers, MadeFrom, Unmade
    <2>2. CASE q # r
      <3>1. promotion'[r] = promotion[r] /\ jobs'[r] = jobs[r]
        BY <1>4, <2>2 DEF RequestPromotion, TypeOK
      <3> QED
        BY <1>1, <1>4, <2>1, <3>1 DEF DeliveryOf, RequestPromotion
    <2>3. CASE q = r
      <3>1. promotion'[r] = "requested" /\ jobs'[r] = jobs[r] + 1 /\ promotion[r] = "none"
        BY <1>4, <2>3 DEF RequestPromotion, TypeOK
      <3>2. Cardinality(Proposers(r)) = 0
        BY <1>1, <3>1, FS_EmptySet DEF DeliveryOf
      <3> QED
        BY <1>1, <1>4, <2>1, <3>1, <3>2, DeliveryCounts DEF DeliveryOf, RequestPromotion
    <2> QED
      BY <2>2, <2>3
  <1>5. ASSUME NEW q \in Runs, Redeliver(q)
        PROVE  DeliveryOf(r)'
    <2>1. Proposers(r)' = Proposers(r) /\ MadeFrom(r)' = MadeFrom(r) /\ Unmade(r)' = Unmade(r)
      BY <1>5 DEF Redeliver, Proposers, MadeFrom, Unmade
    <2>2. /\ UNCHANGED <<class, promotion>> /\ duplicates' = duplicates + 1
          /\ promotion[r] = "none" => jobs'[r] = jobs[r]
          /\ jobs'[r] \in {jobs[r], jobs[r] + 1}
      BY <1>5 DEF Redeliver, TypeOK
    <2> QED
      BY <1>1, <2>1, <2>2, DeliveryCounts DEF DeliveryOf
  <1>6. ASSUME NEW k, ProposeByHand(k)
        PROVE  DeliveryOf(r)'
    BY <1>3, <1>6 DEF ProposeByHand
  <1>7. ASSUME NEW u \in Users, NEW q \in Runs, PromoteByHand(u, q)
        PROVE  DeliveryOf(r)'
    BY <1>3, <1>7 DEF PromoteByHand
  <1>8. ASSUME NEW u \in Users, Link(u)
        PROVE  DeliveryOf(r)'
    <2>1. UNCHANGED <<class, jobs, madeBy, handler, duplicates>>
      BY <1>8 DEF Link
    <2>2. Proposers(r)' = Proposers(r) /\ MadeFrom(r)' = MadeFrom(r)
      BY <2>1 DEF Proposers, MadeFrom
    <2>3. CASE promotion'[r] = promotion[r] /\ target'[r] = target[r]
      BY <1>1, <2>1, <2>2, <2>3, NothingMadeOf
    <2>4. CASE ~(promotion'[r] = promotion[r] /\ target'[r] = target[r])
      <3>1. promotion[r] = "none" /\ promotion'[r] = "proposed"
        BY <1>8, <2>4 DEF Link, TypeOK
      <3> QED
        BY <1>1, <2>1, <2>2, <3>1 DEF DeliveryOf
    <2> QED
      BY <2>3, <2>4
  <1>9. ASSUME NEW u \in Users, Supersede(u)
        PROVE  DeliveryOf(r)'
    BY <1>3, <1>9 DEF Supersede
  <1>10. CASE \/ \E q \in Runs : ConfirmExtraction(q)
              \/ \E u \in Users :
                   \/ \E s \in Snapshots : ReadSnapshot(u, s)
                   \/ List(u) \/ Conflict(u) \/ Approve(u) \/ Reject(u) \/ Resolve(u)
                   \/ RequestLost(u)
              \/ UNCHANGED vars
    BY <1>2, <1>10 DEF ConfirmExtraction, ReadSnapshot, List, Conflict, Approve, Reject, Resolve,
                       RequestLost, vars
  <1> QED
    BY <1>4, <1>5, <1>6, <1>7, <1>8, <1>9, <1>10, HandlersDelivery DEF Next, Request

\* However often jobs come back after crashes, and whoever promotes the same run by
\* hand, a worker makes one snapshot of it, and one more per repeated delivery.
THEOREM OneSnapshotPerDeliveryHolds == Spec => []OneSnapshotPerDelivery
  <1>1. TypeOK /\ DeliveryInv => OneSnapshotPerDelivery
    <2> SUFFICES ASSUME TypeOK, DeliveryInv, NEW r \in Runs
                 PROVE  /\ promotion[r] \in {"none", "requested", "failed"}
                             => MadeFrom(r) = {} /\ target[r] = 0
                        /\ Cardinality(MadeFrom(r)) <= 1 + duplicates
      BY DEF OneSnapshotPerDelivery
    <2> QED
      BY DeliveryCounts DEF DeliveryInv, DeliveryOf, Unmade
  <1> QED
    BY <1>1, InitType, NextType, InitDelivery, NextDelivery, PTL DEF Spec
=============================================================================
