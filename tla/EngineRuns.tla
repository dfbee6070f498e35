----------------------------- MODULE EngineRuns -----------------------------
(***************************************************************************)
(* Engine runs of one case (packages/engine/src/runtime, snapshots, and     *)
(* apps/api/src/routes/engine.ts): while people enter, confirm and replace  *)
(* snapshots and events, an evaluation reads the facts by queries of their  *)
(* own and commits a run with its opportunities and its dependencies in one *)
(* transaction; the consumers of engine-events.ts mark dependencies stale.  *)
(*                                                                         *)
(* Snapshots are numbered in the order of effective_at and moments of the   *)
(* timeline in the order of occurred_at; both may be entered in any order.  *)
(* Facts dated after the evaluation are left out, and so are the dependencies *)
(* on timeline events and playbooks: the events are read-only rows whose jobs *)
(* come before any run can read them, or change nothing a run has read.      *)
(***************************************************************************)
EXTENDS Evaluation, FiniteSets

CONSTANTS
  Sentences, Custodies,  \* snapshot rows, positive numbers by effective_at
  Moments,               \* number of moments of the timeline
  Contents,              \* what a sentence snapshot may hold
  Playbooks,             \* published playbooks
  Requests,              \* evaluation requests under way
  MaxFacts,              \* bound on the snapshots and events entered
  MaxRuns                \* bound on the runs committed or under way

ASSUME EngineAssumption ==
  /\ Sentences \subseteq Nat \ {0}
  /\ Custodies \subseteq Nat \ {0}
  /\ IsFiniteSet(Sentences) /\ IsFiniteSet(Custodies) /\ IsFiniteSet(Requests)
  /\ Playbooks \subseteq Seq(Rules)
  /\ Moments \in Nat \ {0}
  /\ MaxFacts \in Nat
  /\ MaxRuns \in Nat

VARIABLES
  playbook, process,  \* the playbook in force; whether the process is numbered
  sentence, content,  \* sentence_snapshots: status and figures
  custody,            \* custody_snapshots: what happened to the row
  timeline,           \* timeline_events
  changes,            \* jobs of the consumers that invalidate
  request,            \* where each evaluation is, and what it has read
  engineRuns          \* engine_runs, their opportunities and dependencies

caseRows == <<playbook, process, sentence, content, custody, timeline>>
engineVars == <<caseRows, changes, request, engineRuns>>

Statuses == {"none", "proposed", "confirmed", "superseded"}
Empty == [total |-> 0, served |-> 0, remission |-> 0, detraction |-> 0, crimes |-> <<>>]
Queries == {"sentence", "custody", "timeline"}
NoRequest == [at |-> "idle"]

EngineInit ==
  /\ playbook \in Playbooks
  /\ process \in BOOLEAN
  /\ sentence = [s \in Sentences |-> "none"]
  /\ content = [s \in Sentences |-> Empty]
  /\ custody = [c \in Custodies |-> "none"]
  /\ timeline = [i \in 1..Moments |-> "none"]
  /\ changes = {}
  /\ request = [e \in Requests |-> NoRequest]
  /\ engineRuns = <<>>

-----------------------------------------------------------------------------
Entered(rows) == Cardinality({x \in DOMAIN rows : rows[x] # "none"})
Room == Entered(sentence) + Entered(custody) + Entered(timeline) < MaxFacts

\* A sentence snapshot is proposed.
ProposeSentence(s, x) ==
  /\ Room /\ sentence[s] = "none"
  /\ sentence' = [sentence EXCEPT ![s] = "proposed"]
  /\ content' = [content EXCEPT ![s] = x]
  /\ UNCHANGED <<playbook, process, custody, timeline, changes, request, engineRuns>>

\* It is confirmed, and snapshot.confirmed names it.
ConfirmSentence(s) ==
  /\ sentence[s] = "proposed"
  /\ sentence' = [sentence EXCEPT ![s] = "confirmed"]
  /\ changes' = changes \cup {<<"sentence.confirmed", s>>}
  /\ UNCHANGED <<playbook, process, content, custody, timeline, request, engineRuns>>

\* Fault: the event names the replacement.
SupersededNamesNew(s, t) == t
SupersededNames(s, t) == s

\* It is replaced by a proposal; sentence.snapshot.superseded names the old one.
SupersedeSentence(s, t, x) ==
  /\ Room /\ sentence[s] = "confirmed" /\ sentence[t] = "none"
  /\ sentence' = [sentence EXCEPT ![s] = "superseded", ![t] = "proposed"]
  /\ content' = [content EXCEPT ![t] = x]
  /\ changes' = changes \cup {<<"sentence.superseded", SupersededNames(s, t)>>}
  /\ UNCHANGED <<playbook, process, custody, timeline, request, engineRuns>>

\* A custody snapshot is proposed; its confirmation emits custody.snapshot.created.
ProposeCustody(c) ==
  /\ Room /\ custody[c] = "none"
  /\ custody' = [custody EXCEPT ![c] = "proposed"]
  /\ UNCHANGED <<playbook, process, sentence, content, timeline, changes, request, engineRuns>>

ConfirmCustody(c) ==
  /\ custody[c] = "proposed"
  /\ custody' = [custody EXCEPT ![c] = "confirmed"]
  /\ changes' = changes \cup {<<"custody.created", c>>}
  /\ UNCHANGED <<playbook, process, sentence, content, timeline, request, engineRuns>>

\* No consumer of the engine hears that a custody snapshot is superseded.
SupersedeCustody(c, d) ==
  /\ Room /\ custody[c] = "confirmed" /\ custody[d] = "none"
  /\ custody' = [custody EXCEPT ![c] = "superseded", ![d] = "proposed"]
  /\ UNCHANGED <<playbook, process, sentence, content, timeline, changes, request, engineRuns>>

\* An event is appended, at the moment it happened; rows never change.
AppendEvent(i, k) ==
  /\ Room /\ timeline[i] = "none"
  /\ timeline' = [timeline EXCEPT ![i] = k]
  /\ UNCHANGED <<playbook, process, sentence, content, custody, changes, request, engineRuns>>

-----------------------------------------------------------------------------
UnderWay == {e \in Requests : request[e] # NoRequest}

\* An evaluation starts and fixes its instant: the sentences up to h are 180 days
\* old or more by then.  Nothing else reads the clock.
StartEvaluation(e, h) ==
  /\ request[e] = NoRequest
  /\ \A i \in DOMAIN engineRuns : engineRuns[i].read.asOf <= h
  /\ Len(engineRuns) + Cardinality(UnderWay) < MaxRuns
  /\ request' = [request EXCEPT ![e] =
       [at |-> "reading", asOf |-> h, done |-> {}, sentence |-> 0, custody |-> 0,
        timeline |-> [i \in 1..Moments |-> "none"], overtaken |-> FALSE]]
  /\ UNCHANGED <<caseRows, changes, engineRuns>>

\* The newest in effect of those that qualify, 0 if there is none.
Newest(ids) == IF ids = {} THEN 0 ELSE CHOOSE s \in ids : \A t \in ids : t <= s

LoadedSentences == {s \in Sentences : sentence[s] = "confirmed"}
\* The custody loader only asks whether somebody confirmed the row.
LoadedCustodies == {c \in Custodies : custody[c] \in {"confirmed", "superseded"}}

\* The queries run side by side, each in a snapshot of its own.
Pending(e, query) == request[e] # NoRequest /\ query \notin request[e].done

ReadSentence(e) ==
  /\ Pending(e, "sentence")
  /\ request' = [request EXCEPT ![e].done = @ \cup {"sentence"},
                                   ![e].sentence = Newest(LoadedSentences)]
  /\ UNCHANGED <<caseRows, changes, engineRuns>>

ReadCustody(e) ==
  /\ Pending(e, "custody")
  /\ request' = [request EXCEPT ![e].done = @ \cup {"custody"},
                                   ![e].custody = Newest(LoadedCustodies)]
  /\ UNCHANGED <<caseRows, changes, engineRuns>>

ReadTimeline(e) ==
  /\ Pending(e, "timeline")
  /\ request' = [request EXCEPT ![e].done = @ \cup {"timeline"}, ![e].timeline = timeline]
  /\ UNCHANGED <<caseRows, changes, engineRuns>>

\* The facts of the case as the evaluation has read them.
CaseFacts(r) ==
  [found |-> r.sentence # 0,
   sentence |-> IF r.sentence = 0 THEN Empty ELSE content[r.sentence],
   recent |-> r.sentence > r.asOf,
   custody |-> r.custody # 0,
   interruptions |-> Interruptions(r.timeline),
   process |-> process]

HasRead(e) == request[e] # NoRequest /\ request[e].done = Queries

\* Fault: a snapshot that was not found becomes a dependency too.
buildDependenciesNull(r) == {<<"sentence", r.sentence>>, <<"custody", r.custody>>}
buildDependencies(r) ==
  {<<"sentence", s>> : s \in {r.sentence} \ {0}} \cup {<<"custody", c>> : c \in {r.custody} \ {0}}

\* The run, its opportunities and its dependencies, all or nothing.
CommitRun(e) ==
  /\ HasRead(e)
  /\ LET r == request[e]
         f == CaseFacts(r)
         proposals == Proposals(playbook, f) IN
     /\ \A p \in proposals : p.type \in opportunityTypeEnum
     /\ engineRuns' = Append(engineRuns,
          [read |-> r, codes |-> BlockingCodes(f), proposals |-> proposals,
           dependencies |-> buildDependencies(r), stale |-> {}])
  /\ request' = [request EXCEPT ![e] = NoRequest]
  /\ UNCHANGED <<caseRows, changes>>

\* The request fails, before or in its transaction; failEngineRun then updates a
\* run that was never inserted, so nothing remains of it.
FailRun(e) ==
  /\ request[e] # NoRequest
  /\ request' = [request EXCEPT ![e] = NoRequest]
  /\ UNCHANGED <<caseRows, changes, engineRuns>>

-----------------------------------------------------------------------------
\* The dependency that a job marks stale.
Concerns(change) ==
  <<IF change[1] = "custody.created" THEN "custody" ELSE "sentence", change[2]>>

\* A run of which a dependency, if it has it, is marked.
Marked(run, dependency) ==
  [run EXCEPT !.stale = @ \cup (run.dependencies \cap {dependency})]

\* A job marks the dependencies committed so far on the id it names; it may be
\* delivered again.  An evaluation under way that has read a sentence is overtaken when
\* the job of that sentence's replacement is handled before its commit.
Invalidate(change) ==
  /\ change \in changes
  /\ engineRuns' = [i \in DOMAIN engineRuns |-> Marked(engineRuns[i], Concerns(change))]
  /\ request' = [e \in Requests |->
                   IF /\ request[e] # NoRequest
                      /\ change = <<"sentence.superseded", request[e].sentence>>
                   THEN [request[e] EXCEPT !.overtaken = TRUE] ELSE request[e]]
  /\ changes' \in {changes, changes \ {change}}
  /\ UNCHANGED caseRows

-----------------------------------------------------------------------------
AnswerRequest(e) ==
  \/ \E h \in Sentences \cup {0} : StartEvaluation(e, h)
  \/ ReadSentence(e) \/ ReadCustody(e) \/ ReadTimeline(e)
  \/ CommitRun(e) \/ FailRun(e)

EngineNext ==
  \/ \E s \in Sentences : ConfirmSentence(s) \/ \E x \in Contents : ProposeSentence(s, x)
  \/ \E s, t \in Sentences, x \in Contents : SupersedeSentence(s, t, x)
  \/ \E c \in Custodies : ProposeCustody(c) \/ ConfirmCustody(c)
  \/ \E c, d \in Custodies : SupersedeCustody(c, d)
  \/ \E i \in 1..Moments, k \in EventKinds \ {"none"} : AppendEvent(i, k)
  \/ \E e \in Requests : AnswerRequest(e)
  \/ \E change \in changes : Invalidate(change)

EngineSpec == EngineInit /\ [][EngineNext]_engineVars

-----------------------------------------------------------------------------
\* Every variable has its type.
Readings ==
  [at : {"reading"}, asOf : Sentences \cup {0}, done : SUBSET Queries,
   sentence : Sentences \cup {0}, custody : Custodies \cup {0},
   timeline : [1..Moments -> EventKinds], overtaken : BOOLEAN]

Dependencies == ({"sentence"} \X Sentences) \cup ({"custody"} \X Custodies)
RunRecords ==
  [read : Readings, codes : Seq(Codes), proposals : SUBSET [rule : Nat, type : opportunityTypeEnum],
   dependencies : SUBSET Dependencies, stale : SUBSET Dependencies]

EngineTypeOK ==
  /\ playbook \in Playbooks /\ process \in BOOLEAN
  /\ sentence \in [Sentences -> Statuses]
  /\ content \in [Sentences -> Contents \cup {Empty}]
  /\ custody \in [Custodies -> Statuses]
  /\ timeline \in [1..Moments -> EventKinds]
  /\ changes \subseteq {"sentence.confirmed", "sentence.superseded", "custody.created"} \X Nat
  /\ request \in [Requests -> {NoRequest} \cup Readings]
  /\ engineRuns \in Seq(RunRecords)
  /\ \A i \in DOMAIN engineRuns : engineRuns[i].stale \subseteq engineRuns[i].dependencies
  /\ Len(engineRuns) + Cardinality(UnderWay) <= MaxRuns

TypesOf(run) == {p.type : p \in run.proposals}
\* Neither recapture nor sanction followed the escape, and fewer events of any kind
\* than the loader reads.
EndsInEscape(t) ==
  \E i \in At(t, "escape") :
    /\ Before(t, i, "recapture") /\ Before(t, i, "sanction")
    /\ Cardinality(Later(t, i)) < EventLimit

\* A run without a sentence less than 180 days old, or whose rows end in an escape
\* (EndsInEscape), suggests nothing whatever, although the remission and detraction
\* evaluators never look at a block; one of a case without a process number
\* suggests neither progression nor parole, and one that read a sanction among the
\* rows no progression.  This rests on the order in which evaluateGlobalBlocking pushes its
\* codes, as evaluateOpportunities takes the severity of the first for all of them.
NothingWhileBlocked ==
  \A i \in DOMAIN engineRuns :
    LET r == engineRuns[i].read IN
    /\ r.sentence <= r.asOf => engineRuns[i].proposals = {}
    /\ EndsInEscape(r.timeline) => engineRuns[i].proposals = {}
    /\ ~process => TypesOf(engineRuns[i]) \cap HighRisk = {}
    /\ At(LoadedEvents(r.timeline), "sanction") # {} => "progression" \notin TypesOf(engineRuns[i])

\* A run whose sentence has been superseded is marked stale, or the job that marks it
\* is still to be handled, unless the run was being evaluated when that job was
\* handled: invalidateDependencies finds only dependencies already committed, so
\* such a run stands unmarked for good, and there is no other way to miss one.
MarkedOrRaced ==
  \A i \in DOMAIN engineRuns : \A s \in Sentences :
    LET run == engineRuns[i] IN
    <<"sentence", s>> \in run.dependencies \ run.stale /\ sentence[s] = "superseded"
      => <<"sentence.superseded", s>> \in changes \/ run.read.overtaken

\* An escape that no recapture ended by the time of the evaluation blocks it, as the
\* comment of loadActiveInterruptions has it ("started before asOf and have not
\* ended by asOf"): the code stops its walk at the newest sanction.
EscapeBlocks ==
  \A i \in DOMAIN engineRuns :
    LET t == engineRuns[i].read.timeline IN
    (\E j \in At(t, "escape") : Before(t, j, "recapture"))
      => "BLK_ESCAPE" \in ToSet(engineRuns[i].codes)
=============================================================================
