----------------------------- MODULE Evaluation -----------------------------
(***************************************************************************)
(* What the legal engine concludes from the facts of one case               *)
(* (packages/engine/src/evaluation, rules, snapshots/loader.ts): active     *)
(* interruptions, global blocking codes, the evaluators of the two playbooks *)
(* of the repository, and the proposals that survive the blocks.            *)
(*                                                                         *)
(* Days are numbers; a fraction is a number of hundredths (progression) or  *)
(* of sixths (parole), so that the rounding of the code's floating point is *)
(* left out.  So are explanations, missing data and levels of confidence    *)
(* and uncertainty, which no proposal depends on.                            *)
(***************************************************************************)
EXTENDS Integers, Sequences, SequencesExt

CONSTANT EventLimit  \* events of a case that the loader reads (50)

ASSUME EventAssumption == EventLimit \in Nat \ {0}

\* The timeline: at each moment of legal time nothing, or one kind of event.
EventKinds == {"none", "escape", "recapture", "sanction", "other"}
At(timeline, kind) == {i \in DOMAIN timeline : timeline[i] = kind}
Before(timeline, i, kind) == \A j \in At(timeline, kind) : j < i

\* The rows that are read: of all kinds of events, the newest ones.
Later(timeline, i) == {j \in DOMAIN timeline : j > i /\ timeline[j] # "none"}
LoadedEvents(timeline) ==
  [i \in DOMAIN timeline |->
     IF Cardinality(Later(timeline, i)) < EventLimit THEN timeline[i] ELSE "none"]

\* The rows are walked from the newest and the walk ends at a sanction: what is
\* seen of the escapes that no recapture ended.
SeenEscapes(rows) ==
  {i \in At(rows, "escape") :
     Before(rows, i, "recapture") /\ Before(rows, i, "sanction")}

Interruptions(timeline) ==
  LET rows == LoadedEvents(timeline) IN
  {t \in {"all_liberty", "progression"} :
     \/ t = "all_liberty" /\ SeenEscapes(rows) # {}
     \/ t = "progression" /\ At(rows, "sanction") # {}}

-----------------------------------------------------------------------------
\* The facts of a case: the sentence the loader found, or nothing, whether it is
\* less than 180 days old, whether a custody snapshot was found, the
\* interruptions, and whether the process number is known.

Active(code, f) ==
  \/ code = "BLK_ESCAPE" /\ "all_liberty" \in f.interruptions
  \/ code = "BLK_SNAPSHOT_UNCONFIRMED" /\ ~f.recent
  \/ code = "BLK_PROCESS_PENDING" /\ ~f.process

\* Fault: another order.
CodeOrderProcessFirst == <<"BLK_PROCESS_PENDING", "BLK_ESCAPE", "BLK_SNAPSHOT_UNCONFIRMED">>
CodeOrder == <<"BLK_ESCAPE", "BLK_SNAPSHOT_UNCONFIRMED", "BLK_PROCESS_PENDING">>
Codes == {"BLK_ESCAPE", "BLK_SNAPSHOT_UNCONFIRMED", "BLK_PROCESS_PENDING"}
\* They are looked at one after the other, and the active ones are pushed.
Pushed(i, f) == IF Active(CodeOrder[i], f) THEN <<CodeOrder[i]>> ELSE <<>>
BlockingCodes(f) == Pushed(1, f) \o Pushed(2, f) \o Pushed(3, f)

FullCodes == {"BLK_ESCAPE", "BLK_SNAPSHOT_UNCONFIRMED"}
HighRisk == {"progression", "livramento", "excess_execution", "hc"}

\* Of several codes the severity of the first one decides.
Suppressed(type, codes) ==
  /\ codes # <<>>
  /\ \/ Head(codes) \in FullCodes
     \/ type \in HighRisk /\ "BLK_PROCESS_PENDING" \in ToSet(codes)

-----------------------------------------------------------------------------
Credited(s) == s.served + s.remission + s.detraction

\* Hundredths of its sentence that a crime asks before progression, and sixths
\* before parole.
ProgressionShare(c) ==
  CASE c.armed -> IF c.specific /\ c.death THEN 70 ELSE 60
    [] ~c.armed /\ c.heinous /\ c.specific -> IF c.death THEN 50 ELSE 40
    [] ~c.armed /\ c.heinous /\ ~c.specific -> IF c.death THEN 30 ELSE 25
    [] ~c.armed /\ ~c.heinous -> IF c.recidivist \/ c.specific THEN 20 ELSE 16
ParoleShare(c) ==
  CASE c.heinous -> 4
    [] ~c.heinous -> IF c.recidivist \/ c.specific THEN 3 ELSE 2
ParoleForbidden(c) == c.heinous /\ c.specific

\* Crime by crime where the crimes are known, else the rule's share of all.
Share(benefit, c) == IF benefit = "progression" THEN ProgressionShare(c) ELSE ParoleShare(c)
Needed(s, benefit, share) ==
  IF s.crimes = <<>> THEN s.total * share
  ELSE FoldSeq(LAMBDA c, sum : sum + c.days * Share(benefit, c), 0, s.crimes)

Stops(codes) == ToSet(codes) \cap FullCodes # {}

progressionFraction(rule, f, codes) ==
  /\ ~Stops(codes) /\ f.custody /\ f.interruptions = {}
  /\ f.sentence.total > 0
  /\ 100 * Credited(f.sentence) >= rule.share * f.sentence.total

lepProgressionFraction(rule, f, codes) ==
  /\ ~Stops(codes) /\ f.custody /\ f.interruptions = {}
  /\ f.sentence.total > 0
  /\ 100 * Credited(f.sentence) >= Needed(f.sentence, "progression", rule.share)

\* Sanctions and custody do not matter to parole; two years are the least.
lepParoleFraction(rule, f, codes) ==
  /\ ~Stops(codes)
  /\ f.sentence.total >= 730
  /\ \A i \in DOMAIN f.sentence.crimes : ~ParoleForbidden(f.sentence.crimes[i])
  /\ 6 * Credited(f.sentence) >= Needed(f.sentence, "parole", rule.share)

\* Neither of the next two looks at a block of its own accord.
lepRemission(f) == f.found /\ f.sentence.total > 0 /\ f.sentence.remission > 0
lepDetraction(f) == f.found /\ f.sentence.total > 0 /\ f.sentence.detraction >= 1

Proposes(rule, f, codes) ==
  \/ rule.evaluator = "progressionFraction" /\ progressionFraction(rule, f, codes)
  \/ rule.evaluator = "lepProgressionFraction" /\ lepProgressionFraction(rule, f, codes)
  \/ rule.evaluator = "lepParoleFraction" /\ lepParoleFraction(rule, f, codes)
  \/ rule.evaluator = "lepRemission" /\ lepRemission(f)
  \/ rule.evaluator = "lepDetraction" /\ lepDetraction(f)

TypeOf(rule) ==
  CASE rule.evaluator \in {"progressionFraction", "lepProgressionFraction"} -> "progression"
    [] rule.evaluator = "lepParoleFraction" -> "livramento"
    [] rule.evaluator = "lepRemission" -> "remission_impact"
    [] rule.evaluator = "lepDetraction" -> "detraction"

\* What the run proposes, a rule at most once.
Proposals(playbook, f) ==
  LET codes == BlockingCodes(f)
      kept == {i \in DOMAIN playbook :
                 Proposes(playbook[i], f, codes) /\ ~Suppressed(TypeOf(playbook[i]), codes)}
  IN  {[rule |-> i, type |-> TypeOf(playbook[i])] : i \in kept}

-----------------------------------------------------------------------------
\* The playbook the seed installs, and the one written out for the LEP of 2019;
\* the two rules of each that only warn are left out.
Rules ==
  [evaluator : {"progressionFraction", "lepProgressionFraction", "lepParoleFraction",
                "lepRemission", "lepDetraction"},
   share : Nat]
Rule(evaluator, share) == [evaluator |-> evaluator, share |-> share]
SeedPlaybook ==
  <<Rule("progressionFraction", 16), Rule("progressionFraction", 25),
    Rule("progressionFraction", 40)>>
LepPlaybook ==
  <<Rule("lepProgressionFraction", 16), Rule("lepProgressionFraction", 20),
    Rule("lepProgressionFraction", 25), Rule("lepProgressionFraction", 30),
    Rule("lepParoleFraction", 2), Rule("lepParoleFraction", 3), Rule("lepParoleFraction", 4),
    Rule("lepRemission", 0), Rule("lepDetraction", 0)>>

\* The types the opportunities table accepts.
opportunityTypeEnum ==
  {"progression", "remission", "detraction", "amnesty", "commutation", "hc", "pad_challenge",
   "prescription", "recalculation", "excess_execution", "rights_violation", "parole", "indult",
   "manual"}
=============================================================================
