------------------------------ MODULE MCEngine ------------------------------
(* Small instances of EngineRuns: both playbooks, sentences of every kind the  *)
(* rules tell apart.                                                           *)
EXTENDS EngineRuns

Figures(total, served, remission, detraction, crimes) ==
  [total |-> total, served |-> served, remission |-> remission, detraction |-> detraction,
   crimes |-> crimes]
Crime(days, heinous, specific) ==
  [days |-> days, heinous |-> heinous, specific |-> specific, recidivist |-> specific,
   death |-> FALSE, armed |-> FALSE]

MCPlaybooks == {SeedPlaybook, LepPlaybook}
MCContents ==
  {Figures(600, 200, 0, 10, <<>>),
   Figures(1000, 100, 5, 20, <<Crime(600, TRUE, TRUE), Crime(400, FALSE, FALSE)>>)}
=============================================================================
