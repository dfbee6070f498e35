SPECIFICATION FairSpec
CONSTANTS
  c1 = c1
  c2 = c2
  f1 = f1
  Facts = {f1}
  Cases = {c1, c2}
  Home <- HomeOfFacts
  Handlers = {h1, h2}
  Evaluators = {e1, e2}
  MaxFaults = 2
INVARIANTS
  TypeOK
  StaleIsScheduled
  OneAbandonedPerCrash
PROPERTIES
  ChangeIsRecalculated
CHECK_DEADLOCK FALSE
