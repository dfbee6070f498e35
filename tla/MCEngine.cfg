SPECIFICATION EngineSpec
CONSTANTS
  Sentences = {1, 2}
  Custodies = {1, 2}
  Moments = 2
  EventLimit = 1
  Contents <- MCContents
  Playbooks <- MCPlaybooks
  Requests = {e1}
  MaxFacts = 3
  MaxRuns = 1
INVARIANTS
  EngineTypeOK
  NothingWhileBlocked
  MarkedOrRaced
CHECK_DEADLOCK FALSE
