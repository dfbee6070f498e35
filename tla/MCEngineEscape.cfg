SPECIFICATION EngineSpec
CONSTANTS
  Sentences = {1, 2}
  Custodies = {1, 2}
  Moments = 2
  EventLimit = 2
  Contents <- MCContents
  Playbooks <- MCPlaybooks
  Requests = {e1}
  MaxFacts = 3
  MaxRuns = 1
INVARIANTS
  EscapeBlocks
CHECK_DEADLOCK FALSE
