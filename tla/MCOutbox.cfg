SPECIFICATION FairSpec
CONSTANTS
  Events = {1, 2, 3}
  Consumed = {1, 3}
  Relays = {r1, r2}
  MaxRetries = 2
  BatchSize = 2
  MaxCrashes = 1
INVARIANTS
  TypeOK
  RetryBudget
  DuplicatesAccounted
PROPERTIES
  ImplementsLog
  NothingForgotten
CHECK_DEADLOCK FALSE
