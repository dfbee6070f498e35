SPECIFICATION FairSpec
CONSTANTS
  Documents = {d1, d2}
  Eligible = {d1}
  Handlers = {h1, h2, h3}
  MaxAttempts = 2
  MaxCrashes = 1
  MaxDuplicates = 2
INVARIANTS
  TypeOK
  Mirrored
  NoOrphanRun
PROPERTIES
  RunSettles
CHECK_DEADLOCK FALSE
