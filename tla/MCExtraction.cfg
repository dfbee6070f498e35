SPECIFICATION FairSpec
CONSTANTS
  Documents = {d1}
  Handlers = {h1, h2}
  Users = {u1, u2}
  MaxAttempts = 2
  MaxFaults = 1
INVARIANTS
  TypeOK
  NoOrphanRun
  ReviewListed
  ApprovedOnce
PROPERTIES
  RunSettles
CHECK_DEADLOCK FALSE
