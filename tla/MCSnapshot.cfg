SPECIFICATION Spec
CONSTANTS
  Runs = {r1}
  Snapshots = {1, 2, 3}
  Handlers = {h1, h2}
  Users = {u1, u2}
  MaxExtra = 2
SYMMETRY Symmetric
INVARIANTS
  TypeOK
  SentenceDecidedOnce
  ConfirmedOnce
  OneSnapshotPerDelivery
  ProposedListed
CHECK_DEADLOCK FALSE
