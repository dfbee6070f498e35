SPECIFICATION FairSpec
CONSTANTS
  Opportunities = {o1}
  Users = {u1, u2}
  Handlers = {h1, h2}
  MaxReviews = 3
  MaxFaults = 1
INVARIANTS
  TypeOK
  HumanGate
  TasksAccounted
PROPERTIES
  CreatedServed
CHECK_DEADLOCK FALSE
