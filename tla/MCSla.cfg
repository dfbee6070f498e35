SPECIFICATION FairSpec
CONSTANTS
  Rows = {r1}
  Tasks = {t1}
  Users = {u1, u2}
  Sweeps = {s1, s2}
  None = None
  BatchSize = 1
  Grace = 0
  ToLevel2 = 2
  ToLevel3 = 3
  MaxPresent = 1
  MaxTime = 4
  MaxFaults = 1
INVARIANTS TypeOK EscalationsRecorded
PROPERTIES NothingTakenBack BreachEscalated
CHECK_DEADLOCK FALSE
