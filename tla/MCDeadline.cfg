SPECIFICATION MCFairSpec
CONSTANTS
  Deadlines = {d1, d2, d3}
  Rules = {d1}
  AttendedDeadline = d1
  AttendedSweep = s1
  Requests = {r1, r2}
  Sweeps = {s1, s2}
  BatchSize = 2
  MaxFaults = 1
INVARIANTS
  TypeOK
  HistoryTrail
  LegalTrail
  OverdueFirst
PROPERTIES
  OverdueListed
  OverdueNoticed
CHECK_DEADLOCK FALSE
