SPECIFICATION Spec
CONSTANTS
  Documents = {d1}
  Eligible = {d1}
  Handlers = {h1, h2}
  MaxAttempts = 2
  MaxCrashes = 0
  MaxDuplicates = 1
PROPERTIES
  CompletedStays
CHECK_DEADLOCK FALSE
