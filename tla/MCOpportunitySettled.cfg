SPECIFICATION FairSpec
CONSTANTS
  Opportunities = {o1}
  Users = {u1}
  Handlers = {h1}
  MaxReviews = 3
  MaxFaults = 0
PROPERTIES
  SettledLeaves
CHECK_DEADLOCK FALSE
