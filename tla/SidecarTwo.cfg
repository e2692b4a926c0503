SPECIFICATION FairSpec
CONSTANTS
  Requests = {r1, r2}
  NoRequest = none
  MaxGen = 1
  MaxEvents = 0
INVARIANTS
  NoSilentLoss
PROPERTIES
  StrandedRequestEnds
CHECK_DEADLOCK FALSE
