SPECIFICATION FairSpec
CONSTANTS
  Requests = {r1}
  NoRequest = none
  MaxGen = 2
  MaxEvents = 1
INVARIANTS
  TypeOK
  NoSilentLoss
PROPERTIES
  RefinesChatRequests
  StrandedRequestEnds
CHECK_DEADLOCK FALSE
