SPECIFICATION Spec
CONSTANTS
  Requests = {r1}
  NoRequest = none
  MaxGen = 2
  MaxEvents = 1
INVARIANT AbortStopsQuery
CHECK_DEADLOCK FALSE
