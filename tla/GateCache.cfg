SPECIFICATION LiveSpec
CONSTANTS
  p1 = p1
  p2 = p2
  r1 = r1
  r2 = r2
  r3 = r3
  Apis = {p1, p2}
  Requests = {r1, r2, r3}
  Home <- Homes
  MaxWrites = 1
  MaxGlobal = 1
  FaultKinds = {"redis", "load", "crash"}
  MaxFaults = 1
INVARIANT CacheInv
PROPERTIES FreshAfterInvalidation StalenessEnds
CHECK_DEADLOCK FALSE
