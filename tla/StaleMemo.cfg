SPECIFICATION Spec
CONSTANTS
  p1 = p1
  p2 = p2
  r1 = r1
  r2 = r2
  r3 = r3
  Apis = {p1, p2}
  Requests = {r1, r2, r3}
  Home <- Homes
  MaxWrites = 1
  MaxGlobal = 1
  FaultKinds = {}
  MaxFaults = 0
INVARIANT LandsOnNextRequest
CHECK_DEADLOCK FALSE
