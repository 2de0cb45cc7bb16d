SPECIFICATION LiveSpec
CONSTANTS
  Total = 3
  BandRows = 2
  Fresh = {}
  Dry = {3}
  Limits <- RunLimits
  Workers = {w1, w2}
  Relays = {r1}
  DriveRow = m
  MaxAttempts = 2
  MaxStalled = 1
  FaultKinds = {"relay", "crash", "throw", "contact", "stall"}
  MaxFaults = 1
INVARIANTS RunInv CapHolds RunReconciles
PROPERTY RunEnds
CHECK_DEADLOCK FALSE
