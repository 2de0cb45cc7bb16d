SPECIFICATION Spec
CONSTANTS
  MaxBands = 2
  FileSizes = {2}
  Rejected = {}
  Original <- LastRepeatsFirst
  Existing = {1}
  Window = 0
  Workers = {w1}
  DriveAttempts = 2
  MaxStalled = 1
  FaultKinds = {"crash"}
  MaxFaults = 1
INVARIANT BucketsAddUp
CHECK_DEADLOCK FALSE
