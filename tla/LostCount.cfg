SPECIFICATION Spec
CONSTANTS
  MaxBands = 2
  FileSizes = {0, 2}
  Rejected = {}
  Original <- NoneRepeats
  Existing = {2}
  Window = 1
  Workers = {w1, w2}
  DriveAttempts = 2
  MaxStalled = 1
  FaultKinds = {"crash"}
  MaxFaults = 1
INVARIANT ChunksCountedOnce
CHECK_DEADLOCK FALSE
