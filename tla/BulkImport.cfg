SPECIFICATION LiveSpec
CONSTANTS
  MaxBands = 2
  FileSizes = {0, 2}
  Rejected = {}
  Original <- LastRepeatsFirst
  Existing = {}
  Window = 1
  Workers = {w1, w2}
  DriveAttempts = 2
  MaxStalled = 1
  FaultKinds = {"api", "crash", "throw", "stall"}
  MaxFaults = 2
INVARIANTS ImportInv FinishedJobReconciles WindowHolds
PROPERTY ImportEnds
CHECK_DEADLOCK FALSE
