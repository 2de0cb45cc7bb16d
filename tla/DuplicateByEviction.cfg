SPECIFICATION SendSpec
CONSTANTS
  Logs = {l1}
  Length <- SequenceSteps
  Quota = 2
  Workers = {w1, w2}
  MaxStalled = 1
  MaxDefers = 1
  FaultKinds = {"evict"}
  MaxFaults = 1
INVARIANT NeverSentTwice
CHECK_DEADLOCK FALSE
