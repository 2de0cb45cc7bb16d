SPECIFICATION SendSpec
CONSTANTS
  Logs = {l1}
  Length <- SequenceSteps
  Quota = 1
  Workers = {w1, w2}
  MaxStalled = 1
  MaxDefers = 1
  FaultKinds = {}
  MaxFaults = 0
PROPERTY ReplySticks
CHECK_DEADLOCK FALSE
