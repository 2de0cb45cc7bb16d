SPECIFICATION Spec
CONSTANTS
  Total = 2
  BandRows = 1
  Fresh = {}
  Dry = {}
  Limits <- RunLimits
  Workers = {w1, w2}
  Relays = {r1}
  DriveRow = m
  MaxAttempts = 1
  MaxStalled = 1
  FaultKinds = {}
  MaxFaults = 0
PROPERTY BrakeSticks
CHECK_DEADLOCK FALSE
