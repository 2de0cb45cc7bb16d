SPECIFICATION Spec
CONSTANTS
  Total = 3
  BandRows = 2
  CheckEvery = 1
  Billable = {0, 1, 2}
  Late = {}
  UnitCost = 1
  Funds = 4
  Workers = {w1}
  Shared = {2}
  Buttons = {"confirm_early"}
  MaxResumes = 1
  Faults = {}
  MaxFaults = 0
INVARIANTS CompletedMeansDrained
CHECK_DEADLOCK FALSE
