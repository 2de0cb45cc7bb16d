SPECIFICATION Spec
CONSTANTS
  Total = 3
  BandRows = 2
  CheckEvery = 1
  Billable = {0, 1, 2}
  Late = {}
  UnitCost = 1
  Funds = 4
  Workers = {w1}
  Shared = {}
  Buttons = {"cancel"}
  MaxResumes = 1
  Faults = {}
  MaxFaults = 0
INVARIANTS NoFreeReveal
CHECK_DEADLOCK FALSE
