SPECIFICATION Spec
CONSTANTS
  Total = 3
  BandRows = 2
  CheckEvery = 1
  Billable = {0, 1}
  Late = {2}
  UnitCost = 1
  Funds = 4
  Workers = {w1}
  Shared = {}
  Buttons = {}
  MaxResumes = 1
  Faults = {}
  MaxFaults = 0
INVARIANT EstimateIsWorstCase
CHECK_DEADLOCK FALSE
