SPECIFICATION LiveSpec
CONSTANTS
  Total = 3
  BandRows = 2
  CheckEvery = 1
  Billable = {0, 2}
  Late = {1}
  UnitCost = 1
  Funds = 4
  Workers = {w1}
  Shared = {2}
  Buttons = {"pause"}
  MaxResumes = 1
  Faults = {"worker"}
  MaxFaults = 1
INVARIANTS LeaseCoversWork CompletedMeansDrained StopsPromptly
PROPERTY RunningJobEnds
CHECK_DEADLOCK FALSE
