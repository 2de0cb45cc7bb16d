SPECIFICATION Spec
CONSTANTS
  Total = 3
  BandRows = 1
  CheckEvery = 1
  Billable = {0, 1, 2}
  Late = {}
  UnitCost = 1
  Funds = 4
  Workers = {w1, w2}
  Shared = {}
  Buttons = {"cancel"}
  MaxResumes = 0
  Faults = {"worker", "chunk", "api"}
  MaxFaults = 1
SYMMETRY Symmetric
INVARIANTS UnpaidIsBounded LedgerReconciles
PROPERTY ImplementsLeaseContract
CHECK_DEADLOCK FALSE
