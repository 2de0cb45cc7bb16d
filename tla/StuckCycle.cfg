SPECIFICATION LiveSpec
CONSTANTS
  Claims = {c1}
  Purchases = {}
  Jobs = {}
  Cycles <- TwoCycles
  Sweeps = {s1}
  Approvals = {}
  SignupBonus = 0
  Cost = 1
  Pack = 1
  Ceiling = 1
  Allotment = 2
  Deltas <- StaffDeltas
  NoClaim = NoClaim
PROPERTIES OpenCycleIsGranted
CHECK_DEADLOCK FALSE
