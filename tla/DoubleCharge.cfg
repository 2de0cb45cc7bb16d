SPECIFICATION Spec
CONSTANTS
  Attempts = {a1, a2}
  Cost = 1
  Funds = 2
  Faults = {"crash_after"}
  MaxFaults = 1
  Nobody = Nobody
INVARIANTS ChargedOnce
CHECK_DEADLOCK FALSE
