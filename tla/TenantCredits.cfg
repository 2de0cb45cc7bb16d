SPECIFICATION LiveSpec
CONSTANTS
  Claims = {c1, c2}
  Purchases = {p1}
  Jobs = {j1}
  Cycles <- TwoCycles
  Sweeps = {s1, s2}
  Approvals = {a1}
  SignupBonus = 1
  Cost = 2
  Pack = 2
  Ceiling = 3
  Allotment = 2
  Deltas <- StaffDeltas
  NoClaim = NoClaim
INVARIANT LedgerInv
PROPERTIES ImplementsLedgerBook ResetKeepsPurchased SubscriptionFirst CycleGrantedUnlessStuck
CHECK_DEADLOCK FALSE
