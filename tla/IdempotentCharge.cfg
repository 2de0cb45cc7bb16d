SPECIFICATION LiveSpec
CONSTANTS
  Attempts = {a1, a2, a3}
  Cost = 1
  Funds = 2
  Faults = {"crash_before", "crash_after", "handler", "finalize", "slow"}
  MaxFaults = 2
  Nobody = Nobody
INVARIANTS ClaimInv ChargedOnceUnlessCutOff AnswersWereCharged
PROPERTIES FirstResponseStands KeyNeverBricked
CHECK_DEADLOCK FALSE
