SPECIFICATION LiveSends
CONSTANTS
  Logs = {l1}
  Length <- SequenceSteps
  Quota = 1
  Workers = {w1, w2}
  MaxStalled = 1
  MaxDefers = 1
  FaultKinds = {"redis", "send", "refund", "late", "commit", "crash", "deadline", "stall", "evict", "inline"}
  MaxFaults = 1
INVARIANTS QuotaAccounts MailedOncePerDisturbance
PROPERTIES ScheduleKept EnrollmentsEnd
CHECK_DEADLOCK FALSE
