SPECIFICATION Spec
CONSTANTS
  Requests = {1, 2}
  Asked = {"email", "full_profile"}
  Price <- Prices
  Funds = 7
  Steps = 1
  Webhooks = {h1}
INVARIANTS OnlyEmailRefunded
CHECK_DEADLOCK FALSE
