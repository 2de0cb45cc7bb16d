SPECIFICATION Spec
CONSTANTS
  Requests = {1, 2}
  Asked = {"full_profile"}
  Price <- Prices
  Funds = 7
  Steps = 0
  Webhooks = {}
INVARIANTS DeliveredIsUncovered
CHECK_DEADLOCK FALSE
