SPECIFICATION Spec
CONSTANTS
  Requests = {1}
  Asked = {"email"}
  Price <- Prices
  Funds = 7
  Steps = 1
  Webhooks = {h1, h2}
INVARIANTS OneCreditBack
CHECK_DEADLOCK FALSE
