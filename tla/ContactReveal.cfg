SPECIFICATION LiveSpec
CONSTANTS
  Requests = {1, 2}
  Asked = {"email", "full_profile"}
  Price <- Prices
  Funds = 7
  Steps = 2
  Webhooks = {h1, h2}
INVARIANTS FieldPaidOnce DeliveredIsAccounted NetWithinCharges DriftPerRace
PROPERTY RevealEnds
CHECK_DEADLOCK FALSE
