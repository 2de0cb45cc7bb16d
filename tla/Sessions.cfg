SPECIFICATION LiveSessions
CONSTANTS
  d1 = d1
  d2 = d2
  t1 = t1
  t2 = t2
  Devices = {d1, d2}
  Tabs = {t1, t2}
  DeviceOf <- TabDevices
  AppOf <- TabApps
  SignedIn = {}
  Cap = 1
  MaxSessions = 5
  MaxLogins = 2
  MaxDues = 2
  MishapKinds = {"lost", "slow", "infra", "close", "password", "cap"}
  MaxMishaps = 1
  NoTab = NoTab
INVARIANTS SessionsInv SessionCapHolds
PROPERTY TabsAreServed
CHECK_DEADLOCK FALSE
