SPECIFICATION SessionsSpec
CONSTANTS
  d1 = d1
  d2 = d2
  t1 = t1
  t2 = t2
  Devices = {d1, d2}
  Tabs = {t1, t2}
  DeviceOf <- TabDevices
  AppOf <- TabApps
  SignedIn = {d1}
  Cap = 1
  MaxSessions = 5
  MaxLogins = 1
  MaxDues = 2
  MishapKinds = {}
  MaxMishaps = 0
  NoTab = NoTab
INVARIANT ValidClientsNeverReplay
CHECK_DEADLOCK FALSE
