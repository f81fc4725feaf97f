SPECIFICATION FairSpec
CONSTANTS
  t1 = t1
  t2 = t2
  t3 = t3
  c1 = c1
  NoTask = NoTask
  Torn = Torn
  Task <- MCTask2
  KindsOf <- RefreshAndEdit
  Cred <- OneCred
  Expiry <- SoonExpired
  Lifetimes = {4}
  Proxies = 1
  MaxClock = 1
  MaxCrashes = 0
PROPERTY SettingsKept
CHECK_DEADLOCK FALSE
