SPECIFICATION FairSpec
CONSTANTS
  t1 = t1
  t2 = t2
  t3 = t3
  c1 = c1
  NoTask = NoTask
  Torn = Torn
  Task <- MCTask3
  KindsOf <- Kinds
  Cred <- OneCred
  Expiry <- SoonExpired
  Lifetimes = {1, 4}
  Proxies = 2
  MaxClock = 1
  MaxCrashes = 1
INVARIANT TypeOK
INVARIANT RefreshIsDue
INVARIANT TokensCurrent
INVARIANT FileMatchesMemory
PROPERTY DeletedStaysDeleted
PROPERTY TasksEnd
CHECK_DEADLOCK FALSE
