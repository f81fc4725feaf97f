SPECIFICATION Spec
CONSTANTS
  Requests = {r1, r2, r3}
  Credentials = {c1, c2}
  Short = 2
  Long = 3
  MaxTtl = 3
  LookBack = 2
  Divisor = 10
  MaxInt = 127
  MaxEvents = 2
  MaxChanges = 2
  MaxTime = 3
  Jitters = {1, 60}
  TokensOf <- MCTokensOf
  Billing <- MCBilling
  MinTokens <- MCMinTokens
  Bodies <- MCBodies
  UsageEvents <- MCUsageEvents
  Configs <- MCConfigs
  Started <- MCStarted
INVARIANTS TypeOK UsageAddsUp SplitAddsUp
PROPERTY CacheRemembers
SYMMETRY MCSymmetry
CHECK_DEADLOCK FALSE
