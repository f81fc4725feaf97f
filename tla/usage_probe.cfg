SPECIFICATION Spec
CONSTANTS
  Requests = {r1}
  Credentials = {c1}
  Short = 2
  Long = 3
  MaxTtl = 3
  LookBack = 2
  Divisor = 10
  MaxInt = 127
  MaxEvents = 2
  MaxChanges = 0
  MaxTime = 3
  Jitters = {1, 60}
  TokensOf <- MCTokensOf
  Billing <- MCBilling
  MinTokens <- MCMinTokens
  Bodies <- MCBodies
  UsageEvents <- MCUsageEvents
  Configs <- MCProbe
  Started <- MCProbe
INVARIANT ProbeByEstimate
SYMMETRY MCSymmetry
CHECK_DEADLOCK FALSE
