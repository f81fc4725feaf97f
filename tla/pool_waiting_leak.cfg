SPECIFICATION Spec
CONSTANTS
  r1 = r1
  r2 = r2
  r3 = r3
  s1 = s1
  none = none
  Request <- MCRequest2
  Session <- MCSession
  NoSession = none
  SessionOf <- OneSession
  OpusRequest = {}
  OpusId = {}
  MaxId = 2
  InitStatus <- AllEnabled
  InitLimit <- LimitOne
  InitPriority <- ByRank
  Limits = {2}
  Priorities = {1}
  MaxFailures = 1
  StickyMaxWaiting = 1
  MaxPolls = 1
  Events = {"ok", "cancel"}
  AdminOps = {"limit"}
  MaxAdminOps = 0
INVARIANT WaitingIsExact
CHECK_DEADLOCK FALSE
