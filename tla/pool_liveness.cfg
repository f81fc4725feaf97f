SPECIFICATION FairSpec
CONSTANTS
  r1 = r1
  r2 = r2
  r3 = r3
  s1 = s1
  none = none
  Request <- MCRequest2
  Session <- MCSession
  NoSession = none
  SessionOf <- OneSession
  OpusRequest = {r2}
  OpusId = {2}
  MaxId = 2
  InitStatus <- OneBroken
  InitLimit <- SecondUnlimited
  InitPriority <- ByRank
  Limits = {1}
  Priorities = {0}
  MaxFailures = 1
  StickyMaxWaiting = 1
  MaxPolls = 1
  Events = {"ok", "auth", "quota", "refresh", "invalid", "cancel"}
  AdminOps = {"enable", "reset", "priority", "mode", "limit", "refresh"}
  MaxAdminOps = 2
INVARIANT EnabledBelowThreshold
PROPERTY RequestsEnd
PROPERTY RefinesSlots
PROPERTY HardLimit
CHECK_DEADLOCK FALSE
