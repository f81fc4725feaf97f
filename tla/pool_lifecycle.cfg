SPECIFICATION Spec
CONSTANTS
  r1 = r1
  r2 = r2
  r3 = r3
  s1 = s1
  none = none
  Request <- MCRequest3
  Session <- MCSession
  NoSession = none
  SessionOf <- Anonymous
  OpusRequest = {}
  OpusId = {}
  MaxId = 1
  InitStatus <- FirstOnly
  InitLimit <- LimitOne
  InitPriority <- ByRank
  Limits = {1}
  Priorities = {1}
  MaxFailures = 2
  StickyMaxWaiting = 1
  MaxPolls = 1
  Events = {"ok", "auth", "quota", "other", "cancel"}
  AdminOps = {"disable", "enable", "add", "delete"}
  MaxAdminOps = 4
SYMMETRY Symmetric
INVARIANT TypeOK
INVARIANT SlotsMatchGuards
INVARIANT WaitersAreCounted
PROPERTY OnlyAdminReenables
CHECK_DEADLOCK FALSE
