SPECIFICATION Spec
CONSTANTS
  t1 = t1
  t2 = t2
  a1 = a1
  a2 = a2
  h1 = h1
  h2 = h2
  s1 = s1
  s2 = s2
  Tasks = {t1, t2}
  Accounts = {a1, a2}
  Hosts = {h1, h2}
  Modes <- MCModes
  AskedModes <- MCAskedModes
  Settings = {s1, s2}
  Starts <- MCStarts
  MaxId = 2
  MaxCalls = 3
SYMMETRY Symmetry
INVARIANTS TypeOK Distinct BalancesFollow ReferencesHold FileAgrees
CHECK_DEADLOCK FALSE
