SPECIFICATION Spec
CONSTANTS
  c1 = c1
  c2 = c2
  c3 = c3
  Cred <- MCCred
  NoCred = NoCred
  Enterprise <- MCEnterprise
  UnknownEndpoint <- MCUnknown
  Proxies = 2
  MAX_RETRIES_PER_CREDENTIAL = 1
  MAX_TOTAL_RETRIES = 9
  MAX_FAILURES_PER_CREDENTIAL = 1
  MaxErrors = 3
  MaxBuffer = 8
  FrameSize = 4
  MAX_CAPACITY = 2
  Routes = {"whole"}
  Bodies <- DamagedData
  ChunkSizes = {3, 5}
  MaxPings = 1
  MaxOthers = 1
INVARIANT AvailableFramesDecoded
CHECK_DEADLOCK FALSE
