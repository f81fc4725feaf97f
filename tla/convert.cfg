SPECIFICATION Spec
CONSTANTS
  Ids = {1, 2}
  Contents <- MCContents
  Options <- MCOptions
  TOOL_NAME_MAX_LEN = 63
  Size <- MCSize
  Lead <- MCLead
  Short <- MCShort
  Lower <- MCLower
  MaxMessages = 5
INVARIANTS PairingHolds HistoryFaithful ToolsDefined
CHECK_DEADLOCK FALSE
