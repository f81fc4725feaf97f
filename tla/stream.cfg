SPECIFICATION Spec
CONSTANTS
  OpenTag <- Open
  CloseTag <- Close
  Newline = "nl"
  Blanks <- White
  QuoteChars <- Quote
  Chunks <- Pieces
  Tool = {"t1", "t2"}
  MaxEvents = 4
INVARIANT TypeOK
INVARIANT WellFormed
INVARIANT NothingLost
INVARIANT CutsDoNotMatter
PROPERTY TextBeforeTool
PROPERTY ThinkingIsNotAll
CHECK_DEADLOCK FALSE
