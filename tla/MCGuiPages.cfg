SPECIFICATION FairSpec
CONSTANTS
  Browsers = {b1, b2}
  NoBrowser = none
  MaxCalls = 3
  MaxEvents = 0
  MaxChunk = 2
  MaxBuffer = 1
  InitBatch = 1
INVARIANTS PagesAgree
PROPERTIES InitArrives
CHECK_DEADLOCK FALSE
