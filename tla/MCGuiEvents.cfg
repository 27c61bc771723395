SPECIFICATION Spec
CONSTANTS
  Browsers = {b1}
  NoBrowser = none
  MaxCalls = 3
  MaxEvents = 3
  MaxChunk = 2
  MaxBuffer = 2
  InitBatch = 1
INVARIANTS GuiTypeOK BufferIsNewest NoGap NeverStuck
CHECK_DEADLOCK FALSE
