CONSTANTS
  MaxEvents = 2
  TrimCount = 1
  Height = 1
  Overscan = 0
  Kinds = {k1, k2}
  MaxReceived = 3
SPECIFICATION Spec
INVARIANT TableShowsView
CHECK_DEADLOCK FALSE
