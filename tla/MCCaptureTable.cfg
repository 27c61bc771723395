CONSTANTS
  MaxEvents = 2
  TrimCount = 1
  Height = 1
  Overscan = 0
  Kinds = {k1, k2}
  MaxReceived = 4
SYMMETRY Symmetry
SPECIFICATION Spec
INVARIANTS
  ViewComplete
  RowsTrue
  VisibleRendered
  DetailIsSelected
CHECK_DEADLOCK FALSE
