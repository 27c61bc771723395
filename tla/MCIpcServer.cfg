CONSTANTS
  Clients = {c1, c2}
  Readers = {r1}
  MaxEvents = 1
  MaxCalls = 2
SPECIFICATION Spec
INVARIANTS
  SameOrder
  StoppedIsLast
  StopLeavesNothing
  AcceptNotBlocked
CHECK_DEADLOCK FALSE
