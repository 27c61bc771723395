CONSTANTS
  Clients = {c1}
  Readers = {r1}
  MaxEvents = 1
  MaxCalls = 1
SPECIFICATION FairSpec
PROPERTIES
  IpcStopReturns
CHECK_DEADLOCK FALSE
