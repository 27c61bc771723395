CONSTANTS
  Devices = {d1, d2}
  Ports = 2
  Addresses = {1, 2}
  MaxMoves = 4
  NoDevice = nodevice
  Hubs = {h1, h2}
  Limits = {0, 1, 2}
  MaxEvents = 3
  NoEvent = noevent
SPECIFICATION Spec
INVARIANTS
  HandlesReturned
  ActsOnAddressed
  LocalsOutliveCallbacks
  AskedForExported
PROPERTIES
  LimitStops
CHECK_DEADLOCK FALSE
