CONSTANTS
  Devices = {d1, d2}
  Ports = 2
  Addresses = {1, 2}
  MaxMoves = 4
  NoDevice = nodevice
  Hubs = {h1}
  Limits = {0, 1, 2}
  MaxEvents = 3
  NoEvent = noevent
SPECIFICATION Spec
INVARIANT
  LimitKept
CHECK_DEADLOCK FALSE
