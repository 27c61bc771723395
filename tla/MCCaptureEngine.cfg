CONSTANTS
  Hubs = {1, 2}
  MaxPackets = 2
SPECIFICATION FairEngineSpec
INVARIANTS
  EngineTypeOK
  QuietWhenIdle
  QuietAfterStop
  StreamOrder
  EveryNumberDelivered
  StatsSound
PROPERTIES
  StartReportsAll
  StreamSpec
  StopCompletes
CHECK_DEADLOCK FALSE
