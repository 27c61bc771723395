CONSTANTS


  Irps = {i1, i2}
  Times <- MCTimes
  MaxAge = 2
  ExpireInterval = 1
  U64 <- MCU64
  U32 = 3
  MaxPackets = 6
  NoEntry = NoEntry
SPECIFICATION Spec
INVARIANTS
  TypeOK
  OffersLatestRequest
  NoEarlyExpiry
  StaleBound
PROPERTIES
  FreshCompletionTimed
CHECK_DEADLOCK FALSE
