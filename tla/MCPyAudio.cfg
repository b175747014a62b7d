CONSTANTS
  RingCap = 2
  CursorMod = 4
  Byte = {0, 1}
  Packet = 2
  Prime = 2
  Buffers <- MCBuffers
  MaxRequest = 2
  NOut = 2
  NIn = 1
  PktsPerXfer = 2
  MaxErrors = 1
  MaxFails = 1
  Limit = 1000
  CancelTime = 50
  EventTime = 110
  SyncTime = 200
SPECIFICATION Spec
CHECK_DEADLOCK FALSE
INVARIANTS
  TypeOK
  NotFreedUnderfoot
  ReadIsFull
PROPERTIES
  QueueSpec
