CONSTANTS
  NOut = 3
  NIn = 1
  PktsPerXfer = 2
  MaxSeq = 5
  DrainTicks = 3
  CancelTicks = 2
  MaxFails = 1
SPECIFICATION LiveSpec
CHECK_DEADLOCK FALSE
INVARIANTS
  TypeOK
  NotFreedUnderfoot
  EngineNotShared
  InOnePlace
  WireInOrder
PROPERTIES
  KeptInFlightUnlessRefused
  StopCompletes
