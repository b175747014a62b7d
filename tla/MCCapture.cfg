CONSTANTS
  Capacity = 16
  InSizes <- MCInSizes
  CapLow = 4
  MaxBytes = 7
  Requests <- MCRequests
SPECIFICATION Spec
INVARIANTS
  TypeOK
  BufferAligned
  TrimNeverStarves
  ServedFreshUnlessLost
