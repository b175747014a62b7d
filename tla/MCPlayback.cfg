CONSTANTS
  Capacity = 72
  PcmBytes = 8
  PrimeBytes = 16
  PktsPerXfer = 2
  MaxSeq = 3
  SinkSizes <- MCSinkSizes
SPECIFICATION LiveSpec
INVARIANTS
  TypeOK
  RingSafe
  PacketAligned
  TrimNeverStarves
  LatencyBounded
PROPERTIES
  SeqFollows
  EventuallyPrimed
