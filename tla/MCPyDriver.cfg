CONSTANTS
  Units = 3
  MaxFaults = 1
  SeqLimit = 15
  Slow = {"media", "chat", "ack"}
SPECIFICATION Spec
CHECK_DEADLOCK FALSE
INVARIANTS
  TypeOK
  AnswersPaired
  PayloadWhole
  VerdictRight
  PacketReadBack
  QuietAfterClose
