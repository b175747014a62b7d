CONSTANTS
  Units = 2
  MaxFaults = 0
  SeqLimit = 15
  Slow = {"media", "chat", "ack"}
SPECIFICATION Spec
CHECK_DEADLOCK FALSE
INVARIANTS
  MonitorAlive
