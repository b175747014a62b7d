CONSTANTS
  MaxPlugs = 3
  MaxFails = 2
  MaxAttempts = 2
SPECIFICATION LiveSpec
CHECK_DEADLOCK FALSE
PROPERTIES
  PlugServed
