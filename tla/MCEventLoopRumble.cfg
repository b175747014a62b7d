CONSTANTS
  Buttons = {"input"}
  Levels = {50}
  Mutes = {FALSE}
  Effects = {1}
  Magnitudes <- MCMagnitudes
  MaxReports = 1
  MaxEvents = 3
SPECIFICATION LiveSpec
CHECK_DEADLOCK FALSE
INVARIANTS
  TypeOK
  MotorsFollow
PROPERTIES
  UploadsAnswered
  LoopEnds
