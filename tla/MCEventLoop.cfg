CONSTANTS
  Buttons = {"input"}
  Levels = {40, 60}
  Mutes = {TRUE, FALSE}
  Effects = {}
  Magnitudes = {}
  MaxReports = 2
  MaxEvents = 2
SPECIFICATION Spec
CHECK_DEADLOCK FALSE
INVARIANTS
  PadFollows
  SystemFollowsKnob
  ControllerAtMax
