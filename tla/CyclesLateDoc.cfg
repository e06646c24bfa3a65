\* Nothing is ever lost here: the topic and the budget have room for every record.
SPECIFICATION Spec
CONSTANTS
  Controllers = {jsb, ddc}
  KnownControllers = {jsb, ddc}
  Period = 2
  WindowLength = 3
  StepLength = 3
  Depth = 8
  SpinBudget = 8
  MaxFires = 2
  MaxWindows = 4
  NULL = NULL
INVARIANTS LateCountedInItsWindow
