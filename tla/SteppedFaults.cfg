\* Abandoned waits, lost requests, exceptions, kills and both launch modes.
SPECIFICATION Spec
CONSTANTS
  WindowMs = 5
  PhysicsMs = 2
  DurationSteps = 5
  StartTimes <- MCStarts
  GuiModes <- MCBothModes
  FreeRunCap = 3
  MaxTimeouts = 2
  MayFail = TRUE
  NULL = NULL
INVARIANTS AlignedTrace AdvanceNeedsPlan WindowNeedsTime BoundedBacklog
  TimestampsOrdered
PROPERTIES RunEnds
