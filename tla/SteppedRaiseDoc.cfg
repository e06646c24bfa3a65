\* Any call of the loop may raise.
SPECIFICATION Spec
CONSTANTS
  WindowMs = 5
  PhysicsMs = 2
  DurationSteps = 4
  StartTimes <- MCFresh
  GuiModes <- MCPaused
  FreeRunCap = 0
  MaxTimeouts = 0
  MayFail = TRUE
  NULL = NULL
INVARIANTS TaskEventsHaveWindow
