\* The experiment as it is meant, a paused world at time 0 with every step answered,
\* until something raises or kills it: sampled once a window and, in other
\* behaviours, analysed at any moment of the run and after it.
SPECIFICATION MCSpec
CONSTANTS
  WindowMs = 5
  PhysicsMs = 2
  DurationSteps = 6
  StartTimes <- MCFresh
  GuiModes <- MCPaused
  FreeRunCap = 0
  MaxTimeouts = 0
  MayFail = TRUE
  MaxUsed = 3
  MaxWall = 3
  NULL = NULL
INVARIANTS CoversDuration SamplesAccount AnomalyNeedsRace
PROPERTIES StillWorld ImplementsWindowLog
