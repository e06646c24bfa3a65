\* The simulation may crash while the scheduler runs; nothing else goes wrong.
SPECIFICATION Spec
CONSTANTS
  CallsMayRaise = FALSE
  SimMayCrash = TRUE
  NULL = NULL
PROPERTIES CrashEndsRun
