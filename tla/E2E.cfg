\* Every call may raise, the simulation may crash, children may ignore SIGTERM.
SPECIFICATION Spec
CONSTANTS
  CallsMayRaise = TRUE
  SimMayCrash = TRUE
  NULL = NULL
INVARIANTS NothingLeftRunning ExperimentUninterrupted SummaryIsTrue
PROPERTIES ReturnsOrHangs
