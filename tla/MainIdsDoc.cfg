\* Two calls of main(), nothing raises, the offline experiment only.
SPECIFICATION Spec
CONSTANTS
  Duration = 2
  WindowLength = 2
  MaxArrivals = 0
  CallsMayRaise = FALSE
  MaxRuns = 2
  MaxClock = 2
  MaxSteppedWindows = 0
INVARIANTS OneOutcomePerWindow
