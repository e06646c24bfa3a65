\* Two calls of main() within two seconds, in one process or two, with any part of
\* the installation missing, any call raising, and configuration files of every
\* kind; fallback experiments of two windows and up to one arrival per window.
SPECIFICATION SetupSpec
CONSTANTS
  Duration = 5
  WindowLength = 2
  MaxArrivals = 1
  CallsMayRaise = TRUE
  MaxRuns = 2
  MaxClock = 2
  MaxSteppedWindows = 1
  ConfigFiles <- MCFiles
  Absent = Absent
  Null = Null
  Text = Text
  Refused = Refused
INVARIANTS OneModePerRun MarkerScoped OpenPublisherHasContext LeftOpenForAReason
  EventIdsUnique RefusedConfigTracesNothing ConfinedIfRequired
