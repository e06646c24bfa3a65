\* Two controllers, four windows; the topic overflows and the spin budget bites.
SPECIFICATION Spec
CONSTANTS
  Controllers = {jsb, ddc}
  KnownControllers = {jsb}
  Period = 2
  WindowLength = 3
  StepLength = 3
  Depth = 4
  SpinBudget = 3
  MaxFires = 4
  MaxWindows = 4
  NULL = NULL
INVARIANTS CyclesConserved Attribution RowsDescribeCycles
  OnTimeIsBoundaryOrProjected CyclesEvenlySpaced
