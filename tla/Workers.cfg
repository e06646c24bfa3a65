\* One controller and up to two tools over three windows, any decisions.
SPECIFICATION Spec
CONSTANTS
  c1 = c1
  c2 = c2
  l1 = l1
  l2 = l2
  Controllers <- MCOneController
  Tools <- MCTools
  Decisions <- MCBoth
  Pids = {p1, p2, p3}
  MaxWindows = 3
  MaxArrivals = 2
  MaxDeaths = 2
  NULL = NULL
SYMMETRY MCSymmetry
INVARIANTS OneWorkerPerTask RememberedIsConfined WorkersAccumulate
  DrivenByMostCritical PlanIsInEffect
PROPERTY ImplementsPool
