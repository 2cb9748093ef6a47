SPECIFICATION Spec
CONSTANTS
  Contexts = {f1, f2, r1, m1}
  Functions = {f1, f2}
  Requests = {r1}
  MaxActive = 1
  MaxHistory = 2
  StaleTimeout = 1
  Threshold = 1
  MaxTime = 3
SYMMETRY Symmetry
INVARIANTS
  RecordedOnce
  OverLimitOnlyFresh
  ClientStopped
PROPERTY
  FreshProfilesStay
\* Contexts are finite.
CHECK_DEADLOCK FALSE
