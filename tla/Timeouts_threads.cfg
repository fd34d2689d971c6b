\* Timeouts are added and deleted by every thread during passes and sleeps.
SPECIFICATION Spec
CONSTANTS
  Handles = {t1, t2, t3}
  NoTimeout = none
  Periods = {0, 1, 2}
  OtherThreadsDel = TRUE
  LateCalls = {"add earlier", "delete first"}
  MaxClock = 2
SYMMETRY HandleSymmetry
INVARIANTS NoDanglingTimeout VectorsSorted
PROPERTY ImplementsLifecycle
CHECK_DEADLOCK FALSE
