\* Every thread adds, changes and deletes handlers; callbacks reuse numbers.
SPECIFICATION Spec
CONSTANTS
  Handles = {h1, h2, h3}
  NoHandle = none
  Numbers = {1, 2}
  Events = {"in"}
  ReusedEarly = FALSE
  ChangedLate = FALSE
SYMMETRY HandleSymmetry
INVARIANT NoDescriptorOverslept
PROPERTIES EventsReachTheirHandlers ImplementsLifecycle
CHECK_DEADLOCK FALSE
