\* Other threads add and delete while the main thread processes.
SPECIFICATION Spec
CONSTANTS
  Idles = {i1, i2, i3}
  NoIdle = none
  OtherThreadsDel = TRUE
  MaxPending = 5
SYMMETRY IdleSymmetry
INVARIANTS TypeOK NoDanglingIdler PendingCoversDeleted
CHECK_DEADLOCK FALSE
