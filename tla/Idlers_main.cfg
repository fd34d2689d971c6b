\* Idlers are added by any thread and deleted on the main thread.
SPECIFICATION FairSpec
CONSTANTS
  Idles = {i1, i2, i3}
  NoIdle = none
  OtherThreadsDel = FALSE
  MaxPending = 3
PROPERTIES DeleteIsFinal ImplementsLifecycle PassEnds AddedIdlerRuns
CHECK_DEADLOCK FALSE
