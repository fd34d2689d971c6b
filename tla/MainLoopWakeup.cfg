\* Threads are started by callbacks of the running loop, post, quit and race
\* with signals.
SPECIFICATION WakeupFairSpec
CONSTANTS
  Workers = {w1, w2}
  MainThread = main
  Nobody = nobody
  MaxPosts = 2
  MaxSignals = 2
  SigCapacity = 1
  EarlyThreads = FALSE
INVARIANTS WakeupTypeOK NoLostWakeup AckNeverBlocks
PROPERTIES PostedWorkRuns QuitStops
\* A loop with nothing to do sleeps in ppoll() for ever.
CHECK_DEADLOCK FALSE
