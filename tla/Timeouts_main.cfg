\* Deletions on the main thread only, no timeout of 0 ms.
SPECIFICATION FairSpec
CONSTANTS
  Handles = {t1, t2, t3}
  NoTimeout = none
  Periods = {1, 2}
  OtherThreadsDel = FALSE
  LateCalls = {}
  MaxClock = 2
INVARIANT SleepsNotTooLong
PROPERTY DueTimeoutRuns
CHECK_DEADLOCK FALSE
