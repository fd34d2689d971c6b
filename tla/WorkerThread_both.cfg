\* A worker that sends feedback and is cancelled.
SPECIFICATION FairSpec
CONSTANTS
  Workers = {w1}
  FeedbackIdlers = {f1, f2}
  Finished = fin
  NoIdle = none
  NoWorker = noworker
  FeedbackWorkers = {w1}
  CancelWorkers = {w1}
  MaxRuns = 1
  MaxPending = 6
INVARIANT FinishedOnce
CHECK_DEADLOCK FALSE
