\* One worker sends feedback and ends by itself, the other is cancelled.
SPECIFICATION FairSpec
CONSTANTS
  Workers = {w1, w2}
  FeedbackIdlers = {f1, f2}
  Finished = fin
  NoIdle = none
  NoWorker = noworker
  FeedbackWorkers = {w1}
  CancelWorkers = {w2}
  MaxRuns = 1
  MaxPending = 6
INVARIANTS NoUseAfterFree FinishedOnce
PROPERTY EndedIsFinished
CHECK_DEADLOCK FALSE
