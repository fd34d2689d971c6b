\* Sources are added by every thread and deleted on the main thread.
SPECIFICATION FairSpec
CONSTANTS
  Handles = {s1, s2, s3}
  MainThread = main
  OtherThreads = {t1}
  OtherThreadsDel = FALSE
  MaxNesting = 2
INVARIANTS SourcesStayValid ReadyIsDispatched
PROPERTY DeletedIsDisposed
CHECK_DEADLOCK FALSE
