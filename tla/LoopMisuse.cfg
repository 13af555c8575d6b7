\* start() twice before the first thread has run.
SPECIFICATION Spec
CONSTANTS
  u1 = u1
  u2 = u2
  t1 = t1
  t2 = t2
  NULL = NULL
  Users <- MCUsers
  Owner = u1
  Waiters <- MCWaiters
  Threads <- MCTwoThreads
  MaxStarts = 2
  MaxActive = 1
INVARIANT FinishedMeansOut
CHECK_DEADLOCK FALSE
