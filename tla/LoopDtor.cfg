\* ~Loop after the loop ended by itself.
SPECIFICATION Spec
CONSTANTS
  u1 = u1
  u2 = u2
  t1 = t1
  t2 = t2
  NULL = NULL
  Users <- MCUsers
  Owner = u1
  Waiters <- MCWaiters
  Threads <- MCOneThread
  MaxStarts = 1
  MaxActive = 1
INVARIANT DtorNeverTerminates
CHECK_DEADLOCK FALSE
