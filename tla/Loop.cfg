\* One start(): everything Loop promises but the destructor of a finished loop.
SPECIFICATION FairSpec
CONSTANTS
  u1 = u1
  u2 = u2
  t1 = t1
  t2 = t2
  NULL = NULL
  Users <- MCUsers
  Owner = u1
  Waiters <- MCWaiters
  Threads <- MCOneThread
  MaxStarts = 1
  MaxActive = 2
INVARIANTS
  TypeOK
  ActiveCallbacksCalled
  NobodyLeftAtFree
PROPERTIES
  KeepsPromise
  WaitMeansFinished
  ExitNotLost
  DtorEnds
\* The process may end: the object is destroyed, or the process has died.
CHECK_DEADLOCK FALSE
