\* Two application threads and the callbacks of the loop send and close.
SPECIFICATION FairSpec
CONSTANTS
  u1 = u1
  u2 = u2
  Loop = Loop
  Users <- MCUsers
  MaxSends = 3
INVARIANTS
  TypeOK
  WaitingCloseFlushes
PROPERTY LoopCloses
CHECK_DEADLOCK FALSE
