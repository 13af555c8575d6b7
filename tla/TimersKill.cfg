\* killTimer and stop at any time.
SPECIFICATION Spec
CONSTANTS
  t1 = t1
  t2 = t2
  u1 = u1
  u2 = u2
  lp = lp
  None = None
  Loop = lp
  Timers <- MCOneTimer
  Users <- MCUsers
  Rounds = {1, 2, 3}
  Forever = 3
  MaxStarts = 2
  Managers <- MCUsers
  Overtake = FALSE
  Restart = FALSE
  KillAny = TRUE
  SelfStop = FALSE
INVARIANT NoFault
CHECK_DEADLOCK FALSE
