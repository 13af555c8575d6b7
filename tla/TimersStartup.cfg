\* The instance, whose loop starts before the audit timer.
SPECIFICATION Spec
CONSTANTS
  t1 = t1
  t2 = t2
  u1 = u1
  u2 = u2
  lp = lp
  None = None
  Loop = lp
  Timers <- MCTimers
  Users <- MCUsers
  Rounds = {1, 2, 3}
  Forever = 3
  MaxStarts = 2
  Managers <- MCUsers
  Overtake = FALSE
  Restart = FALSE
  KillAny = FALSE
  SelfStop = FALSE
INVARIANT LoopNeverExits
CHECK_DEADLOCK FALSE
