\* Two application threads beside the loop; one of them and the handlers
\* call the manager; they stop only what is not in its last round.
SPECIFICATION FairSpec
CONSTANTS
  t1 = t1
  t2 = t2
  u1 = u1
  u2 = u2
  lp = lp
  None = None
  Loop = lp
  Timers <- MCOneTimer
  Users <- MCTwoUsers
  Rounds = {2, 3}
  Forever = 3
  MaxStarts = 3
  Managers <- MCManagers
  Overtake = FALSE
  Restart = FALSE
  KillAny = FALSE
  SelfStop = FALSE
INVARIANTS
  TypeOK
  NoFault
  FinishedReported
  LiveNotFinished
  CalledInFull
  DeadIsSilent
PROPERTIES
  KillReturns
  FiniteSwept
CHECK_DEADLOCK FALSE
