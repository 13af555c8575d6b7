\* close(true) by an application thread, while the loop drains the output.
SPECIFICATION FairSpec
CONSTANTS
  u1 = u1
  u2 = u2
  Loop = Loop
  Users <- MCOneUser
  MaxSends = 1
PROPERTY CloseCloses
CHECK_DEADLOCK FALSE
