\* One slaver serves two connections, with an application thread and stop().
SPECIFICATION FairSpec
CONSTANTS
  s1 = s1
  c1 = c1
  c2 = c2
  u1 = u1
  None = None
  Servers <- MCServers
  Slavers = 1
  Conns <- MCConns
  ServerOf <- MCServerOf
  Numbers = {10, 11}
  Users <- MCUsers
INVARIANTS
  TypeOK
  RemovalFollowsAdd
  DescriptorKept
PROPERTIES
  LivesOnce
  EventuallyAttached
  EventuallyReleased
CHECK_DEADLOCK FALSE
