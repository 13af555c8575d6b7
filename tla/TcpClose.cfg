\* close() of a session whose descriptor was closed and given out again.
SPECIFICATION Spec
CONSTANTS
  s1 = s1
  c1 = c1
  c2 = c2
  u1 = u1
  None = None
  Servers <- MCServers
  Slavers = 1
  Conns <- MCConns
  ServerOf <- MCServerOf
  Numbers = {10}
  Users <- MCUsers
INVARIANT CloseHitsOwn
CHECK_DEADLOCK FALSE
