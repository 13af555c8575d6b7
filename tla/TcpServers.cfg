\* A further configuration: two servers without slavers increment one generator.
SPECIFICATION Spec
CONSTANTS
  s1 = s1
  c1 = c1
  c2 = c2
  u1 = u1
  None = None
  Servers = {s1, s2}
  Slavers = 0
  Conns = {c1, c2, c3, c4}
  ServerOf <- MCOtherServerOf
  Numbers = {10, 11, 12, 13}
  Users = {}
PROPERTIES
  LivesOnce
CHECK_DEADLOCK FALSE
