\* A further configuration: the owner destroys the server while its loop runs.
SPECIFICATION Spec
CONSTANTS
  p1 = p1
  p2 = p2
  h1 = h1
  h2 = h2
  q1 = q1
  q2 = q2
  c1 = c1
  f1 = f1
  NONE = NONE
  Paths <- MCPaths
  Handlers <- MCHandlers
  Requests = {q1}
  Contents = {c1}
  Formats = {}
  MaxWrites = 1
  MaxRegs = 1
INVARIANT FreedAlone
CHECK_DEADLOCK FALSE
