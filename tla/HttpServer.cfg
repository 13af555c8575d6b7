\* Two paths, two handlers, two requests; two writes to a reply, plain or not, three registrations.
SPECIFICATION FairSpec
CONSTANTS
  p1 = p1
  p2 = p2
  h1 = h1
  h2 = h2
  q1 = q1
  q2 = q2
  c1 = c1
  f1 = f1
  NONE = NONE
  Paths <- MCPaths
  Handlers <- MCHandlers
  Requests <- MCRequests
  Contents <- MCContents
  Formats <- MCFormats
  MaxWrites = 2
  MaxRegs = 3
INVARIANTS
  TypeOK
  BodySent
PROPERTIES
  RightHandler
  EveryRequestAnswered
CHECK_DEADLOCK FALSE
