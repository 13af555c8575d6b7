\* Two connections, two frames over each.
SPECIFICATION FairSpec
CONSTANTS
  Base = 2
  Payloads <- MCPayloads
  MaxConnects = 2
  MaxFrames = 2
INVARIANTS
  TypeOK
  FramesIntact
PROPERTIES
  CloseDelivers
  CloseEnds
CHECK_DEADLOCK FALSE
