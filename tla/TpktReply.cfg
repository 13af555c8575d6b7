\* Frames from the server, in any pieces.
SPECIFICATION Spec
CONSTANTS
  Base = 3
  Payloads <- MCPayloads
  MaxFrames = 2
INVARIANT ReadsInBounds
CHECK_DEADLOCK FALSE
