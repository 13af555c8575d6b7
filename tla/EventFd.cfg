\* Four signals, a counter that holds three, and servers on three loops, killed and replaced.
SPECIFICATION FairSpec
CONSTANTS
  s1 = s1
  s2 = s2
  s3 = s3
  s4 = s4
  r1 = r1
  r2 = r2
  r3 = r3
  Signals <- MCSignals
  Servers <- MCServers
  Max = 3
INVARIANTS
  TypeOK
PROPERTIES
  KeepsSignals
  EverySignalSeen
  CallbackReturns
CHECK_DEADLOCK FALSE
