SPECIFICATION FairSpec
CONSTANTS
  a = a
  b = b
  c = c
  closer = closer
  Clients <- Two
  Closer <- closer
  Kinds <- AllButSync
  MaxCalls = 2
  MaxKeys = 1
  MaxParts = 1
  MemCap = 1
  L0Trigger = 1
  L0Slow = 1
  L0Stop = 2
  Faults <- BackgroundFaults
INVARIANTS
  WaitersHaveWork
  
  ClosedIsQuiet
PROPERTIES
  EverythingReturns
