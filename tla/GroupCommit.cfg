SPECIFICATION Spec
CONSTANTS
  a = a
  b = b
  c = c
  closer = closer
  Clients <- Three
  Closer <- closer
  Kinds <- PutAndSync
  MaxCalls = 1
  MaxKeys = 1
  MaxParts = 1
  MemCap = 1
  L0Trigger = 1
  L0Slow = 1
  L0Stop = 2
  Faults <- LogFaults
INVARIANTS
  ResultsAreTrue
  SyncMeansSynced
  GroupsAreAtomic
  QueueIsSound
PROPERTIES
  ImplementsWriteOrder
