SPECIFICATION Spec
CONSTANTS
  a = a
  b = b
  c = c
  closer = closer
  Clients <- Three
  Closer <- closer
  Kinds <- PutAndFlush
  MaxCalls = 2
  MaxKeys = 1
  MaxParts = 1
  MemCap = 2
  L0Trigger = 1
  L0Slow = 1
  L0Stop = 2
  Faults <- NoFaults
INVARIANTS
  CompactMemTableFlushes
