SPECIFICATION AllSpec
CONSTANTS
  t1 = t1
  t2 = t2
  f1 = f1
  f2 = f2
  w1 = w1
  w2 = w2
  r1 = r1
  r2 = r2
  None = None
  Threads <- TwoThreads
  BgThread = t2
  Files <- TwoFiles
  Recovered <- OneTable
  UnitSize <- OneUnit
  AllUnits = 2
  InitUnits = 1
  InvRate = 2
  LifeTime = 1
  Capacity = 1
  SizeMod = 64
  SeqNos <- TwoSeqs
  Inherited <- Hot
  MaxObjects = 2
  MaxGets = 2
  ReadFaults = TRUE
INVARIANTS
  
  PointersAreLive
  NoJobAfterShutDown
  
  SamplesAreExact
PROPERTIES
  
  WaitsEnd
