SPECIFICATION Spec
CONSTANTS
  MaxSeq = 2
  MaxFile = 13
  Slack = 6
  MaxCrashes = 1
  Faults <- MostFaults
INVARIANTS
  DurabilityInv
  SyncedWritesDurable
  AckedWritesSurviveProcessCrash
  DescriptorFilesExist
  ReferencedFilesExist
  AckedWritesReadable
  SequenceFresh
PROPERTIES
  BackgroundErrorIsFinal
CHECK_DEADLOCK FALSE
