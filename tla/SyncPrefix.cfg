SPECIFICATION Spec
CONSTANTS
  MaxSeq = 2
  MaxFile = 13
  Slack = 6
  MaxCrashes = 1
  Faults <- NoFaults
INVARIANTS
  SyncCoversEarlierWrites
CHECK_DEADLOCK FALSE
