SPECIFICATION Spec
CONSTANTS
  MaxSeq = 2
  MaxFile = 13
  Slack = 6
  MaxCrashes = 1
  Faults <- AppendFault
INVARIANTS
  AckedWritesSurviveProcessCrash
CHECK_DEADLOCK FALSE
