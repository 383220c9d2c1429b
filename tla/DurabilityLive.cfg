SPECIFICATION FairSpec
CONSTANTS
  MaxSeq = 1
  MaxFile = 19
  Slack = 12
  MaxCrashes = 2
  Faults <- AllFaults

  
PROPERTIES
  
  ImmEventuallyFlushed
CHECK_DEADLOCK FALSE
