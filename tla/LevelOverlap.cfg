SPECIFICATION Spec
CONSTANTS
  None = None
  Keys <- ThreeKeys
  NumLevels = 4
  MaxMemCompactLevel = 2
  L0Trigger = 5
  MaxBytes <- BigLevels
  TargetFileSize = 2
  GrandParentBytes = 1
  ExpandedBytes = 5
  AllowedSeeks = 1
  WriteBuffer = 1
  ManualRanges <- FullRange
  MaxSeq = 5
  MaxSnapshots = 0
  MaxReads = 0
CHECK_DEADLOCK FALSE
INVARIANTS
  LevelsDisjoint
