\* Every component that reads or writes database files, one at a time.
SPECIFICATION Spec
CONSTANTS
  None = None
  c1 = c1
  c2 = c2
INVARIANTS
  TreeIsSound
  
  IteratorAgrees
  
  RepairedIsComplete
  BlocksAreSound

  
CHECK_DEADLOCK FALSE
