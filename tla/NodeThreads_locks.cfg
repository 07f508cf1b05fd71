SPECIFICATION Spec
CONSTANTS
  Threads <- MCThreads
  Routines <- MCRoutines
  Leaf <- MCLeaf
  Settings <- MCSettings
  None = None
CHECK_DEADLOCK FALSE
INVARIANTS
  ResizeAlone
  BatchIsMine
PROPERTIES
  WaitTells
  Finishes
