SPECIFICATION Spec
CONSTANTS
  c1 = c1
  c2 = c2
  Calls = {c1, c2}
  Chunks <- MCChunks
  QueueMax = 0
  Settings <- MCSettings
INVARIANTS
  DestroyedWasted
  ChunksTogether
PROPERTIES
  CallsBackOnce
  ClosingEnds
CHECK_DEADLOCK FALSE
