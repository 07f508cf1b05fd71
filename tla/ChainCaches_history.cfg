SPECIFICATION Spec
CONSTANTS
  Blocks <- MCBlocks
  Genesis = "G"
  parent <- MCparent
  Weights <- MCWeights
  GenesisWeight = 4
  Versions = {"old", "long term", "scaling"}
  Garbage = {19}
  LongWindow = 3
  RewardWindow = 2
  DifficultyCount = 2
  Zone = 10
  Surge = 2
INVARIANTS
  RollingMedianRight
  DifficultyOfTop
  WeightsFromBlocks
  LimitOfTail
