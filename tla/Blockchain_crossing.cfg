SPECIFICATION Spec
CONSTANTS
  g = g
  a1 = a1
  a2 = a2
  b1 = b1
  b2 = b2
  b3 = b3
  c3 = c3
  x = x
  y = y
  z = z
  Genesis = g
  Txs = {x, y, z}
  Blocks <- TwoBlocks
  parent <- TwoParent
  difficulty <- TwoDifficulty
  txs <- TwoTxs
  accepted <- OldRules
  ForkHeight = 2
  Faults = {"ok", "miner"}
  MaxFaulty = 2
  Events = {}
  MaxEvents = 0
  Served = {b1, b2, b3}
PROPERTY RollbackRestores
