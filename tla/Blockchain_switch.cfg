SPECIFICATION FairSpec
CONSTANTS
  g = g
  a1 = a1
  a2 = a2
  b1 = b1
  b2 = b2
  b3 = b3
  c3 = c3
  x = x
  y = y
  z = z
  Genesis = g
  Txs = {x, y, z}
  Blocks <- MCBlocks
  parent <- MCparent
  difficulty <- MCdifficulty
  txs <- MCtxs
  accepted <- BothAccept
  ForkHeight = 1
  Faults = {"ok", "header", "inputs", "miner"}
  MaxFaulty = 2
  Events = {"pop", "loss", "restart"}
  MaxEvents = 3
  Served = {b1, b2, b3}
INVARIANT TailIsHeaviest
INVARIANT OldTxsAtHand
PROPERTY OldChainKept
PROPERTY ImplementsMainChain
PROPERTY Converges
