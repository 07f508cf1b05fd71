SPECIFICATION Spec
CONSTANTS
  t1 = t1
  t2 = t2
  t3 = t3
  k1 = k1
  k2 = k2
  Txs = {t1, t2, t3}
  KeyImages = {k1, k2}
  images <- ImagesConflict
  needs <- NeedsFirst
  weight <- Weights
  fee_rank <- FeeRanks
  accepted <- ForkAccepted
  ForkHeight = 1
  max_weight = 4
  max_total_weight = 4
  MineStem = TRUE
  Relays = {"stem", "fluff"}
  Blocks <- BlocksSmall
  MaxBlocks = 2
  MaxDrift = 1
INVARIANTS
  KeyImageIndex
  OneRelayedSpender
  SortedMatchesPool
  TimedOutOnlyByBlock
  InputCacheCoherent
  TemplateMinable
  PoolMeetsVersion
  RefusedBlockReturnsAll
PROPERTY
  RelayNeverDowngraded
