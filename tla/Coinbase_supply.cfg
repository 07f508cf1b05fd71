SPECIFICATION Spec
CONSTANTS
  MONEY_SUPPLY = 5
  U64 = 16
  MaxHeight = 3
  hf_version <- Versions
  Amounts = {0, 2, 5, 17}
  Fees = {0, 1, 2}
  TxWeight = 2
  RefWeight = 3
  MedianWeight = 2
  FeeMask = 2
  ClampThreshold = 2
INVARIANTS
  GeneratedIsSupply
  PaysItsFees
  EmptyBlockAccepted
