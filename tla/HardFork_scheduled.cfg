SPECIFICATION Spec
CONSTANTS
  heights <- ScheduledForks
  window_size = 3
  Minors = {0, 2, 5}
  MaxHeight = 5
INVARIANTS
  HfTableMatchesChain
  CurrentVersionIsIdeal
  RestoreAccepted
  WindowOfNewestBlocks
