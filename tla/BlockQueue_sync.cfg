SPECIFICATION FairSpec
CONSTANTS
  c1 = c1
  c2 = c2
  Conns = {c1, c2}
  Networks <- BothNetworks
  Genesis = "g"
  Bad = {"y3"}
  Reliable = {c1}
  Sizes = {1, 2}
INVARIANT HaveIsDownloaded
INVARIANT RequestedHasSpan
INVARIANT ScheduledIsAsked
PROPERTY Synced
CHECK_DEADLOCK FALSE
