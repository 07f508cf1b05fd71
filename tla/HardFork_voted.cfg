SPECIFICATION GrowSpec
CONSTANTS
  heights <- VotedOnForks
  window_size = 3
  Minors = {0, 1, 2, 4, 5}
  MaxHeight = 7
INVARIANTS
  RollingWindow
  CurrentVersionEarned
PROPERTY
  RestartKeepsVersion
