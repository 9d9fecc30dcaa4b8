CONSTANTS
  MaxPid = 6
  AtStart <- Five
  Immortal = {1, 2, 3}
  Stubborn = {6}
  Orphans = TRUE
  Modes <- Plain
  MaxUpdates = 3
SPECIFICATION Spec
INVARIANTS NeverLost
CHECK_DEADLOCK FALSE
