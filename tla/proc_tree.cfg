\* Seven command lines; processes 4 to 6 come and go, three updates.
CONSTANTS
  MaxPid = 6
  AtStart <- Five
  Immortal = {1, 2, 3}
  Stubborn = {6}
  Orphans = FALSE
  Modes <- AllModes
  MaxUpdates = 3
SPECIFICATION Spec
INVARIANTS TypeOK ListsTheWanted NeverLost Trimmed
PROPERTIES OnlyDeadLeave ImplementsMap
CHECK_DEADLOCK FALSE
