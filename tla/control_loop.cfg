\* Two rows, two samples, both versions; outputs 0 to 2 in half steps.
CONSTANTS
  TicksPerSec = 2
  Rows <- WholeSeconds
  Starts = {0, 1}
  MaxClock = 3
  PipeSize = 2
  kvalue = 0
  tvalue = 1
  minimum_output = 0
  maximum_output = 4
  Deltas = {1}
  FirstDeltas = {3}
  Inputs = {0, 3}
  MaxSamples = 2
  Patient = TRUE
SPECIFICATION FairSpec
INVARIANTS NothingIsLost
PROPERTIES NoWindup NeverEarly PlaysToTheEnd PipelineEnds
CHECK_DEADLOCK FALSE
