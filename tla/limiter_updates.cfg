\* The list is rebuilt periodically while processes start and end; lines typed from
\* the start of the program on, duty cycles of 0 and 1 among them.
CONSTANTS
  NPids = 2
  Managed = {1, 2}
  DutyDen = 2
  TicksPerSec = 2
  InitDuty = 1
  InitPeriod = 1
  InitInterval = 1
  UpdateOnError = FALSE
  Commands <- AllLines
  MaxInterrupts = 0
  Births = {1}
  Deaths = {1}
  MaxChurn = 3
CONSTRAINT LinesApart
SPECIFICATION Spec
INVARIANTS ListMatchesTree ListInBounds DurationsRun
\* A finished program whose signal came before pause() waits for ever.
CHECK_DEADLOCK FALSE
