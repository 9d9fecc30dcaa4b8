\* -U, and two processes end one after the other: the second stays on the list.
CONSTANTS
  NPids = 2
  Managed = {1, 2}
  DutyDen = 2
  TicksPerSec = 2
  InitDuty = 1
  InitPeriod = 1
  InitInterval = 0
  UpdateOnError = TRUE
  Commands <- NoLines
  MaxInterrupts = 0
  Births = {}
  Deaths = {1, 2}
  MaxChurn = 2
SPECIFICATION FairSpec
PROPERTIES DeadLeavesList
\* A finished program whose signal came before pause() waits for ever.
CHECK_DEADLOCK FALSE
