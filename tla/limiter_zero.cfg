\* Duty cycles of 0 and 1 typed while the program runs: a timer handler between the
\* writes of _update_timer sets the timer to a zero, which disarms it for good.
CONSTANTS
  NPids = 1
  Managed = {1}
  DutyDen = 2
  TicksPerSec = 2
  InitDuty = 1
  InitPeriod = 1
  InitInterval = 0
  UpdateOnError = FALSE
  Commands <- Extremes
  MaxInterrupts = 0
  Births = {}
  Deaths = {}
  MaxChurn = 0
SPECIFICATION Spec
INVARIANTS WorkTimerAlive
\* A finished program whose signal came before pause() waits for ever.
CHECK_DEADLOCK FALSE
