\* -U: the first failed kill makes the list be rebuilt; a duty cycle of 1, whose
\* off time is lengthened to 1 ns; the user presses Ctrl+C up to three times.
CONSTANTS
  NPids = 2
  Managed = {1, 2}
  DutyDen = 2
  TicksPerSec = 2
  InitDuty = 2
  InitPeriod = 1
  InitInterval = 0
  UpdateOnError = TRUE
  Commands <- NoLines
  MaxInterrupts = 3
  Births = {}
  Deaths = {1, 2}
  MaxChurn = 2
SPECIFICATION FairSpec
INVARIANTS TypeOK RestoredAtExit PhaseHolds
PROPERTIES DutyCycleGoesOn
\* A finished program whose signal came before pause() waits for ever.
CHECK_DEADLOCK FALSE
