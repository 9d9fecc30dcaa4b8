\* Lines typed while the program runs: duty cycles from 0 to 1, periods from 0 on, q, the end of the
\* input; three interrupts.
CONSTANTS
  DutyDen = 4
  TicksPerSec = 16
  InitDuty = 2
  InitPeriod = 2
  Commands <- Lines
  MaxInterrupts = 3
SPECIFICATION Spec
INVARIANTS NeverOversleeps
PROPERTIES TimerGoesOn
