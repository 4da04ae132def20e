CONSTANTS
  NumTasks = 3
  SLICE = 2
  TickModulus = 8
  MaxSleep = 2
  RuntimeToggle = FALSE
  MaskedSleep = TRUE
SPECIFICATION Spec
INVARIANTS
  SleepSuspends
CHECK_DEADLOCK TRUE
