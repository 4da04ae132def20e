CONSTANTS
  NumTasks = 3
  SLICE = 2
  TickModulus = 8
  MaxSleep = 2
  RuntimeToggle = FALSE
  MaskedSleep = FALSE
SPECIFICATION Spec
INVARIANTS
  IdleSwitchesAtOnce
CHECK_DEADLOCK TRUE
