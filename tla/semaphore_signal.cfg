CONSTANTS
  NumTasks = 5
  Initial = 0
  Maximum = 2
  Pool = FALSE
SPECIFICATION FSpec
INVARIANTS
  NoLostWakeup
  SemaphoreInv
  UnitsConserved
PROPERTIES
  NobodyServedTwice
CHECK_DEADLOCK TRUE
