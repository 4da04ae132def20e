CONSTANTS
  NumTasks = 4
SPECIFICATION LedSpec
INVARIANTS
  EachTaskTogglesItsLed
CHECK_DEADLOCK TRUE
