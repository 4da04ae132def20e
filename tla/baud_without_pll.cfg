CONSTANTS
  LockTimeout = 3
  Clocks = {80000000}
  MaxResets = 0
SPECIFICATION StartupSpec
INVARIANTS
  BaudFollowsActiveClock
CHECK_DEADLOCK TRUE
