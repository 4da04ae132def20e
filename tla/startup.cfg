CONSTANTS
  LockTimeout = 3
  Clocks = {80000000, 50000000, 40000000, 25000000, 20000000, 16000000, 12500000, 10000000, 8000000, 6250000, 5000000, 4000000, 3200000, 3125000}
  MaxResets = 2
SPECIFICATION StartupSpec
INVARIANTS
  ClockSafe
  NoSwitchDuringBoot
  NoBusFault
  RatesRight
  StartupInv
PROPERTIES
  BootCompletes
CHECK_DEADLOCK TRUE
