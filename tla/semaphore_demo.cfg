CONSTANTS
  NumTasks = 4
  Capacity = 2
SPECIFICATION DemoFairSpec
INVARIANTS
  NoPoolViolation
  WaitsForOneObject
PROPERTIES
  EveryoneGetsASlot
CHECK_DEADLOCK TRUE
