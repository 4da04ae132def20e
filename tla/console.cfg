CONSTANTS
  NumTasks = 3
  FifoDepth = 2
  PrintedTicks = {0, 10}
SPECIFICATION ConsoleFairSpec
INVARIANTS
  NoMutexViolation
PROPERTIES
  LinesArrive
  UsesMutex
  EveryoneWrites
CHECK_DEADLOCK TRUE
