CONSTANTS
  NumTasks = 4
SPECIFICATION PFairSpec
INVARIANTS
  OwnerAgrees
  NoLostWakeup
  MutexInv
PROPERTIES
  NobodyPassesTwice
  LockReturns
CHECK_DEADLOCK TRUE
