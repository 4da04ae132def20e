CONSTANTS
  NumTasks = 3
  Capacity = 2
  Messages = {m1, m2}
  Garbage = garbage
  Senders = {1, 2}
  Receivers = {2}
SPECIFICATION QSpec
INVARIANTS
  QueueInv
  SlotsAccounted
  WaitsForAReason
PROPERTIES
  ImplementsFifo
CHECK_DEADLOCK TRUE
