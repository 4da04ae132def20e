CONSTANTS
  NumTasks = 3
  SLICE = 2
  TickModulus = 8
  MaxSleep = 3
  RuntimeToggle = TRUE
  MaskedSleep = FALSE
SPECIFICATION TimingFairSpec
INVARIANTS
  ContextsSaved
  ExecutingIsRunning
  WakeupTickOnlyWhileSleeping
  SchedulerInv
  NeverEarly
  WokenOnTime
  NobodyOvertakesTwice
PROPERTIES
  ImplementsTaskLayer
  ReadyTasksRun
  SleepersWake
CHECK_DEADLOCK TRUE
