CONSTANTS
  NumTasks = 3
  Capacity = 2
  Garbage = garbage
  Senders = {1}
  Receivers = {2}
  SequenceModulus = 4
  Messages <- DemoMessages
SPECIFICATION DemoFairSpec
INVARIANTS
  NoQueueErrors
  MessagesAccounted
  NoDeadlock
PROPERTIES
  EveryProducerHeard
CHECK_DEADLOCK TRUE
