\* A refused push may leave workers asleep for ever.
SPECIFICATION Spec
CONSTANTS
  Worker = {w1, w2}
  Session = {s1}
  OpsMax = 3
  ASYNC_OPERATION_QUEUE_SIZE = 3
  SHUTDOWN = SHUTDOWN
  UNINIT = UNINIT
  NoOne = NoOne
CHECK_DEADLOCK FALSE
INVARIANTS
  SemaphoreCountsQueue
  NoUninitialisedComplete
  ShutdownNeverCompleted
  HandledOnce
PROPERTIES
  WorkersExit
  QueuedIsCompleted
