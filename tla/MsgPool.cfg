SPECIFICATION Spec
CONSTANTS
  Worker = {w1}
  ALIGN = 8
  BYTES_MAX = 24
  FREE_LIST_ELEMENT_COUNT = 2
  MSG_COUNT_MAX = 3
  MSG_QUEUE_SIZE = 2
  Size = {17, 25}
INVARIANTS
  MsgsOnce
  DataDisjoint
  SemaphoreCovers
  LeakBounded
PROPERTIES
  QueuedIsHandled
  ShutdownEndsLoop
