\* The system stops when MsgMax messages were sent, or when it is undefined.
SPECIFICATION Spec
CONSTANTS
  BUFFER_SIZE = 8
  MSG_COUNT_MAX = 2
  Size = {1, 3}
  MsgMax = 4
  WireMax = 5
  TwoWay = TRUE
CHECK_DEADLOCK FALSE
INVARIANTS
  TypeOK
  MessagesIntact
 
