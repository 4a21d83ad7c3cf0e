\* The run stops when the client has exited.
SPECIFICATION ClientSpec
CONSTANTS
  Worker = {w1, main}
  Main = main
  Amount = 1
  ConnMax = 2
  RequestMax = 2
  Polite = {TRUE, FALSE}
  Crowded = FALSE
  FailMax = 1
  ACCEPT = ACCEPT
CHECK_DEADLOCK FALSE
INVARIANTS
  
  ConnectRecvClose

  
