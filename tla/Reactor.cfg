\* The system stops when every connection allowed was made and closed.
SPECIFICATION Spec
CONSTANTS
  Worker = {w1}
  Amount = 2
  ConnMax = 3
  RequestMax = 2
  Polite = {TRUE}
  Crowded = FALSE
  FailMax = 1
  ACCEPT = ACCEPT
CHECK_DEADLOCK FALSE
INVARIANTS
  TypeOK
  NoFault
  NoDanglingOperation
  NoDanglingMsg

  
  
