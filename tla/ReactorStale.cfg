\* The system stops when every connection allowed was made and closed.
SPECIFICATION Spec
CONSTANTS
  Worker = {w1, w2}
  Amount = 2
  ConnMax = 2
  RequestMax = 1
  Polite = {TRUE}
  Crowded = FALSE
  FailMax = 0
  ACCEPT = ACCEPT
CHECK_DEADLOCK FALSE
INVARIANT NoFault
