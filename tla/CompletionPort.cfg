\* The system stops when every connection allowed was made and closed.
SPECIFICATION Spec
CONSTANTS
  Worker = {w1, w2}
  Amount = 1
  ConnMax = 2
  RequestMax = 2
CHECK_DEADLOCK FALSE
INVARIANTS
  OneRecv
  
  AcceptGoesOn

  
  
