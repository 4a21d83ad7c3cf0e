\* The system stops when every connection allowed was made and closed.
SPECIFICATION Spec
CONSTANTS
  Worker = {w1}
  Amount = 1
  ConnMax = 2
  RequestMax = 1
  Polite = {FALSE}
  Crowded = FALSE
  FailMax = 0
  ACCEPT = ACCEPT
CHECK_DEADLOCK FALSE
PROPERTY SecondCheckSuffices
