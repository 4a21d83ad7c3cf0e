\* The run stops when every id has leaked, the iteration has ended or a session
\* was destroyed twice.
SPECIFICATION Spec
CONSTANTS
  Thread = {t1, t2, t3}
  Main = t1
  Amount = 2
  NULL = NULL
CHECK_DEADLOCK FALSE
INVARIANTS
  TypeOK
  IdsConserved
  SlotsOnce
  MapAgrees
  AllGivenBack
