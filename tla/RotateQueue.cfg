CONSTANTS
  Elem = {a, b}
  m_Capacity = 3
SPECIFICATION Spec
INVARIANT IndicesAgree
PROPERTY ImplementsFifo
