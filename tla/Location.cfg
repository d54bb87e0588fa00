SPECIFICATION Spec
CONSTANTS
  n1 = n1
  n2 = n2
  n3 = n3
  Node = {n1, n2, n3}
  Home = n1
  Create = {n2}
  m1 = m1
  Msg = {m1}
  None = None
  MaxMoves = 3
  MaxEvictions = 2
INVARIANTS
  RecordsLead
PROPERTIES
  EagerAppliedAtEntity
  Chased
CHECK_DEADLOCK FALSE
