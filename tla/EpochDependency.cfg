CONSTANTS
  Node = {n1, n2, n3}
  Epoch = {e1, e2, e3}
  DS = {e3}
  RootNode = n1
SPECIFICATION DepSpec
INVARIANTS UnitPerEdge PredecessorFirst
PROPERTY EveryEpochTerminates
CHECK_DEADLOCK FALSE
