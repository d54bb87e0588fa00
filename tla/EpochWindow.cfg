SPECIFICATION Spec
CONSTANTS
  Node = {n1, n2}
  MaxSeq = 4
  MaxMade = 6
INVARIANTS WindowExact CollectiveAgree
CHECK_DEADLOCK FALSE
