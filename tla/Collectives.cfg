CONSTANTS
  NumNodes = 4
  k = k
  Named = {k}
  MaxUnnamed = 1
  Scope = {"s", "t"}
  Prog <- MCProg
  Stamp <- MCStamp
SPECIFICATION Spec
INVARIANTS BarrierSafe ReduceWhole SameOrder PhaseAligned
PROPERTY EveryCallReturns
CHECK_DEADLOCK FALSE
