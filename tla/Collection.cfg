CONSTANTS
  n1 = n1
  n2 = n2
  n3 = n3
  a = a
  b = b
  Node = {n1, n2, n3}
  Index = {a, b}
  Home <- MCHome
  Bnode = n1
  Initial = {a, b}
  Here <- MCHere
  Senders = {n1, n2}
  Prog <- MCProg
  MaxOps <- MCMaxOps
  MaxMoves = 2
SPECIFICATION Spec
INVARIANTS OneElement ChangesInPlace BroadcastOnce
