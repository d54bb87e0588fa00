SPECIFICATION FairSpec
CONSTANTS
  NumNodes = 3
  RootNode = 1
  MaxUserOps = 4
INVARIANTS
  DSInvariant
  NoDebtForgotten
  Responsible
  IndInv
PROPERTIES
  ImplementsTD
  TerminatesAndCleans
CHECK_DEADLOCK FALSE
