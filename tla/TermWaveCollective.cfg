SPECIFICATION Spec
CONSTANTS
  NumNodes = 4
  MaxWave = 2
  Rooted = FALSE
  RootNode = 0
  MaxUserOps = 2
INVARIANTS IndInv DetectionSafe ContinueInOrder CountsOfOneWave
PROPERTIES ImplementsTD
CHECK_DEADLOCK FALSE
