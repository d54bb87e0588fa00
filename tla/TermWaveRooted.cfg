SPECIFICATION FairSpec
CONSTANTS
  NumNodes = 3
  MaxWave = 2
  Rooted = TRUE
  RootNode = 1
  MaxUserOps = 2
PROPERTIES ImplementsTD EveryNodeTold
CHECK_DEADLOCK FALSE
