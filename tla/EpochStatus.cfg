SPECIFICATION FairStatusSpec
CONSTANTS
  MaxRootedSeq = 4
  MaxRooted = 3
  MaxActions = 2
INVARIANTS StatusSound OneAnswer
PROPERTIES AllAnswered
CHECK_DEADLOCK FALSE
