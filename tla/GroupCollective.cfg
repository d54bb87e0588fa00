CONSTANTS
  NumNodes = 11
  NumGroups = 1
  Votes = {{}, {0, 1, 2, 3, 4, 5, 6, 7, 8, 9, 10}, {2, 4, 5, 6, 7, 8, 9, 10}}
  Senders = {3}
SPECIFICATION Spec
INVARIANTS SpanningTree FinalizedOnce DeliveredOnce
PROPERTIES GroupBuilt BroadcastReaches
CHECK_DEADLOCK FALSE
