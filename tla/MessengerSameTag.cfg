CONSTANTS
  Sender = {a, b}
  Receiver = {c}
  MaxMsgs = 2
  MaxTag = 2
  Chunks = 2
  None = None
SPECIFICATION Spec

PROPERTY ContinuationRuns
CHECK_DEADLOCK FALSE
