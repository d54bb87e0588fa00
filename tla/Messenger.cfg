CONSTANTS
  Sender = {a, b}
  Receiver = {c}
  MaxMsgs = 3
  MaxTag = 2
  Chunks = 2
  None = None
SPECIFICATION Spec
INVARIANTS PayloadOwn EpochHeld
PROPERTY RunOrDropped
CHECK_DEADLOCK FALSE
