SPECIFICATION Spec
CONSTANTS
  MaxMsgSize = 3
  QueueSize = 5
  MaxNumMessages = 2
  Radix = 3
  Junk = Junk
  NULL = NULL
  Sizes = {0, 3, 4}
  Rooms = {2, 3, 8}
  MaxFrames = 3
INVARIANT HalfMessagesReceived
CHECK_DEADLOCK FALSE
