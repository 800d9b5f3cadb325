SPECIFICATION BothSpec
CONSTANTS
  MaxMsgSize = 3
  QueueSize = 5
  MaxNumMessages = 2
  Radix = 3
  Junk = Junk
  NULL = NULL
  Sizes = {0, 3, 4}
  Rooms = {2, 3, 8}
  MaxFrames = 3
  N = 3
  Ids = {1, 2}
  Structs <- MCStructs
  Null = Null
INVARIANTS
  FramesFollowed
  OutputFramed
  NoNeedlessDrop
  OnePlace
  Complete
  StartupTells
PROPERTIES
  CallsReturn
  IsMessageQueue
  ResolvingReturns
\* When no more frames are sent, or after startup(), a behaviour may end.
CHECK_DEADLOCK FALSE
