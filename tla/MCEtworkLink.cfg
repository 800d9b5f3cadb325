SPECIFICATION LiveSpec
CONSTANTS
  MaxMsgSize = 2
  QueueSize = 3
  MaxNumMessages = 2
  Radix = 3
  Junk = Junk
  NULL = NULL
  Client = Client
  Server = Server
  Sizes <- MostlyOneWaySizes
  PipeSize = 2
  Blocking = {Client}
  MaxWrites <- MostlyOneWayWrites
INVARIANTS
  StreamIntact
  DeliveredInOrder
CHECK_DEADLOCK FALSE
PROPERTIES
 CloseNoticed
 EveryWriteIsReadUnlessBackedUp
 IsConnection
