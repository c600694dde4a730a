SPECIFICATION FairSpec
CONSTANTS
  MaxRetries = 1
  QueueMax = 2
  DropCount = 1
  StreamMax = 1
  MaxRequests = 0
  MaxNotes = 0
PROPERTY ExitFollowsError
CHECK_DEADLOCK FALSE
