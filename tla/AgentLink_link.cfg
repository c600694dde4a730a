SPECIFICATION FairSpec
CONSTANTS
  MaxRetries = 1
  QueueMax = 2
  DropCount = 1
  StreamMax = 1
  MaxRequests = 2
  MaxNotes = 1
INVARIANT OneAgent
INVARIANT RequestTracked
PROPERTY AgentComesBack
PROPERTY NoOrphan
CHECK_DEADLOCK FALSE
