SPECIFICATION FairStoreSpec
CONSTANTS
  MaxConvs = 2
  MaxMsgs = 2
  MaxEvents = 2
  BufferMax = 1
  DeleteMax = 1
INVARIANT TitleIsLast
INVARIANT GoneIsGone
PROPERTY EveryMessageSent
CHECK_DEADLOCK FALSE
