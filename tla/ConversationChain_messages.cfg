SPECIFICATION FairSpec
CONSTANTS
  c1 = c1
  c2 = c2
  Conv = {c1, c2}
  MaxMsgs = 3
  MaxAge = 3
  Heartbeat = 2
  MaxDispatch = 8
  MaxHung = 1
  MaxConcurrent = 1
  Capacity = 2
  Refill = 1
INVARIANT OldestRunsAlone
PROPERTY ReapSparesBeatingDispatch
PROPERTY QueuedIsStarted
