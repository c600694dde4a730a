SPECIFICATION FairOpenCodeSpec
CONSTANTS
  c1 = c1
  Convs = {c1}
  MaxDispatches = 3
  MaxConcurrency = 2
  QueueCap = 2
  MaxFaults = 2
  MaxAborts = 1
INVARIANT NoServerLost
PROPERTY EveryoneAnswered
CHECK_DEADLOCK FALSE
