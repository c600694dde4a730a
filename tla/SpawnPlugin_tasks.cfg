SPECIFICATION FairSpec
CONSTANTS
  c1 = c1
  c2 = c2
  Convs = {c1, c2}
  MaxDispatches = 3
  MaxConcurrency = 1
  QueueCap = 2
  Threshold = 2
  SpawnFaults = {"failed", "threw"}
INVARIANT OneAtATime
INVARIANT VerdictsAgree
PROPERTY EveryoneAnswered
