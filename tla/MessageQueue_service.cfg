SPECIFICATION FairSpec
CONSTANTS
  MaxItems = 6
  MaxDepth = 3
  MaxAborts = 2
INVARIANT StaleIsSilent
PROPERTY IsFifoService
PROPERTY QueuedIsServed
