SPECIFICATION Spec
CONSTANTS
  c1 = c1
  Convs = {c1}
  MaxDispatches = 4
  MaxConcurrency = 2
  QueueCap = 3
  Threshold = 2
  SpawnFaults = {}
PROPERTY DequeuedAlone
