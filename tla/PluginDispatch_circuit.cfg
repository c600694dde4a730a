SPECIFICATION FairSpec
CONSTANTS
  d1 = d1
  d2 = d2
  d3 = d3
  d4 = d4
  p1 = p1
  p2 = p2
  Dispatches = {d1, d2, d3}
  Plugins = {p1, p2}
  Fallbacks <- OneFallback
  Thresholds = {1, 2}
  OnDispatchError = TRUE
INVARIANT ProbeHasOwner
PROPERTY NeverFrozen
CHECK_DEADLOCK FALSE
