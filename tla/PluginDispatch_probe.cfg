SPECIFICATION Spec
CONSTANTS
  d1 = d1
  d2 = d2
  d3 = d3
  d4 = d4
  p1 = p1
  p2 = p2
  Dispatches = {d1, d2, d3, d4}
  Plugins = {p1}
  Fallbacks <- NoFallbacks
  Thresholds = {1}
  OnDispatchError = FALSE
SYMMETRY DispatchSymmetry
INVARIANT OneProbe
CHECK_DEADLOCK FALSE
