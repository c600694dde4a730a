SPECIFICATION Spec
CONSTANTS
  MaxDaemons = 4
  MaxCommands = 2
  MaxFaults = 1
INVARIANT Reachable
CHECK_DEADLOCK FALSE
