SPECIFICATION FairSpec
CONSTANTS
  MaxDaemons = 4
  MaxCommands = 2
  MaxFaults = 1
INVARIANT NeverZero
INVARIANT HeirIsKnown
PROPERTY OneRemains
CHECK_DEADLOCK FALSE
