SPECIFICATION Spec
CONSTANTS
  MaxDaemons = 4
  MaxCommands = 2
  MaxFaults = 1
PROPERTY ReadyIsSeen
CHECK_DEADLOCK FALSE
