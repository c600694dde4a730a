SPECIFICATION FairSessionsSpec
CONSTANTS
  a = a
  b = b
  Conversations = {a, b}
  MaxEntries = 1
  MaxBegun = 3
  MaxFaults = 1
  MaxStops = 1
INVARIANT ResumesLast
PROPERTY SavesSettle
CHECK_DEADLOCK FALSE
