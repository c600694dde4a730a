SPECIFICATION Spec
CONSTANTS
  c1 = c1
  Conv = {c1}
  MaxMsgs = 3
  MaxAge = 5
  Heartbeat = 2
  MaxDispatch = 15
  MaxHung = 0
  MaxConcurrent = 2
  Capacity = 8
  Refill = 8
INVARIANT Sequential
