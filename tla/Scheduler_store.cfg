SPECIFICATION SchedulerSpec
CONSTANTS
  t1 = t1
  Tasks = {t1}
  StuckThreshold = 2
  MaxRuns = 3
  Ids = {1, 2}
  Given = {1}
  MaxText = 2
  MaxGen = 2
  MaxCalls = 2
  MaxFaults = 2
INVARIANT MarkCoversRun
INVARIANT AbortFindsDispatch
PROPERTY MarkReleased
INVARIANT JobsFollowTasks
INVARIANT CrashSafe
INVARIANT QuietAgrees
PROPERTY SavesSettle
CHECK_DEADLOCK FALSE
