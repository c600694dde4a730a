---------------------------- MODULE SchedulerRuns ----------------------------
(***************************************************************************)
(* The runs of scheduled tasks: a cron tick or runNow marks the task in    *)
(* runningTasks, calls the daemon's task handler under a timeout, saves    *)
(* the statistics and takes the mark away.  A tick that meets a mark is    *)
(* skipped; after StuckThreshold skips in a row the mark is taken away and *)
(* the daemon's stuck-task handler aborts the dispatch it finds in         *)
(* schedulerConvIds.  The timeout ends the wait for a handler, not the     *)
(* handler.  Runs are numbered in the order in which they begin.           *)
(***************************************************************************)
EXTENDS Integers

CONSTANTS
  Tasks,
  StuckThreshold,   \* STUCK_TASK_SKIP_THRESHOLD
  MaxRuns           \* bound: runs that begin

ASSUME RunsAssumption == Tasks # {} /\ StuckThreshold \in Nat \ {0} /\ MaxRuns \in Nat

VARIABLES
  begun,       \* how many runs began
  task,        \* the task of a run
  wait,        \* the scheduler's side of a run
  handler,     \* the daemon's side of a run; "skipped" if a P2P dispatch ran
  aborted,     \* runs whose entry the stuck-task handler took
  running,     \* runningTasks
  skips,       \* consecutiveSkips
  convIds,     \* schedulerConvIds: the run whose conversation is entered, or 0
  forced       \* history: tasks that were force-aborted

vars == <<begun, task, wait, handler, aborted, running, skips, convIds, forced>>
Runs == 1..MaxRuns

TypeOK ==
  /\ begun \in 0..MaxRuns
  /\ task \in [Runs -> Tasks]
  /\ wait \in [Runs -> {"new", "waiting", "saving", "over"}]
  /\ handler \in [Runs -> {"new", "skipped", "reading", "dispatching", "ended"}]
  /\ aborted \in SUBSET Runs
  /\ running \in SUBSET Tasks
  /\ skips \in [Tasks -> 0..(StuckThreshold - 1)]
  /\ convIds \in [Tasks -> 0..MaxRuns]
  /\ forced \in SUBSET Tasks

Init ==
  /\ begun = 0 /\ aborted = {} /\ running = {} /\ forced = {}
  /\ task = [r \in Runs |-> CHOOSE t \in Tasks : TRUE]
  /\ wait = [r \in Runs |-> "new"] /\ handler = [r \in Runs |-> "new"]
  /\ skips = [t \in Tasks |-> 0] /\ convIds = [t \in Tasks |-> 0]

-----------------------------------------------------------------------------
Busy(r) == handler[r] \in {"reading", "dispatching"}

\* The handler is called before anything else happens: with a P2P dispatch in
\* progress it returns at once, otherwise it enters its conversation.
CallHandler(t, r) ==
  \/ /\ handler' = [handler EXCEPT ![r] = "skipped"]
     /\ wait' = [wait EXCEPT ![r] = "saving"]
     /\ UNCHANGED convIds
  \/ /\ handler' = [handler EXCEPT ![r] = "reading"]
     /\ wait' = [wait EXCEPT ![r] = "waiting"]
     /\ convIds' = [convIds EXCEPT ![t] = r]

Begin(t) ==
  LET r == begun + 1 IN
  /\ t \notin running /\ r \in Runs
  /\ begun' = r /\ task' = [task EXCEPT ![r] = t]
  /\ running' = running \cup {t}
  /\ CallHandler(t, r)

RunNow(t) == Begin(t) /\ UNCHANGED <<aborted, skips, forced>>

TickRuns(t) ==
  /\ Begin(t)
  /\ skips' = [skips EXCEPT ![t] = 0]
  /\ UNCHANGED <<aborted, forced>>

TickSkips(t) ==
  /\ t \in running /\ skips[t] + 1 < StuckThreshold
  /\ skips' = [skips EXCEPT ![t] = @ + 1]
  /\ UNCHANGED <<begun, task, wait, handler, aborted, running, convIds, forced>>

\* The mark goes first, then the stuck-task handler aborts the conversation it
\* finds: a dispatch that has not begun yet is not reached by that.
TickForceAborts(t) ==
  /\ t \in running /\ skips[t] + 1 >= StuckThreshold
  /\ running' = running \ {t} /\ forced' = forced \cup {t}
  /\ skips' = [skips EXCEPT ![t] = 0]
  /\ aborted' = aborted \cup ({convIds[t]} \ {0})
  /\ convIds' = [convIds EXCEPT ![t] = 0]
  /\ UNCHANGED <<begun, task, wait, handler>>

\* The handler has read the configuration and dispatches.
HandlerDispatches(r) ==
  /\ handler[r] = "reading"
  /\ handler' = [handler EXCEPT ![r] = "dispatching"]
  /\ UNCHANGED <<begun, task, wait, aborted, running, skips, convIds, forced>>

\* Mutant: the handler deletes the entry of its task, whoever made it.
HandlerEnds_AnyEntry(r) ==
  /\ handler[r] = "dispatching"
  /\ handler' = [handler EXCEPT ![r] = "ended"]
  /\ convIds' = [convIds EXCEPT ![task[r]] = 0]
  /\ wait' = IF wait[r] = "waiting" THEN [wait EXCEPT ![r] = "saving"] ELSE wait
  /\ UNCHANGED <<begun, task, aborted, running, skips, forced>>

\* The dispatch is over, by itself, by its timeout or by an abort.
HandlerEnds(r) ==
  /\ handler[r] = "dispatching"
  /\ handler' = [handler EXCEPT ![r] = "ended"]
  /\ convIds' = IF convIds[task[r]] = r THEN [convIds EXCEPT ![task[r]] = 0]
                                        ELSE convIds
  /\ wait' = IF wait[r] = "waiting" THEN [wait EXCEPT ![r] = "saving"] ELSE wait
  /\ UNCHANGED <<begun, task, aborted, running, skips, forced>>

\* Mutant: only a run that succeeds takes its mark away.
RunTimesOut_KeepsMark(r) ==
  /\ wait[r] = "waiting"
  /\ wait' = [wait EXCEPT ![r] = "over"]
  /\ UNCHANGED <<begun, task, handler, aborted, running, skips, convIds, forced>>

\* Mutant: the timeout covers the dispatch only.
RunTimesOut_DispatchOnly(r) ==
  /\ wait[r] = "waiting" /\ handler[r] = "dispatching"
  /\ wait' = [wait EXCEPT ![r] = "over"]
  /\ running' = running \ {task[r]}
  /\ UNCHANGED <<begun, task, handler, aborted, skips, convIds, forced>>

\* withTimeout rejects: the finally block takes the mark of the task away.
RunTimesOut(r) ==
  /\ wait[r] = "waiting"
  /\ wait' = [wait EXCEPT ![r] = "over"]
  /\ running' = running \ {task[r]}
  /\ UNCHANGED <<begun, task, handler, aborted, skips, convIds, forced>>

\* The save of the statistics has been answered, one way or the other.
StatsSaved(r) ==
  /\ wait[r] = "saving"
  /\ wait' = [wait EXCEPT ![r] = "over"]
  /\ running' = running \ {task[r]}
  /\ UNCHANGED <<begun, task, handler, aborted, skips, convIds, forced>>

Next ==
  \/ \E t \in Tasks : RunNow(t) \/ TickRuns(t) \/ TickSkips(t) \/ TickForceAborts(t)
  \/ \E r \in Runs : HandlerDispatches(r) \/ HandlerEnds(r) \/ RunTimesOut(r)
                     \/ StatsSaved(r)

Spec == Init /\ [][Next]_vars

\* Timers fire and saves are answered; a handler may hang for ever.
FairSpec == Spec /\ \A r \in Runs : WF_vars(RunTimesOut(r)) /\ WF_vars(StatsSaved(r))

-----------------------------------------------------------------------------
Open(r) == wait[r] \in {"waiting", "saving"}

\* The mark of runningTasks is there exactly while a run is under way, and one
\* run of a task is under way at a time; a task that was force-aborted once is
\* excused, for the end of the aborted run takes the mark of its successor.
MarkCoversRun ==
  \A t \in Tasks \ forced :
    /\ t \in running <=> \E r \in Runs : Open(r) /\ task[r] = t
    /\ \A r, q \in Runs : Open(r) /\ Open(q) /\ task[r] = t /\ task[q] = t => r = q

\* The stuck-task handler can find the last dispatch of a task: its entry in
\* schedulerConvIds stays until it ends or is aborted, whatever the handlers of
\* earlier runs, timed out or aborted, do meanwhile.
AbortFindsDispatch ==
  \A r \in Runs :
    (Busy(r) /\ r \notin aborted
       /\ \A q \in Runs : q > r /\ task[q] = task[r] => handler[q] \in {"new", "skipped"})
      => convIds[task[r]] = r

\* Every mark is taken away, even if the handler never returns.
MarkReleased == \A t \in Tasks : t \in running ~> t \notin running

\* runningTasks "prevent[s] overlapping runs" of a task's handler.
OneHandler ==
  \A r, q \in Runs : Busy(r) /\ Busy(q) /\ task[r] = task[q] => r = q
=============================================================================
