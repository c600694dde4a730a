-------------------------- MODULE Scheduler_proofs --------------------------
(***************************************************************************)
(* Proofs about the two halves of the scheduler.                           *)
(*                                                                         *)
(* Of SchedulerRuns: its type invariant, that a mark covers exactly one    *)
(* run of a task that was never force-aborted, and that the stuck-task     *)
(* handler finds the last dispatch of a task.                              *)
(*                                                                         *)
(* Of SchedulerStore: its type invariant and its three safety invariants,  *)
(* each from the ones before it.  JobsInv: a pending change finds the      *)
(* object and the job as it left them.  CrashInv: while no timeout and no  *)
(* CLI command interferes, what was promised is in memory, in the primary  *)
(* and in the draft of the save in flight.  QuietInv: the primary has what *)
(* was before every pending change, so a rollback restores agreement.      *)
(***************************************************************************)
EXTENDS SchedulerRuns, SchedulerStore, TLAPS

\* Runs that have not begun have neither side.
Unbegun == \A r \in Runs : r > begun => wait[r] = "new" /\ handler[r] = "new"

IInv == TypeOK /\ Unbegun /\ MarkCoversRun /\ AbortFindsDispatch

-----------------------------------------------------------------------------
LEMMA TypeInit == Init => TypeOK
<1> SUFFICES ASSUME Init PROVE TypeOK
  OBVIOUS
<1>1. (CHOOSE t \in Tasks : TRUE) \in Tasks
  BY RunsAssumption
<1>2. /\ begun \in 0..MaxRuns
      /\ skips \in [Tasks -> 0..(StuckThreshold - 1)]
      /\ convIds \in [Tasks -> 0..MaxRuns]
  BY RunsAssumption DEF Init
<1>3. task \in [Runs -> Tasks]
  <2>1. PICK u \in Tasks : u = CHOOSE t \in Tasks : TRUE
    BY <1>1
  <2>2. task = [r \in Runs |-> u]
    BY <2>1 DEF Init
  <2> QED BY <2>2
<1> QED
  BY <1>2, <1>3 DEF Init, TypeOK

\* What a run that begins does to the two sides, the marks and the entries.
LEMMA BeginTypes ==
  ASSUME TypeOK, NEW t \in Tasks, Begin(t)
  PROVE  /\ begun + 1 \in Runs /\ begun' = begun + 1
         /\ begun' \in 0..MaxRuns
         /\ task' \in [Runs -> Tasks]
         /\ wait' \in [Runs -> {"new", "waiting", "saving", "over"}]
         /\ handler' \in [Runs -> {"new", "skipped", "reading", "dispatching", "ended"}]
         /\ running' \in SUBSET Tasks
         /\ convIds' \in [Tasks -> 0..MaxRuns]
<1>1. begun + 1 \in Runs /\ begun' = begun + 1 /\ begun \in 0..MaxRuns
  BY DEF Begin, TypeOK
<1>2. begun' \in 0..MaxRuns /\ begun + 1 \in 0..MaxRuns
  BY <1>1, RunsAssumption DEF Runs
<1>3. task' \in [Runs -> Tasks] /\ running' \in SUBSET Tasks
  BY <1>1 DEF Begin, TypeOK
<1>4. CASE /\ handler' = [handler EXCEPT ![begun + 1] = "skipped"]
           /\ wait' = [wait EXCEPT ![begun + 1] = "saving"]
           /\ UNCHANGED convIds
  BY <1>1, <1>2, <1>3, <1>4 DEF TypeOK
<1>5. CASE /\ handler' = [handler EXCEPT ![begun + 1] = "reading"]
           /\ wait' = [wait EXCEPT ![begun + 1] = "waiting"]
           /\ convIds' = [convIds EXCEPT ![t] = begun + 1]
  BY <1>1, <1>2, <1>3, <1>5 DEF TypeOK
<1> QED
  BY <1>4, <1>5 DEF Begin, CallHandler

LEMMA TypeStep == TypeOK /\ [Next]_vars => TypeOK'
<1> SUFFICES ASSUME TypeOK, [Next]_vars PROVE TypeOK'
  OBVIOUS
<1>2. ASSUME NEW t \in Tasks, RunNow(t) PROVE TypeOK'
  <2>1. Begin(t) /\ UNCHANGED <<aborted, skips, forced>> BY <1>2 DEF RunNow
  <2> QED BY <2>1, BeginTypes DEF TypeOK
<1>3. ASSUME NEW t \in Tasks, TickRuns(t) PROVE TypeOK'
  <2>1. Begin(t) /\ UNCHANGED <<aborted, forced>> BY <1>3 DEF TickRuns
  <2>2. skips' \in [Tasks -> 0..(StuckThreshold - 1)]
    BY <1>3, RunsAssumption DEF TickRuns, TypeOK
  <2> QED BY <2>1, <2>2, BeginTypes DEF TypeOK
<1>4. ASSUME NEW t \in Tasks, TickSkips(t) PROVE TypeOK'
  <2>1. skips' \in [Tasks -> 0..(StuckThreshold - 1)]
    BY <1>4, RunsAssumption DEF TickSkips, TypeOK
  <2> QED BY <1>4, <2>1 DEF TickSkips, TypeOK
<1>5. ASSUME NEW t \in Tasks, TickForceAborts(t) PROVE TypeOK'
  <2>1. skips' \in [Tasks -> 0..(StuckThreshold - 1)]
    BY <1>5, RunsAssumption DEF TickForceAborts, TypeOK
  <2>2. convIds[t] \in 0..MaxRuns BY DEF TypeOK
  <2>3. aborted' \in SUBSET Runs
    <3>1. convIds[t] # 0 => convIds[t] \in Runs
      BY <2>2, RunsAssumption DEF Runs
    <3>2. {convIds[t]} \ {0} \subseteq Runs
      BY <3>1
    <3> QED BY <1>5, <3>2 DEF TickForceAborts, TypeOK
  <2>4. convIds' \in [Tasks -> 0..MaxRuns]
    BY <1>5, RunsAssumption DEF TickForceAborts, TypeOK
  <2> QED BY <1>5, <2>1, <2>3, <2>4 DEF TickForceAborts, TypeOK
<1>6. ASSUME NEW r \in Runs, HandlerDispatches(r) PROVE TypeOK'
  BY <1>6 DEF HandlerDispatches, TypeOK
<1>7. ASSUME NEW r \in Runs, HandlerEnds(r) PROVE TypeOK'
  <2>1. convIds' \in [Tasks -> 0..MaxRuns]
    BY <1>7, RunsAssumption DEF HandlerEnds, TypeOK
  <2> QED BY <1>7, <2>1 DEF HandlerEnds, TypeOK
<1>8. ASSUME NEW r \in Runs, RunTimesOut(r) PROVE TypeOK'
  BY <1>8 DEF RunTimesOut, TypeOK
<1>9. ASSUME NEW r \in Runs, StatsSaved(r) PROVE TypeOK'
  BY <1>9 DEF StatsSaved, TypeOK
<1>10. CASE UNCHANGED vars
  BY <1>10 DEF vars, TypeOK
<1> QED
  BY <1>2, <1>3, <1>4, <1>5, <1>6, <1>7, <1>8, <1>9, <1>10 DEF Next

\* The type invariant of SchedulerRuns.
THEOREM TypeCorrect == Spec => []TypeOK
<1>1. Init => TypeOK BY TypeInit
<1>2. TypeOK /\ [Next]_vars => TypeOK' BY TypeStep
<1> QED BY <1>1, <1>2, PTL DEF Spec

-----------------------------------------------------------------------------
\* A run that begins is a new one: its sides were not there, it is open now, it
\* is either skipped or entered, and the other runs and tasks keep what they had.
LEMMA BeginShape ==
  ASSUME TypeOK, Unbegun, NEW t \in Tasks, Begin(t), NEW b, b = begun + 1
  PROVE  /\ b \in Runs /\ begun' = b
         /\ wait[b] = "new" /\ handler[b] = "new"
         /\ task'[b] = t /\ wait'[b] \in {"waiting", "saving"}
         /\ \A r \in Runs \ {b} : /\ task'[r] = task[r] /\ wait'[r] = wait[r]
                                  /\ handler'[r] = handler[r]
         /\ \/ handler'[b] = "skipped" /\ convIds' = convIds
            \/ /\ handler'[b] = "reading" /\ convIds'[t] = b
               /\ \A u \in Tasks \ {t} : convIds'[u] = convIds[u]
<1>1. b \in Runs /\ begun' = b /\ begun \in Int
  BY RunsAssumption DEF Begin, TypeOK
<1>2. wait[b] = "new" /\ handler[b] = "new"
  BY <1>1 DEF Unbegun
<1>3. task' = [task EXCEPT ![b] = t]
  BY DEF Begin
<1>4. task'[b] = t /\ \A r \in Runs \ {b} : task'[r] = task[r]
  BY <1>1, <1>3 DEF TypeOK
<1>5. CASE /\ handler' = [handler EXCEPT ![b] = "skipped"]
           /\ wait' = [wait EXCEPT ![b] = "saving"]
           /\ UNCHANGED convIds
  BY <1>1, <1>2, <1>4, <1>5 DEF TypeOK
<1>6. CASE /\ handler' = [handler EXCEPT ![b] = "reading"]
           /\ wait' = [wait EXCEPT ![b] = "waiting"]
           /\ convIds' = [convIds EXCEPT ![t] = b]
  BY <1>1, <1>2, <1>4, <1>6 DEF TypeOK
<1> QED
  BY <1>5, <1>6 DEF Begin, CallHandler

LEMMA BeginKeepsUnbegun ==
  ASSUME TypeOK, Unbegun, NEW t \in Tasks, Begin(t)
  PROVE  Unbegun'
<1> DEFINE b == begun + 1
<1>1. begun \in Int /\ \A r \in Runs : r \in Int
  BY RunsAssumption DEF TypeOK, Runs
<1>2. /\ begun' = b
      /\ \A r \in Runs \ {b} : wait'[r] = wait[r] /\ handler'[r] = handler[r]
  BY BeginShape
<1>3. ASSUME NEW r \in Runs, r > b PROVE wait'[r] = "new" /\ handler'[r] = "new"
  BY <1>1, <1>2, <1>3 DEF Unbegun
<1> QED
  BY <1>2, <1>3 DEF Unbegun, Runs

LEMMA BeginKeepsMark ==
  ASSUME TypeOK, Unbegun, MarkCoversRun, NEW t \in Tasks, Begin(t), UNCHANGED forced
  PROVE  MarkCoversRun'
<1>b. PICK b : b = begun + 1
  OBVIOUS
<1>1. /\ b \in Runs /\ task'[b] = t /\ wait[b] = "new"
      /\ wait'[b] \in {"waiting", "saving"}
      /\ \A r \in Runs \ {b} : task'[r] = task[r] /\ wait'[r] = wait[r]
  BY <1>b, BeginShape
<1>2. t \notin running /\ running' = running \cup {t}
  BY DEF Begin
<1> SUFFICES ASSUME NEW u \in Tasks \ forced
             PROVE  /\ u \in running' <=> \E r \in Runs : Open(r)' /\ task'[r] = u
                    /\ \A r, q \in Runs : Open(r)' /\ Open(q)' /\ task'[r] = u
                                            /\ task'[q] = u => r = q
  BY DEF MarkCoversRun, Runs
<1>3. /\ u \in running <=> \E r \in Runs : Open(r) /\ task[r] = u
      /\ \A r, q \in Runs : Open(r) /\ Open(q) /\ task[r] = u /\ task[q] = u => r = q
  BY DEF MarkCoversRun
<1>4. CASE u = t
  <2>1. \A r \in Runs : ~(Open(r) /\ task[r] = t)
    BY <1>2, <1>3, <1>4
  <2>2. \A r \in Runs \ {b} : ~(Open(r)' /\ task'[r] = t)
    BY <1>1, <2>1 DEF Open
  <2>3. Open(b)' /\ task'[b] = t
    BY <1>1 DEF Open
  <2> QED BY <1>1, <1>2, <1>4, <2>2, <2>3
<1>5. CASE u # t
  <2>1. \A r \in Runs : (Open(r)' /\ task'[r] = u) <=> (Open(r) /\ task[r] = u)
    BY <1>1, <1>5 DEF Open
  <2> QED BY <1>2, <1>3, <1>5, <2>1
<1> QED BY <1>4, <1>5

LEMMA BeginKeepsEntry ==
  ASSUME TypeOK, Unbegun, AbortFindsDispatch, NEW t \in Tasks, Begin(t),
         UNCHANGED aborted
  PROVE  AbortFindsDispatch'
<1> DEFINE b == begun + 1
<1>1. /\ b \in Runs /\ task'[b] = t /\ handler[b] = "new"
      /\ \A r \in Runs \ {b} : task'[r] = task[r] /\ handler'[r] = handler[r]
  BY BeginShape
<1>2. \/ handler'[b] = "skipped" /\ convIds' = convIds
      \/ /\ handler'[b] = "reading" /\ convIds'[t] = b
         /\ \A u \in Tasks \ {t} : convIds'[u] = convIds[u]
  BY BeginShape
<1>3. begun \in Int /\ \A r \in Runs : r \in Int
  BY RunsAssumption DEF TypeOK, Runs
<1> SUFFICES ASSUME NEW r \in Runs, Busy(r)', r \notin aborted,
                    \A q \in Runs : q > r /\ task'[q] = task'[r]
                                      => handler'[q] \in {"new", "skipped"}
             PROVE  convIds'[task'[r]] = r
  BY DEF AbortFindsDispatch, Runs
<1>4. CASE r = b
  BY <1>1, <1>2, <1>4 DEF Busy
<1>5. CASE r # b
  <2>1. Busy(r) /\ task'[r] = task[r] /\ task[r] \in Tasks
    BY <1>1, <1>5 DEF Busy, TypeOK
  <2>2. b > r
    BY <1>3, <1>5, <2>1 DEF Unbegun, Busy
  <2>3. ASSUME NEW q \in Runs, q > r, task[q] = task[r]
        PROVE  handler[q] \in {"new", "skipped"}
    BY <1>1, <2>1, <2>3
  <2>4. convIds[task[r]] = r
    BY <2>1, <2>3 DEF AbortFindsDispatch
  <2>5. task[r] = t => handler'[b] = "skipped"
    BY <1>1, <1>2, <2>1, <2>2
  <2> QED BY <1>2, <2>1, <2>4, <2>5
<1> QED BY <1>4, <1>5

\* A run that is given up or saved takes the one mark of its task away.
LEMMA EndKeepsMark ==
  ASSUME TypeOK, MarkCoversRun, NEW e \in Runs, Open(e),
         wait' = [wait EXCEPT ![e] = "over"], running' = running \ {task[e]},
         UNCHANGED <<task, forced>>
  PROVE  MarkCoversRun'
<1>1. ~Open(e)' /\ \A r \in Runs \ {e} : Open(r)' <=> Open(r)
  BY DEF Open, TypeOK
<1> SUFFICES ASSUME NEW u \in Tasks \ forced
             PROVE  /\ u \in running' <=> \E r \in Runs : Open(r)' /\ task[r] = u
                    /\ \A r, q \in Runs : Open(r)' /\ Open(q)' /\ task[r] = u
                                            /\ task[q] = u => r = q
  BY DEF MarkCoversRun, Runs
<1>2. /\ u \in running <=> \E r \in Runs : Open(r) /\ task[r] = u
      /\ \A r, q \in Runs : Open(r) /\ Open(q) /\ task[r] = u /\ task[q] = u => r = q
  BY DEF MarkCoversRun
<1>3. CASE u = task[e]
  <2>1. ASSUME NEW r \in Runs, Open(r)', task[r] = u PROVE FALSE
    <3>1. r # e BY <1>1, <2>1
    <3>2. Open(r) BY <1>1, <2>1, <3>1
    <3> QED BY <1>2, <1>3, <2>1, <3>1, <3>2
  <2>2. u \notin running' BY <1>3
  <2> QED BY <2>1, <2>2
<1>4. CASE u # task[e]
  <2>1. \A r \in Runs : (Open(r)' /\ task[r] = u) <=> (Open(r) /\ task[r] = u)
    BY <1>1, <1>4
  <2> QED BY <1>2, <1>4, <2>1
<1> QED BY <1>3, <1>4

LEMMA EndsKeepEntry ==
  ASSUME TypeOK, AbortFindsDispatch, NEW e \in Runs, HandlerEnds(e)
  PROVE  AbortFindsDispatch'
<1>1. /\ handler'[e] = "ended" /\ UNCHANGED <<task, aborted>>
      /\ \A r \in Runs \ {e} : handler'[r] = handler[r]
  BY DEF HandlerEnds, TypeOK
<1>2. \A u \in Tasks : convIds[u] # e => convIds'[u] = convIds[u]
  BY DEF HandlerEnds, TypeOK
<1> SUFFICES ASSUME NEW r \in Runs, Busy(r)', r \notin aborted,
                    \A q \in Runs : q > r /\ task[q] = task[r]
                                      => handler'[q] \in {"new", "skipped"}
             PROVE  convIds'[task[r]] = r
  BY <1>1 DEF AbortFindsDispatch, Runs
<1>3. r # e /\ Busy(r) /\ task[r] \in Tasks
  BY <1>1 DEF Busy, TypeOK
<1>4. ASSUME NEW q \in Runs, q > r, task[q] = task[r]
      PROVE  handler[q] \in {"new", "skipped"}
  BY <1>1, <1>4
<1>5. convIds[task[r]] = r
  BY <1>3, <1>4 DEF AbortFindsDispatch
<1> QED BY <1>2, <1>3, <1>5

LEMMA AbortKeepsEntry ==
  ASSUME TypeOK, AbortFindsDispatch, NEW t \in Tasks, TickForceAborts(t)
  PROVE  AbortFindsDispatch'
<1>1. UNCHANGED <<task, handler>> /\ aborted' = aborted \cup ({convIds[t]} \ {0})
  BY DEF TickForceAborts
<1>2. \A u \in Tasks \ {t} : convIds'[u] = convIds[u]
  BY DEF TickForceAborts, TypeOK
<1> SUFFICES ASSUME NEW r \in Runs, Busy(r), r \notin aborted',
                    \A q \in Runs : q > r /\ task[q] = task[r]
                                      => handler[q] \in {"new", "skipped"}
             PROVE  convIds'[task[r]] = r
  BY <1>1 DEF AbortFindsDispatch, Runs, Busy
<1>3. convIds[task[r]] = r
  BY <1>1 DEF AbortFindsDispatch
<1>4. task[r] # t
  <2>1. r # 0
    BY RunsAssumption DEF Runs
  <2> QED BY <1>1, <1>3, <2>1
<1>5. task[r] \in Tasks
  BY DEF TypeOK
<1> QED BY <1>2, <1>3, <1>4, <1>5

LEMMA InvStep == IInv /\ [Next]_vars => IInv'
<1> SUFFICES ASSUME TypeOK, Unbegun, MarkCoversRun, AbortFindsDispatch, [Next]_vars
             PROVE  Unbegun' /\ MarkCoversRun' /\ AbortFindsDispatch'
  BY TypeStep DEF IInv
<1>1. ASSUME NEW t \in Tasks, RunNow(t) \/ TickRuns(t)
      PROVE  Unbegun' /\ MarkCoversRun' /\ AbortFindsDispatch'
  <2>1. Begin(t) /\ UNCHANGED <<aborted, forced>>
    BY <1>1 DEF RunNow, TickRuns
  <2> QED BY <2>1, BeginKeepsUnbegun, BeginKeepsMark, BeginKeepsEntry
<1>2. ASSUME NEW t \in Tasks, TickSkips(t)
      PROVE  Unbegun' /\ MarkCoversRun' /\ AbortFindsDispatch'
  BY <1>2 DEF TickSkips, Unbegun, MarkCoversRun, AbortFindsDispatch, Open, Busy
<1>3. ASSUME NEW t \in Tasks, TickForceAborts(t)
      PROVE  Unbegun' /\ MarkCoversRun' /\ AbortFindsDispatch'
  <2>1. Unbegun'
    BY <1>3 DEF TickForceAborts, Unbegun
  <2>2. MarkCoversRun'
    BY <1>3 DEF TickForceAborts, MarkCoversRun, Open
  <2> QED BY <1>3, <2>1, <2>2, AbortKeepsEntry
<1>4. ASSUME NEW r \in Runs, HandlerDispatches(r)
      PROVE  Unbegun' /\ MarkCoversRun' /\ AbortFindsDispatch'
  <2>1. /\ UNCHANGED <<begun, task, wait, aborted, running, convIds, forced>>
        /\ handler[r] = "reading" /\ handler'[r] = "dispatching"
        /\ \A q \in Runs \ {r} : handler'[q] = handler[q]
    BY <1>4 DEF HandlerDispatches, TypeOK
  <2>2. \A q \in Runs : /\ Busy(q)' <=> Busy(q)
                        /\ handler'[q] \in {"new", "skipped"}
                             <=> handler[q] \in {"new", "skipped"}
    BY <2>1 DEF Busy
  <2>3. Unbegun'
    BY <2>1 DEF Unbegun
  <2>4. MarkCoversRun'
    BY <2>1 DEF MarkCoversRun, Open
  <2>5. AbortFindsDispatch'
    BY <2>1, <2>2 DEF AbortFindsDispatch
  <2> QED BY <2>3, <2>4, <2>5
<1>5. ASSUME NEW r \in Runs, HandlerEnds(r)
      PROVE  Unbegun' /\ MarkCoversRun' /\ AbortFindsDispatch'
  <2>1. /\ UNCHANGED <<begun, task, running, forced>>
        /\ handler[r] = "dispatching"
        /\ \A q \in Runs \ {r} : handler'[q] = handler[q] /\ wait'[q] = wait[q]
        /\ wait'[r] = IF wait[r] = "waiting" THEN "saving" ELSE wait[r]
    BY <1>5 DEF HandlerEnds, TypeOK
  <2>2. Unbegun'
    BY <2>1 DEF Unbegun
  <2>3. \A q \in Runs : Open(q)' <=> Open(q)
    BY <2>1 DEF Open
  <2>4. MarkCoversRun'
    BY <2>1, <2>3 DEF MarkCoversRun
  <2> QED BY <1>5, <2>2, <2>4, EndsKeepEntry
<1>6. ASSUME NEW r \in Runs, RunTimesOut(r) \/ StatsSaved(r)
      PROVE  Unbegun' /\ MarkCoversRun' /\ AbortFindsDispatch'
  <2>1. /\ Open(r) /\ wait' = [wait EXCEPT ![r] = "over"]
        /\ running' = running \ {task[r]}
        /\ UNCHANGED <<begun, task, handler, aborted, convIds, forced>>
    BY <1>6 DEF RunTimesOut, StatsSaved, Open
  <2>2. Unbegun'
    BY <2>1 DEF Unbegun, TypeOK, Open
  <2>3. AbortFindsDispatch'
    BY <2>1 DEF AbortFindsDispatch, Busy
  <2> QED BY <2>1, <2>2, <2>3, EndKeepsMark
<1>7. CASE UNCHANGED vars
  BY <1>7 DEF vars, Unbegun, MarkCoversRun, AbortFindsDispatch, Open, Busy
<1> QED
  BY <1>1, <1>2, <1>3, <1>4, <1>5, <1>6, <1>7 DEF Next

LEMMA InvInit == Init => IInv
<1> SUFFICES ASSUME Init PROVE Unbegun /\ MarkCoversRun /\ AbortFindsDispatch
  BY TypeInit DEF IInv
<1> QED BY DEF Init, Unbegun, MarkCoversRun, AbortFindsDispatch, Open, Busy

LEMMA InvCorrect == Spec => []IInv
<1>1. Init => IInv BY InvInit
<1>2. IInv /\ [Next]_vars => IInv' BY InvStep
<1> QED BY <1>1, <1>2, PTL DEF Spec

\* A mark of runningTasks stands for the one run of its task that is under way,
\* unless the task was force-aborted.
THEOREM MarkCorrect == Spec => []MarkCoversRun
<1>1. IInv => MarkCoversRun BY DEF IInv
<1> QED BY <1>1, InvCorrect, PTL

\* schedulerConvIds leads the stuck-task handler to the last dispatch of a task.
THEOREM EntryCorrect == Spec => []AbortFindsDispatch
<1>1. IInv => AbortFindsDispatch BY DEF IInv
<1> QED BY <1>1, InvCorrect, PTL

-----------------------------------------------------------------------------
(* The types of SchedulerStore.                                            *)

ChangeWF(r) == r.op \in Changes => r.gen \in Gens /\ (r.op = "update" => r.was \in Texts)

\* What a rollback will need is in the request.
RequestsWF == \A k \in 1..Len(queue) : ChangeWF(queue[k])

TypeProc  == proc \in {"down", "loading", "up"} /\ fresh \in SUBSET Ids
TypeMem   == /\ gens \in [Ids -> 0..MaxGen] /\ rec \in [Ids -> [Gens -> Rec]]
             /\ tasks \in [Ids -> 0..MaxGen] /\ jobs \in [Ids -> 0..MaxGen]
TypeQueue == queue \in Seq(Request) /\ RequestsWF
             /\ (save.awaited => save.step # "none" /\ queue # <<>>)
TypeDisk  == /\ save \in Save /\ skipped \in BOOLEAN
             /\ files \in [{"tmp", "primary", "backup"} -> File]
             /\ late \in [1..MaxFaults -> LateOp]
TypeOuter == reload \in File /\ cli \in Cli
TypeCount == calls \in 0..MaxCalls /\ faults \in 0..MaxFaults
TypeMarks == /\ promised \in [Ids -> Rec \cup {Gone, Any}] /\ tangled \in SUBSET Ids
             /\ overlapped \in BOOLEAN /\ disturbed \in BOOLEAN /\ unsaved \in BOOLEAN

StoreTypes == TypeProc /\ TypeMem /\ TypeQueue /\ TypeDisk /\ TypeOuter /\ TypeCount
              /\ TypeMarks

LEMMA Bounds ==
  /\ 0 \in 0..MaxGen /\ 1 \in Gens /\ Gens \subseteq 0..MaxGen
  /\ \A g \in 0..MaxGen : g # 0 <=> g \in Gens
  /\ 1 \in Texts /\ Texts \subseteq 0..MaxText /\ 0 \in 0..MaxText
  /\ Given \subseteq Ids /\ (CHOOSE i \in Ids : TRUE) \in Ids
  BY StoreAssumption DEF Gens, Texts

LEMMA DataTypes ==
  /\ Unused \in Rec /\ Gone \notin Rec /\ Any \notin Rec /\ Gone # Any
  /\ NoTasks \in Content /\ Absent \in File /\ Partial \in File
  /\ \A c \in Content : Json(c) \in File
  /\ None \in [Ids -> 0..MaxGen] /\ Blank \in [Ids -> [Gens -> Rec]]
  /\ NoSave \in Save /\ NoOp \in LateOp /\ CliIdle \in Cli
<1> USE Bounds
<1>1. Unused \in Rec /\ Gone \notin Rec /\ Any \notin Rec /\ Gone # Any
  BY StoreAssumption DEF Unused, Rec, Gone, Any, Texts
<1>2. NoTasks \in Content
  BY DEF NoTasks, Content
<1>3. Absent \in File /\ Partial \in File /\ \A c \in Content : Json(c) \in File
  BY <1>2 DEF Absent, Partial, Json, File
<1>4. None \in [Ids -> 0..MaxGen] /\ Blank \in [Ids -> [Gens -> Rec]]
  BY <1>1 DEF None, Blank
<1>5. NoSave \in Save
  BY <1>2, <1>3 DEF NoSave, Save, Places
<1>6. NoOp \in LateOp
  BY <1>3 DEF NoOp, LateOp, Places
<1>7. CliIdle \in Cli
  BY <1>2 DEF CliIdle, Cli, Places
<1> QED BY <1>1, <1>2, <1>3, <1>4, <1>5, <1>6, <1>7

LEMMA NobodyIs ==
  ASSUME NEW op \in {"stats", "followup", "repair"}
  PROVE  Nobody(op) \in Request /\ Nobody(op).op = op /\ op \notin Changes
  BY Bounds DEF Nobody, Request, Changes

\* The queue after a request joined it, and after its head was answered.
LEMMA Joined ==
  ASSUME NEW q \in Seq(Request), NEW r \in Request
  PROVE  /\ Append(q, r) \in Seq(Request) /\ Append(q, r) # <<>>
         /\ Len(Append(q, r)) = Len(q) + 1 /\ Len(q) \in Nat
         /\ Append(q, r)[Len(q) + 1] = r
         /\ \A k \in 1..Len(q) : Append(q, r)[k] = q[k]
  OBVIOUS

LEMMA Answered ==
  ASSUME NEW q \in Seq(Request), q # <<>>
  PROVE  /\ Head(q) \in Request /\ Head(q) = q[1] /\ 1 \in 1..Len(q)
         /\ Tail(q) \in Seq(Request) /\ Len(q) \in Nat
         /\ Len(Tail(q)) = Len(q) - 1
         /\ \A k \in 1..(Len(q) - 1) : Tail(q)[k] = q[k + 1] /\ k + 1 \in 1..Len(q)
  OBVIOUS

LEMMA StoreTypesMean == StoreTypes <=> StoreTypeOK /\ RequestsWF
  BY DEF StoreTypes, StoreTypeOK, TypeProc, TypeMem, TypeQueue, TypeDisk, TypeOuter,
         TypeCount, TypeMarks

LEMMA StoreTypeInit == StoreInit => StoreTypes
<1> SUFFICES ASSUME StoreInit PROVE StoreTypes
  OBVIOUS
<1> USE Bounds, DataTypes DEF StoreInit
<1>1. PICK e \in [Given -> BOOLEAN] :
        promised = [i \in Ids |-> IF i \in Given THEN [on |-> e[i], text |-> 1] ELSE Gone]
  OBVIOUS
<1>2. promised \in [Ids -> Rec \cup {Gone}]
  <2>1. \A i \in Given : [on |-> e[i], text |-> 1] \in Rec
    BY DEF Rec
  <2> QED BY <1>1, <2>1
<1>3. files \in [{"tmp", "primary", "backup"} -> File]
  <2>1. Json(promised) \in File
    BY <1>2 DEF Content
  <2> QED BY <2>1
<1>4. queue \in Seq(Request) /\ RequestsWF /\ ~save.awaited
  BY DEF RequestsWF, NoSave
<1>5. late \in [1..MaxFaults -> LateOp]
  OBVIOUS
<1>6. calls \in 0..MaxCalls /\ faults \in 0..MaxFaults
  BY StoreAssumption
<1>7. TypeProc /\ TypeMem /\ TypeOuter /\ TypeMarks
  BY <1>2 DEF TypeProc, TypeMem, TypeOuter, TypeMarks
<1> QED
  BY <1>3, <1>4, <1>5, <1>6, <1>7 DEF StoreTypes, TypeQueue, TypeDisk, TypeCount

LEMMA UndoTypes ==
  ASSUME TypeMem, NEW r \in Request, ChangeWF(r), Undo(r)
  PROVE  /\ rec' \in [Ids -> [Gens -> Rec]]
         /\ tasks' \in [Ids -> 0..MaxGen] /\ jobs' \in [Ids -> 0..MaxGen]
<1> USE Bounds DEF TypeMem
<1>1. r.id \in Ids /\ r.gen \in 0..MaxGen /\ r.cron \in BOOLEAN
  BY DEF Request
<1>2. CASE r.op = "schedule"
  <2>1. /\ tasks' = [tasks EXCEPT ![r.id] = 0] /\ jobs' = [jobs EXCEPT ![r.id] = 0]
        /\ UNCHANGED rec
    BY <1>2 DEF Undo
  <2> QED BY <1>1, <2>1
<1>3. CASE r.op = "remove"
  <2>1. /\ tasks' = [tasks EXCEPT ![r.id] = r.gen]
        /\ jobs' \in {jobs, [jobs EXCEPT ![r.id] = r.gen]}
        /\ UNCHANGED rec
    BY <1>3 DEF Undo
  <2> QED BY <1>1, <2>1
<1>4. CASE r.op \in {"enable", "disable", "update"}
  <2>1. r.gen \in Gens /\ rec[r.id][r.gen] \in Rec
    BY <1>1, <1>4 DEF ChangeWF, Changes
  <2>2. \A b \in BOOLEAN, t \in Texts :
          /\ [rec[r.id][r.gen] EXCEPT !.on = b] \in Rec
          /\ [rec[r.id][r.gen] EXCEPT !.text = t] \in Rec
    BY <2>1 DEF Rec
  <2>3. \A f \in Rec : [rec EXCEPT ![r.id] = [rec[r.id] EXCEPT ![r.gen] = f]]
                        \in [Ids -> [Gens -> Rec]]
    BY <1>1, <2>1
  <2>4. CASE r.op = "enable"
    <3>1. /\ rec' = [rec EXCEPT ![r.id] = [rec[r.id] EXCEPT ![r.gen] =
                       [rec[r.id][r.gen] EXCEPT !.on = FALSE]]]
          /\ jobs' = [jobs EXCEPT ![r.id] = 0] /\ UNCHANGED tasks
      BY <1>1, <2>1, <2>4 DEF Undo
    <3> QED BY <1>1, <2>2, <2>3, <3>1
  <2>5. CASE r.op = "disable"
    <3>1. /\ rec' = [rec EXCEPT ![r.id] = [rec[r.id] EXCEPT ![r.gen] =
                       [rec[r.id][r.gen] EXCEPT !.on = TRUE]]]
          /\ jobs' = [jobs EXCEPT ![r.id] = r.gen] /\ UNCHANGED tasks
      BY <1>1, <2>1, <2>5 DEF Undo
    <3> QED BY <1>1, <2>2, <2>3, <3>1
  <2>6. CASE r.op = "update"
    <3>1. r.was \in Texts
      BY <2>6 DEF ChangeWF, Changes
    <3>2. /\ rec' = [rec EXCEPT ![r.id] = [rec[r.id] EXCEPT ![r.gen] =
                       [rec[r.id][r.gen] EXCEPT !.text = r.was]]]
          /\ jobs' \in {jobs, [jobs EXCEPT ![r.id] = r.gen]} /\ UNCHANGED tasks
      BY <1>1, <2>1, <2>6 DEF Undo
    <3> QED BY <1>1, <2>2, <2>3, <3>1, <3>2
  <2> QED BY <1>4, <2>4, <2>5, <2>6
<1>5. CASE r.op \in {"stats", "followup", "repair"}
  BY <1>1, <1>5 DEF Undo
<1> QED BY <1>2, <1>3, <1>4, <1>5 DEF Request, Changes

\* The answer to the head of the queue, whichever it is.
LEMMA AnswerTypes ==
  ASSUME StoreTypes, NEW r \in Request, ChangeWF(r), Resolve(r) \/ Reject(r)
  PROVE  /\ proc' \in {"down", "loading", "up"}
         /\ rec' \in [Ids -> [Gens -> Rec]]
         /\ tasks' \in [Ids -> 0..MaxGen] /\ jobs' \in [Ids -> 0..MaxGen]
         /\ promised' \in [Ids -> Rec \cup {Gone, Any}]
<1> USE Bounds DEF StoreTypes, TypeMem, TypeProc, TypeMarks
<1>1. r.id \in Ids /\ r.new \in Rec \cup {Gone}
  BY DEF Request
<1>2. promised' \in [Ids -> Rec \cup {Gone, Any}]
  BY <1>1 DEF Resolve, Reject
<1>3. CASE Repaired
  <2>1. jobs' \in [Ids -> 0..MaxGen]
    BY <1>3 DEF Repaired, JobsOf
  <2> QED BY <1>2, <1>3, <2>1 DEF Repaired
<1>4. CASE UNCHANGED <<proc, tasks, jobs, rec>>
  BY <1>2, <1>4
<1>5. CASE Undo(r) /\ UNCHANGED proc
  BY <1>2, <1>5, UndoTypes
<1> QED BY <1>3, <1>4, <1>5 DEF Resolve, Reject

\* The queue when its head has left it and, perhaps, a follow-up has joined.
LEMMA LeftTypes ==
  ASSUME StoreTypes, queue # <<>>,
         queue' = Tail(queue) \/ queue' = Append(Tail(queue), Nobody("followup"))
  PROVE  queue' \in Seq(Request) /\ RequestsWF' /\ ChangeWF(Head(queue))
         /\ Head(queue) \in Request
<1>1. /\ queue \in Seq(Request) /\ \A k \in 1..Len(queue) : ChangeWF(queue[k])
      /\ Len(queue) \in Nat
  BY DEF StoreTypes, TypeQueue, RequestsWF
<1>2. /\ Head(queue) \in Request /\ Head(queue) = queue[1] /\ 1 \in 1..Len(queue)
      /\ Tail(queue) \in Seq(Request) /\ Len(Tail(queue)) = Len(queue) - 1
      /\ \A k \in 1..(Len(queue) - 1) : Tail(queue)[k] = queue[k + 1]
                                        /\ k + 1 \in 1..Len(queue)
  BY <1>1, Answered
<1>3. \A k \in 1..(Len(queue) - 1) : ChangeWF(Tail(queue)[k])
  BY <1>1, <1>2
<1>4. Nobody("followup") \in Request /\ ChangeWF(Nobody("followup"))
  BY NobodyIs DEF ChangeWF
<1>5. CASE queue' = Tail(queue)
  BY <1>1, <1>2, <1>3, <1>5 DEF RequestsWF
<1>6. CASE queue' = Append(Tail(queue), Nobody("followup"))
  <2>1. /\ queue' \in Seq(Request) /\ Len(queue') = Len(queue)
        /\ queue'[Len(queue)] = Nobody("followup")
        /\ \A k \in 1..(Len(queue) - 1) : queue'[k] = Tail(queue)[k]
    BY <1>1, <1>2, <1>4, <1>6, Joined
  <2>2. \A k \in 1..Len(queue) : k \in 1..(Len(queue) - 1) \/ k = Len(queue)
    BY <1>1
  <2> QED BY <1>1, <1>2, <1>3, <1>4, <2>1, <2>2 DEF RequestsWF
<1> QED BY <1>1, <1>2, <1>5, <1>6

LEMMA JoinTypes ==
  ASSUME StoreTypes, NEW r \in Request, ChangeWF(r), queue' = Append(queue, r)
  PROVE  queue' \in Seq(Request) /\ RequestsWF' /\ queue' # <<>>
<1>1. /\ queue \in Seq(Request) /\ \A k \in 1..Len(queue) : ChangeWF(queue[k])
  BY DEF StoreTypes, TypeQueue, RequestsWF
<1>2. /\ queue' \in Seq(Request) /\ Len(queue') = Len(queue) + 1 /\ Len(queue) \in Nat
      /\ queue'[Len(queue) + 1] = r /\ queue' # <<>>
      /\ \A k \in 1..Len(queue) : queue'[k] = queue[k]
  BY <1>1, Joined
<1>3. \A k \in 1..(Len(queue) + 1) : k \in 1..Len(queue) \/ k = Len(queue) + 1
  BY <1>2
<1> QED BY <1>1, <1>2, <1>3 DEF RequestsWF

\* The end of a doSave: awaited, it answers the head of the queue.
LEMMA EndTypes ==
  ASSUME StoreTypes, SaveSucceeds \/ SaveFails
  PROVE  /\ save' = NoSave /\ skipped' = FALSE /\ TypeQueue'
         /\ proc' \in {"down", "loading", "up"}
         /\ rec' \in [Ids -> [Gens -> Rec]]
         /\ tasks' \in [Ids -> 0..MaxGen] /\ jobs' \in [Ids -> 0..MaxGen]
         /\ promised' \in [Ids -> Rec \cup {Gone, Any}]
<1>1. save' = NoSave /\ skipped' = FALSE
  BY DEF SaveSucceeds, SaveFails, Ended
<1>2. save.awaited \in BOOLEAN /\ (save.awaited => queue # <<>>) /\ ~NoSave.awaited
  BY DEF StoreTypes, TypeDisk, TypeQueue, Save, NoSave
<1>3. CASE save.awaited
  <2>1. /\ queue # <<>>
        /\ Resolve(Head(queue)) \/ Reject(Head(queue))
        /\ queue' = Tail(queue) \/ queue' = Append(Tail(queue), Nobody("followup"))
    BY <1>2, <1>3 DEF SaveSucceeds, SaveFails, Ended
  <2>2. /\ queue' \in Seq(Request) /\ RequestsWF' /\ ChangeWF(Head(queue))
        /\ Head(queue) \in Request
    BY <1>2, <1>3, <2>1, LeftTypes
  <2> QED BY <1>1, <1>2, <2>1, <2>2, AnswerTypes DEF TypeQueue
<1>4. CASE ~save.awaited
  <2>1. /\ UNCHANGED <<proc, tasks, jobs, rec, promised>>
        /\ queue' = queue \/ queue' = Append(queue, Nobody("followup"))
    BY <1>4 DEF SaveSucceeds, SaveFails, Ended
  <2>2. Nobody("followup") \in Request /\ ChangeWF(Nobody("followup"))
    BY NobodyIs DEF ChangeWF
  <2>3. queue' \in Seq(Request) /\ RequestsWF'
    BY <2>1, <2>2, JoinTypes DEF StoreTypes, TypeQueue, RequestsWF
  <2> QED BY <1>1, <1>2, <2>1, <2>3 DEF StoreTypes, TypeQueue, TypeProc, TypeMem, TypeMarks
<1> QED BY <1>2, <1>3, <1>4

LEMMA CallTypes ==
  ASSUME StoreTypes, NEW op \in Changes, NEW i \in Ids, NEW g \in Gens,
         NEW was \in 0..MaxText, NEW cron \in BOOLEAN, NEW new \in Rec \cup {Gone},
         op = "update" => was \in Texts, Call(op, i, g, was, cron, new)
  PROVE  /\ TypeQueue' /\ TypeDisk' /\ TypeOuter' /\ TypeCount' /\ TypeMarks'
         /\ UNCHANGED proc
<1> USE DEF StoreTypes
<1> DEFINE r == [op |-> op, id |-> i, gen |-> g, was |-> was, cron |-> cron, new |-> new]
<1>1. r \in Request /\ ChangeWF(r)
  BY Bounds DEF Request, ChangeWF
<1>2. queue' = Append(queue, r) /\ UNCHANGED <<proc, disk, outer, faults, disturbed, unsaved>>
  BY DEF Call, SaveTasks
<1>3. queue' \in Seq(Request) /\ RequestsWF' /\ queue' # <<>>
  <2> HIDE DEF r
  <2> QED BY <1>1, <1>2, JoinTypes
<1>4. TypeQueue' /\ TypeDisk' /\ TypeOuter'
  BY <1>2, <1>3 DEF TypeQueue, TypeDisk, TypeOuter, disk, outer
<1>5. TypeCount'
  BY <1>2, StoreAssumption DEF TypeCount, Call
<1>6. TypeMarks'
  <2>1. promised' \in [Ids -> Rec \cup {Gone, Any}]
    BY DEF Call, TypeMarks
  <2>2. tangled' \in SUBSET Ids /\ overlapped' \in BOOLEAN
    BY DEF Call, TypeMarks
  <2> QED BY <1>2, <2>1, <2>2 DEF TypeMarks
<1> QED BY <1>2, <1>4, <1>5, <1>6

LEMMA ScheduleTypes ==
  ASSUME StoreTypes, NEW i \in Ids, Schedule(i) PROVE StoreTypes'
<1> USE Bounds DEF StoreTypes
<1> DEFINE g == gens[i] + 1  r == [on |-> TRUE, text |-> 1]
<1>1. g \in Gens /\ r \in Rec /\ 0 \in 0..MaxText /\ Gens \subseteq 0..MaxGen
  BY StoreAssumption DEF Schedule, TypeMem, Gens, Rec
<1>2. /\ gens' = [gens EXCEPT ![i] = g]
      /\ rec' = [rec EXCEPT ![i] = [rec[i] EXCEPT ![g] = r]]
      /\ tasks' = [tasks EXCEPT ![i] = g] /\ jobs' = [jobs EXCEPT ![i] = g]
      /\ Call("schedule", i, g, 0, FALSE, r) /\ fresh' = fresh \ {i}
  BY DEF Schedule
<1> HIDE DEF g, r
<1>3. TypeMem'
  BY <1>1, <1>2 DEF TypeMem
<1>4. TypeQueue' /\ TypeDisk' /\ TypeOuter' /\ TypeCount' /\ TypeMarks' /\ UNCHANGED proc
  <2>1. "schedule" \in Changes /\ "schedule" # "update"
    BY DEF Changes
  <2> QED BY <1>1, <1>2, <2>1, CallTypes
<1>5. TypeProc'
  BY <1>2, <1>4 DEF TypeProc
<1> QED BY <1>3, <1>4, <1>5

LEMMA RemoveTypes ==
  ASSUME StoreTypes, NEW i \in Ids, Remove(i) PROVE StoreTypes'
<1> USE Bounds DEF StoreTypes
<1>1. tasks[i] \in Gens
  BY DEF Remove, Live, TypeMem
<1>2. /\ tasks' = [tasks EXCEPT ![i] = 0] /\ jobs' = [jobs EXCEPT ![i] = 0]
      /\ Call("remove", i, tasks[i], 0, FALSE, Gone)
      /\ UNCHANGED <<fresh, gens, rec>>
  BY DEF Remove
<1>3. TypeMem'
  BY <1>1, <1>2 DEF TypeMem
<1>4. TypeQueue' /\ TypeDisk' /\ TypeOuter' /\ TypeCount' /\ TypeMarks' /\ UNCHANGED proc
  <2>1. "remove" \in Changes /\ "remove" # "update"
    BY DEF Changes
  <2> QED BY <1>1, <1>2, <2>1, CallTypes
<1> QED BY <1>2, <1>3, <1>4 DEF TypeProc

\* Enable, disable and update change the object the Map holds.
Edited(i, op, f, was, cron) ==
  /\ rec' = [rec EXCEPT ![i] = [rec[i] EXCEPT ![tasks[i]] = f]]
  /\ Call(op, i, tasks[i], was, cron, f)
  /\ UNCHANGED <<fresh, gens, tasks>>

LEMMA TheObject ==
  ASSUME StoreTypes, NEW i \in Ids, Live(i)
  PROVE  /\ tasks[i] \in Gens /\ rec[i][tasks[i]] \in Rec
         /\ \A f \in Rec : [rec EXCEPT ![i] = [rec[i] EXCEPT ![tasks[i]] = f]][i][tasks[i]] = f
         /\ \A b \in BOOLEAN : [rec[i][tasks[i]] EXCEPT !.on = b] \in Rec
         /\ \A t \in Texts : [rec[i][tasks[i]] EXCEPT !.text = t] \in Rec
<1>1. tasks[i] \in Gens /\ rec[i][tasks[i]] \in Rec
  BY Bounds DEF Live, StoreTypes, TypeMem
<1>2. /\ \A b \in BOOLEAN : [rec[i][tasks[i]] EXCEPT !.on = b] \in Rec
      /\ \A t \in Texts : [rec[i][tasks[i]] EXCEPT !.text = t] \in Rec
  BY <1>1 DEF Rec
<1>3. \A f \in Rec : [rec EXCEPT ![i] = [rec[i] EXCEPT ![tasks[i]] = f]][i][tasks[i]] = f
  BY <1>1 DEF StoreTypes, TypeMem
<1> QED BY <1>1, <1>2, <1>3

LEMMA EnableIs ==
  ASSUME StoreTypes, NEW i \in Ids, Enable(i)
  PROVE  /\ Live(i) /\ ~On(i) /\ jobs' = [jobs EXCEPT ![i] = tasks[i]]
         /\ [rec[i][tasks[i]] EXCEPT !.on = TRUE] \in Rec
         /\ Edited(i, "enable", [rec[i][tasks[i]] EXCEPT !.on = TRUE], 0, FALSE)
<1> DEFINE f == [rec[i][tasks[i]] EXCEPT !.on = TRUE]
<1>1. Live(i) /\ ~On(i) /\ jobs' = [jobs EXCEPT ![i] = tasks[i]]
  BY DEF Enable
<1>2. rec' = [rec EXCEPT ![i] = [rec[i] EXCEPT ![tasks[i]] = f]]
  BY DEF Enable
<1>3. f \in Rec /\ rec'[i][tasks[i]] = f
  BY <1>1, <1>2, TheObject
<1>4. /\ Call("enable", i, tasks[i], 0, FALSE, rec'[i][tasks[i]])
      /\ UNCHANGED <<fresh, gens, tasks>>
  BY DEF Enable
<1> HIDE DEF f
<1>5. Edited(i, "enable", f, 0, FALSE)
  BY <1>2, <1>3, <1>4 DEF Edited
<1> QED BY <1>1, <1>3, <1>5 DEF f

LEMMA DisableIs ==
  ASSUME StoreTypes, NEW i \in Ids, Disable(i)
  PROVE  /\ Live(i) /\ On(i) /\ jobs' = [jobs EXCEPT ![i] = 0]
         /\ [rec[i][tasks[i]] EXCEPT !.on = FALSE] \in Rec
         /\ Edited(i, "disable", [rec[i][tasks[i]] EXCEPT !.on = FALSE], 0, FALSE)
<1> DEFINE f == [rec[i][tasks[i]] EXCEPT !.on = FALSE]
<1>1. Live(i) /\ On(i) /\ jobs' = [jobs EXCEPT ![i] = 0]
  BY DEF Disable, On
<1>2. rec' = [rec EXCEPT ![i] = [rec[i] EXCEPT ![tasks[i]] = f]]
  BY DEF Disable
<1>3. f \in Rec /\ rec'[i][tasks[i]] = f
  BY <1>1, <1>2, TheObject
<1>4. /\ Call("disable", i, tasks[i], 0, FALSE, rec'[i][tasks[i]])
      /\ UNCHANGED <<fresh, gens, tasks>>
  BY DEF Disable
<1> HIDE DEF f
<1>5. Edited(i, "disable", f, 0, FALSE)
  BY <1>2, <1>3, <1>4 DEF Edited
<1> QED BY <1>1, <1>3, <1>5 DEF f

LEMMA UpdateIs ==
  ASSUME StoreTypes, NEW i \in Ids, Update(i)
  PROVE  /\ Live(i) /\ rec[i][tasks[i]].text \in Texts
         /\ \E t \in Texts, cron \in BOOLEAN :
              /\ jobs' = IF cron /\ On(i) THEN [jobs EXCEPT ![i] = tasks[i]] ELSE jobs
              /\ [rec[i][tasks[i]] EXCEPT !.text = t] \in Rec
              /\ Edited(i, "update", [rec[i][tasks[i]] EXCEPT !.text = t],
                        rec[i][tasks[i]].text, cron)
<1>1. Live(i) /\ UNCHANGED <<fresh, gens, tasks>>
  BY DEF Update
<1>2. rec[i][tasks[i]].text \in Texts
  BY <1>1, TheObject DEF Rec
<1>3. PICK t \in Texts, cron \in BOOLEAN :
        /\ rec' = [rec EXCEPT ![i][tasks[i]].text = t]
        /\ jobs' = IF cron /\ On(i) THEN [jobs EXCEPT ![i] = tasks[i]] ELSE jobs
        /\ Call("update", i, tasks[i], rec[i][tasks[i]].text, cron, rec'[i][tasks[i]])
  BY DEF Update
<1> DEFINE f == [rec[i][tasks[i]] EXCEPT !.text = t]
<1>4. rec' = [rec EXCEPT ![i] = [rec[i] EXCEPT ![tasks[i]] = f]]
  BY <1>3
<1>5. f \in Rec /\ rec'[i][tasks[i]] = f
  BY <1>1, <1>4, TheObject
<1>6. Edited(i, "update", f, rec[i][tasks[i]].text, cron)
  <2> HIDE DEF f
  <2> QED BY <1>1, <1>3, <1>4, <1>5 DEF Edited
<1> QED BY <1>1, <1>2, <1>3, <1>5, <1>6

LEMMA EditTypes ==
  ASSUME StoreTypes, NEW op \in {"enable", "disable", "update"}, NEW i \in Ids,
         NEW f \in Rec, NEW was \in 0..MaxText, NEW cron \in BOOLEAN, Live(i),
         op = "update" => was \in Texts, Edited(i, op, f, was, cron),
         jobs' \in {jobs, [jobs EXCEPT ![i] = tasks[i]], [jobs EXCEPT ![i] = 0]}
  PROVE  StoreTypes'
<1> USE Bounds DEF StoreTypes, Edited
<1>1. tasks[i] \in Gens
  BY DEF Live, TypeMem
<1>2. TypeMem'
  BY <1>1 DEF TypeMem
<1>3. TypeQueue' /\ TypeDisk' /\ TypeOuter' /\ TypeCount' /\ TypeMarks' /\ UNCHANGED proc
  BY <1>1, CallTypes DEF Changes
<1> QED BY <1>2, <1>3 DEF TypeProc

LEMMA CallsTypes ==
  ASSUME StoreTypes, Calls PROVE StoreTypes'
<1>1. CASE StatsSave
  <2>1. Nobody("stats") \in Request /\ ChangeWF(Nobody("stats"))
    BY NobodyIs DEF ChangeWF
  <2>2. /\ queue' = Append(queue, Nobody("stats")) /\ calls < MaxCalls /\ calls' = calls + 1
        /\ UNCHANGED <<proc, fresh, mem, disk, outer, faults, marks>>
    BY <1>1 DEF StatsSave, SaveTasks
  <2>3. TypeQueue'
    BY <2>1, <2>2, JoinTypes DEF TypeQueue, StoreTypes, disk
  <2>4. TypeCount'
    BY <2>2, StoreAssumption DEF TypeCount, StoreTypes
  <2> QED
    BY <2>2, <2>3, <2>4 DEF StoreTypes, TypeProc, TypeMem, TypeDisk, TypeOuter, TypeMarks,
                            mem, disk, outer, marks
<1>2. ASSUME NEW i \in Ids, Schedule(i) PROVE StoreTypes'
  BY <1>2, ScheduleTypes
<1>3. ASSUME NEW i \in Ids, Remove(i) PROVE StoreTypes'
  BY <1>3, RemoveTypes
<1>4. ASSUME NEW i \in Ids, Enable(i) PROVE StoreTypes'
  BY <1>4, EnableIs, EditTypes, Bounds
<1>5. ASSUME NEW i \in Ids, Disable(i) PROVE StoreTypes'
  BY <1>5, DisableIs, EditTypes, Bounds
<1>6. ASSUME NEW i \in Ids, Update(i) PROVE StoreTypes'
  <2>1. PICK t \in Texts, cron \in BOOLEAN :
          /\ jobs' = IF cron /\ On(i) THEN [jobs EXCEPT ![i] = tasks[i]] ELSE jobs
          /\ [rec[i][tasks[i]] EXCEPT !.text = t] \in Rec
          /\ Edited(i, "update", [rec[i][tasks[i]] EXCEPT !.text = t],
                    rec[i][tasks[i]].text, cron)
    BY <1>6, UpdateIs
  <2>2. Live(i) /\ rec[i][tasks[i]].text \in Texts
    BY <1>6, UpdateIs
  <2> QED BY <2>1, <2>2, EditTypes, Bounds
<1> QED BY <1>1, <1>2, <1>3, <1>4, <1>5, <1>6 DEF Calls

-----------------------------------------------------------------------------
LEMMA FileTypes ==
  ASSUME StoreTypes
  PROVE  /\ Memory \in Content /\ files["tmp"] \in File /\ files["primary"] \in File
         /\ files["backup"] \in File /\ Json(save.draft) \in File
         /\ save.copy \in File /\ save.at \in Places /\ Json(cli.draft) \in File
         /\ cli.at \in Places /\ files["primary"].map \in Content
         /\ files["backup"].map \in Content /\ reload.map \in Content
         /\ save.draft \in Content /\ cli.draft \in Content
<1> USE DEF StoreTypes, TypeDisk, TypeOuter
<1>1. Memory \in Content
  BY Bounds DEF Memory, Content, Live, TypeMem
<1>2. files["tmp"] \in File /\ files["primary"] \in File /\ files["backup"] \in File
  OBVIOUS
<1>3. /\ save.copy \in File /\ save.at \in Places /\ save.draft \in Content
      /\ cli.at \in Places /\ cli.draft \in Content
  BY DEF Save, Cli
<1>4. \A f \in File : f.map \in Content
  BY DEF File
<1> QED BY <1>1, <1>2, <1>3, <1>4, DataTypes

LEMMA StartTypes ==
  ASSUME StoreTypes, Start PROVE StoreTypes'
<1>1. queue # <<>> /\ UNCHANGED <<fresh, files, late, outer, calls, faults, tangled,
                                 overlapped, disturbed>>
  BY DEF Start, Ready
<1>2. CASE Skip
  <2>1. /\ skipped' = TRUE /\ unsaved' = TRUE /\ queue' = Tail(queue)
        /\ Resolve(Head(queue)) /\ UNCHANGED <<save, gens>>
    BY <1>2 DEF Skip
  <2>2. ~save.awaited
    BY <1>2 DEF Skip, Start, Ready, StoreTypes, TypeDisk, Save
  <2>3. /\ queue' \in Seq(Request) /\ RequestsWF' /\ ChangeWF(Head(queue))
        /\ Head(queue) \in Request
    BY <1>1, <2>1, LeftTypes
  <2>4. /\ proc' \in {"down", "loading", "up"} /\ rec' \in [Ids -> [Gens -> Rec]]
        /\ tasks' \in [Ids -> 0..MaxGen] /\ jobs' \in [Ids -> 0..MaxGen]
        /\ promised' \in [Ids -> Rec \cup {Gone, Any}]
    BY <2>1, <2>3, AnswerTypes
  <2> QED
    BY <1>1, <2>1, <2>2, <2>3, <2>4 DEF StoreTypes, TypeProc, TypeMem, TypeQueue,
       TypeDisk, TypeOuter, TypeCount, TypeMarks, outer
<1>3. CASE BeginSave
  <2>1. [step |-> "openTmp", at |-> "tmp", copy |-> Absent, draft |-> Memory,
         awaited |-> TRUE] \in Save
    BY FileTypes, DataTypes DEF Save, Places
  <2> QED
    BY <1>1, <1>3, <2>1 DEF BeginSave, StoreTypes, TypeProc, TypeMem, TypeQueue, RequestsWF,
       TypeDisk, TypeOuter, TypeCount, TypeMarks, outer, mem
<1> QED BY <1>2, <1>3 DEF Start

\* A step of a save, or of someone else, that leaves requests and tasks alone.
LEMMA QuietTypes ==
  ASSUME StoreTypes, TypeDisk', TypeOuter', save'.awaited = save.awaited,
         save.awaited => save'.step # "none",
         UNCHANGED <<proc, fresh, mem, queue, calls, promised, tangled, overlapped, unsaved>>,
         faults' \in 0..MaxFaults, disturbed' \in BOOLEAN
  PROVE  StoreTypes'
  BY DEF StoreTypes, TypeProc, TypeMem, TypeQueue, RequestsWF, TypeDisk, TypeOuter,
         TypeCount, TypeMarks, mem

LEMMA SaveGoes ==
  ASSUME StoreTypes, NEW s \in {"fillTmp", "read", "openBackup", "fillBackup", "rename"},
         InFlight, Goto(s)
  PROVE  /\ save' \in Save /\ save'.awaited = save.awaited /\ save'.step = s
         /\ save'.at = save.at /\ save'.copy = save.copy /\ save'.draft = save.draft
  BY DEF StoreTypes, TypeDisk, Save, Goto

LEMMA SaveStepTypes ==
  ASSUME StoreTypes, SaveStep, ~RenameTmp PROVE StoreTypes'
<1>1. /\ InFlight /\ StepOnly /\ save \in Save /\ faults \in 0..MaxFaults
      /\ disturbed \in BOOLEAN
  BY DEF SaveStep, OpenTmp, FillTmp, ReadPrimary, OpenBackup, FillBackup, RenameTmp, At,
         InFlight, StoreTypes, TypeDisk, TypeCount, TypeMarks
<1>2. save' \in Save /\ save'.awaited = save.awaited /\ save'.step # "none"
  <2>1. CASE \E s \in {"fillTmp", "read", "openBackup", "fillBackup", "rename"} : Goto(s)
    BY <1>1, <2>1, SaveGoes
  <2>2. CASE ReadPrimary
    <3>1. files["primary"] \in File
      BY FileTypes
    <3> QED BY <1>1, <2>2, <3>1 DEF ReadPrimary, Save
  <2> QED BY <2>1, <2>2 DEF SaveStep, OpenTmp, FillTmp, OpenBackup, FillBackup
<1>3. files' \in [{"tmp", "primary", "backup"} -> File]
  <2>1. /\ files \in [{"tmp", "primary", "backup"} -> File] /\ save.at \in Places
        /\ Partial \in File /\ Json(save.draft) \in File /\ save.copy \in File
    BY FileTypes, DataTypes DEF StoreTypes, TypeDisk
  <2> QED BY <2>1 DEF SaveStep, OpenTmp, FillTmp, ReadPrimary, OpenBackup, FillBackup
<1> QED
  BY <1>1, <1>2, <1>3, QuietTypes DEF StepOnly, StoreTypes, TypeDisk, TypeOuter, outer, marks

LEMMA MovedTypes ==
  /\ \A p \in Places : MovedAt(p) \in Places
  /\ \A op \in LateOp : Moved(op) \in LateOp
  BY DEF MovedAt, Places, Moved, LateOp

LEMMA RenameFileTypes ==
  ASSUME StoreTypes, RenameFile
  PROVE  files' \in [{"tmp", "primary", "backup"} -> File] /\ cli' \in Cli
<1>1. files' \in [{"tmp", "primary", "backup"} -> File]
  BY FileTypes, DataTypes DEF RenameFile, StoreTypes, TypeDisk
<1>2. cli' \in Cli
  BY FileTypes, MovedTypes DEF RenameFile, StoreTypes, TypeOuter, Cli
<1> QED BY <1>1, <1>2

LEMMA EndedTypes ==
  ASSUME StoreTypes, SaveSucceeds \/ SaveFails,
         files' \in [{"tmp", "primary", "backup"} -> File],
         late' \in [1..MaxFaults -> LateOp], TypeOuter', faults' \in 0..MaxFaults,
         disturbed' \in BOOLEAN,
         UNCHANGED <<fresh, gens, calls, tangled, overlapped, unsaved>>
  PROVE  StoreTypes'
  BY EndTypes, DataTypes DEF StoreTypes, TypeProc, TypeMem, TypeDisk, TypeCount, TypeMarks

LEMMA RenameTypes ==
  ASSUME StoreTypes, RenameTmp PROVE StoreTypes'
<1>1. UNCHANGED <<fresh, gens, reload, calls, faults, tangled, overlapped, disturbed, unsaved>>
  BY DEF RenameTmp
<1>2. /\ SaveSucceeds \/ SaveFails
      /\ files' \in [{"tmp", "primary", "backup"} -> File]
      /\ late' \in [1..MaxFaults -> LateOp] /\ cli' \in Cli
  <2>1. CASE SaveFails /\ UNCHANGED <<files, late, cli>>
    BY <2>1 DEF StoreTypes, TypeDisk, TypeOuter
  <2>2. CASE /\ RenameFile /\ SaveSucceeds
             /\ late' = [n \in 1..MaxFaults |-> Moved(late[n])]
    BY <2>2, RenameFileTypes, MovedTypes DEF StoreTypes, TypeDisk
  <2> QED BY <2>1, <2>2 DEF RenameTmp
<1> QED BY <1>1, <1>2, EndedTypes DEF StoreTypes, TypeOuter, TypeCount, TypeMarks

LEMMA FaultTypes ==
  ASSUME StoreTypes, Fault
  PROVE  faults' \in 0..MaxFaults /\ faults + 1 \in 1..MaxFaults
  BY StoreAssumption DEF StoreTypes, TypeCount, Fault

\* A read or a copy for the backup that fails or hangs is passed over.
LEMMA PassedTypes ==
  ASSUME StoreTypes, InFlight, Goto("rename"), late' \in [1..MaxFaults -> LateOp],
         faults' \in 0..MaxFaults, disturbed' \in BOOLEAN,
         UNCHANGED <<proc, fresh, mem, queue, skipped, files, outer, calls, promised, tangled,
                     overlapped, unsaved>>
  PROVE  StoreTypes'
<1>1. save' \in Save /\ save'.awaited = save.awaited /\ save'.step # "none"
  BY SaveGoes
<1> QED BY <1>1, QuietTypes DEF StoreTypes, TypeDisk, TypeOuter, outer

LEMMA OpFailsTypes ==
  ASSUME StoreTypes, OpFails PROVE StoreTypes'
<1>1. /\ UNCHANGED <<fresh, gens, files, late, outer, calls, tangled, overlapped, disturbed,
                     unsaved>>
      /\ faults' \in 0..MaxFaults /\ InFlight
  BY FaultTypes DEF OpFails
<1>2. CASE Critical
  BY <1>1, <1>2, EndedTypes DEF OpFails, StoreTypes, TypeDisk, TypeOuter, TypeMarks, outer
<1>3. CASE ~Critical
  BY <1>1, <1>3, PassedTypes DEF OpFails, StoreTypes, TypeDisk, TypeMarks, mem
<1> QED BY <1>2, <1>3

LEMMA LateOpTypes == ASSUME StoreTypes PROVE LateOpOf \in LateOp
<1>1. save \in Save
  BY DEF StoreTypes, TypeDisk
<1>2. CASE save.step = "openTmp"
  BY <1>2, FileTypes DEF LateOpOf, LateOp, Places
<1>3. CASE save.step = "fillTmp"
  BY <1>3, FileTypes DEF LateOpOf, LateOp, Places
<1>4. CASE save.step = "openBackup"
  BY <1>4, FileTypes DEF LateOpOf, LateOp, Places
<1>5. CASE save.step = "fillBackup"
  BY <1>5, FileTypes DEF LateOpOf, LateOp, Places
<1>6. CASE save.step = "rename"
  BY <1>6, DataTypes DEF LateOpOf, LateOp, Places
<1>7. CASE save.step \in {"none", "read"}
  BY <1>7, DataTypes DEF LateOpOf
<1> QED BY <1>1, <1>2, <1>3, <1>4, <1>5, <1>6, <1>7 DEF Save

LEMMA OpTimesOutTypes ==
  ASSUME StoreTypes, OpTimesOut PROVE StoreTypes'
<1>1. /\ UNCHANGED <<fresh, gens, files, outer, calls, tangled, overlapped, unsaved>>
      /\ faults' \in 0..MaxFaults /\ InFlight /\ disturbed' \in BOOLEAN
      /\ late' \in [1..MaxFaults -> LateOp]
  <2>1. late' = [late EXCEPT ![faults + 1] = LateOpOf]
    BY DEF OpTimesOut
  <2> QED BY <2>1, FaultTypes, LateOpTypes DEF OpTimesOut, StoreTypes, TypeDisk
<1>2. CASE Critical
  BY <1>1, <1>2, EndedTypes DEF OpTimesOut, StoreTypes, TypeDisk, TypeOuter, outer
<1>3. CASE ~Critical
  BY <1>1, <1>3, PassedTypes DEF OpTimesOut, mem
<1> QED BY <1>2, <1>3

LEMMA SaveTimesOutTypes ==
  ASSUME StoreTypes, SaveTimesOut PROVE StoreTypes'
<1>1. /\ UNCHANGED <<fresh, gens, skipped, files, late, outer, calls, tangled, overlapped,
                     unsaved>>
      /\ disturbed' = TRUE /\ save' = [save EXCEPT !.awaited = FALSE]
      /\ queue' = Tail(queue) /\ Reject(Head(queue)) /\ faults' \in 0..MaxFaults
      /\ save \in Save /\ queue # <<>>
  BY FaultTypes DEF SaveTimesOut, StoreTypes, TypeDisk, TypeQueue
<1>2. save' \in Save /\ save'.awaited = FALSE
  BY <1>1 DEF Save
<1>3. /\ queue' \in Seq(Request) /\ RequestsWF' /\ ChangeWF(Head(queue))
      /\ Head(queue) \in Request
  BY <1>1, LeftTypes
<1>4. /\ proc' \in {"down", "loading", "up"} /\ rec' \in [Ids -> [Gens -> Rec]]
      /\ tasks' \in [Ids -> 0..MaxGen] /\ jobs' \in [Ids -> 0..MaxGen]
      /\ promised' \in [Ids -> Rec \cup {Gone, Any}]
  BY <1>1, <1>3, AnswerTypes
<1> QED
  BY <1>1, <1>2, <1>3, <1>4 DEF StoreTypes, TypeProc, TypeMem, TypeQueue, TypeDisk, TypeOuter,
     TypeCount, TypeMarks, outer

LEMMA CrashTypes ==
  ASSUME StoreTypes, Crash PROVE StoreTypes'
<1> USE FaultTypes, DataTypes DEF Crash, StoreTypes
<1>1. TypeProc' /\ TypeMem'
  BY DEF TypeProc, TypeMem
<1>2. TypeQueue'
  BY DEF TypeQueue, RequestsWF, NoSave
<1>3. TypeDisk'
  BY DEF TypeDisk
<1>4. TypeOuter' /\ TypeCount' /\ TypeMarks'
  BY DEF TypeOuter, TypeCount, TypeMarks
<1> QED BY <1>1, <1>2, <1>3, <1>4

LEMMA LateStepTypes ==
  ASSUME StoreTypes, NEW n \in 1..MaxFaults, LateStep(n) PROVE StoreTypes'
<1>1. UNCHANGED <<proc, fresh, mem, queue, skipped, reload, calls, faults, marks>>
  BY DEF LateStep
<1>2. late[n] \in LateOp /\ late[n].at \in Places /\ late[n].data \in File
  BY DEF StoreTypes, TypeDisk, LateOp
<1>3. /\ late' \in [1..MaxFaults -> LateOp] /\ files' \in [{"tmp", "primary", "backup"} -> File]
      /\ save' \in Save /\ save'.awaited = save.awaited /\ save'.step = save.step
      /\ cli' \in Cli
  <2> USE <1>2, DataTypes DEF StoreTypes, TypeDisk, TypeOuter
  <2>1. CASE late[n].do = "open" /\ files' = [files EXCEPT ![late[n].at] = Partial]
             /\ late' = [late EXCEPT ![n].do = "fill"] /\ UNCHANGED <<save, cli>>
    BY <2>1 DEF LateOp
  <2>2. CASE /\ late[n].do = "fill"
             /\ files' = IF late[n].at = "gone" THEN files
                         ELSE [files EXCEPT ![late[n].at] = late[n].data]
             /\ late' = [late EXCEPT ![n] = NoOp] /\ UNCHANGED <<save, cli>>
    <3>1. late' \in [1..MaxFaults -> LateOp]
      BY <2>2
    <3>2. files' \in [{"tmp", "primary", "backup"} -> File]
      BY <2>2
    <3> QED BY <2>2, <3>1, <3>2
  <2>3. CASE /\ late[n].do = "rename" /\ RenameFile
             /\ late' = [[k \in 1..MaxFaults |-> Moved(late[k])] EXCEPT ![n] = NoOp]
             /\ save' = IF At("fillTmp") THEN [save EXCEPT !.at = MovedAt(save.at)] ELSE save
    <3>1. save' \in Save /\ save'.awaited = save.awaited /\ save'.step = save.step
      BY <2>3, MovedTypes DEF Save
    <3> QED BY <2>3, <3>1, RenameFileTypes, MovedTypes
  <2>4. CASE late[n].do = "rename" /\ late' = [late EXCEPT ![n] = NoOp]
             /\ UNCHANGED <<files, save, cli>>
    BY <2>4
  <2> QED BY <2>1, <2>2, <2>3, <2>4 DEF LateStep
<1>4. save.awaited => save'.step # "none"
  BY <1>3 DEF StoreTypes, TypeQueue
<1> QED BY <1>1, <1>3, <1>4, QuietTypes DEF StoreTypes, TypeDisk, TypeOuter, TypeCount, TypeMarks, marks

LEMMA LoadedTypes ==
  ASSUME StoreTypes, NEW c \in Content, LoadedWith(c)
  PROVE  /\ gens' \in [Ids -> 0..MaxGen] /\ rec' \in [Ids -> [Gens -> Rec]]
         /\ tasks' \in [Ids -> 0..MaxGen] /\ JobsOf(c, tasks') \in [Ids -> 0..MaxGen]
<1>1. tasks' \in [Ids -> 0..MaxGen] /\ gens' \in [Ids -> 0..MaxGen]
  BY Bounds DEF LoadedWith
<1>2. rec' \in [Ids -> [Gens -> Rec]]
  <2>1. \A i \in Ids : c[i] # Gone => c[i] \in Rec
    BY DEF Content
  <2> QED BY <2>1, DataTypes DEF LoadedWith
<1>3. JobsOf(c, tasks') \in [Ids -> 0..MaxGen]
  BY <1>1, Bounds DEF JobsOf
<1> QED BY <1>1, <1>2, <1>3

LEMMA LoadTypes ==
  ASSUME StoreTypes, LoadTasks PROVE StoreTypes'
<1>1. /\ files' = [files EXCEPT !["tmp"] = Absent]
      /\ UNCHANGED <<fresh, save, skipped, late, outer, calls, promised, tangled, overlapped,
                     unsaved>>
  BY DEF LoadTasks
<1>2. faults' \in 0..MaxFaults /\ disturbed' \in BOOLEAN
  BY FaultTypes DEF LoadTasks, StoreTypes, TypeCount, TypeMarks
<1>3. TypeMem' /\ proc' \in {"down", "loading", "up"} /\ TypeQueue'
  <2>1. ASSUME NEW c \in Content, LoadUp(c)
        PROVE  TypeMem' /\ proc' = "up" /\ UNCHANGED queue
    BY <2>1, LoadedTypes DEF LoadUp, TypeMem
  <2>2. ASSUME UNCHANGED queue PROVE TypeQueue'
    BY <1>1, <2>2 DEF StoreTypes, TypeQueue, RequestsWF
  <2>3. ASSUME queue' = Append(queue, Nobody("repair")) PROVE TypeQueue'
    BY <1>1, <2>3, JoinTypes, NobodyIs DEF ChangeWF, TypeQueue, StoreTypes
  <2>4. ASSUME Recover
        PROVE TypeMem' /\ proc' \in {"loading", "up"} /\ TypeQueue'
    <3>1. CASE LoadUp(NoTasks)
      BY <2>1, <2>2, <3>1, DataTypes
    <3>2. CASE /\ LoadedWith(files["backup"].map) /\ proc' = "loading"
               /\ SaveTasks(Nobody("repair")) /\ UNCHANGED jobs
      BY <2>3, <3>2, LoadedTypes, FileTypes DEF SaveTasks, TypeMem, StoreTypes
    <3> QED BY <2>4, <3>1, <3>2 DEF Recover
  <2>5. CASE LoadUp(files["primary"].map) \/ LoadUp(NoTasks)
    BY <2>1, <2>2, <2>5, FileTypes, DataTypes
  <2> QED BY <2>4, <2>5 DEF LoadTasks
<1>4. TypeDisk' /\ TypeOuter'
  BY <1>1, DataTypes DEF StoreTypes, TypeDisk, TypeOuter, outer
<1>5. TypeProc' /\ TypeCount' /\ TypeMarks'
  BY <1>1, <1>2, <1>3 DEF StoreTypes, TypeProc, TypeCount, TypeMarks
<1> QED BY <1>3, <1>4, <1>5 DEF StoreTypes

LEMMA CliTypes ==
  ASSUME StoreTypes, CliKilled \/ CliWrite \/ \E i \in Ids : CliToggle(i) PROVE StoreTypes'
<1>1. CliOnly
  BY DEF CliKilled, CliWrite, CliToggle
<1>2. faults' \in 0..MaxFaults /\ disturbed' \in BOOLEAN
  BY FaultTypes DEF CliKilled, CliWrite, CliToggle, StoreTypes, TypeCount, TypeMarks
<1>3. cli' \in Cli /\ files' \in [{"tmp", "primary", "backup"} -> File]
  <2> USE FileTypes, DataTypes DEF StoreTypes, TypeDisk, TypeOuter
  <2>1. CASE CliKilled
    BY <2>1 DEF CliKilled
  <2>2. CASE CliWrite
    <3>1. cli' \in Cli
      BY <2>2 DEF CliWrite, Cli
    <3>2. files' \in [{"tmp", "primary", "backup"} -> File]
      <4>1. CASE files' = [files EXCEPT !["primary"] = Partial]
        BY <4>1
      <4>2. CASE files' = IF cli.at = "gone" THEN files
                          ELSE [files EXCEPT ![cli.at] = Json(cli.draft)]
        BY <4>2
      <4> QED BY <2>2, <4>1, <4>2 DEF CliWrite
    <3> QED BY <3>1, <3>2
  <2>3. ASSUME NEW i \in Ids, CliToggle(i) PROVE cli' \in Cli /\ UNCHANGED files
    <3>1. files["primary"].map \in [Ids -> Rec \cup {Gone}] /\ files["primary"].map[i] \in Rec
      BY <2>3 DEF CliToggle, Content
    <3>2. \A f \in Rec : [f EXCEPT !.on = ~f.on] \in Rec
      BY DEF Rec
    <3>3. [files["primary"].map EXCEPT ![i].on = ~@] \in Content
      BY <3>1, <3>2 DEF Content
    <3> QED BY <2>3, <3>3 DEF CliToggle, Cli, Places
  <2> QED BY <2>1, <2>2, <2>3
<1> QED
  BY <1>1, <1>2, <1>3, QuietTypes DEF CliOnly, StoreTypes, TypeDisk, TypeOuter, TypeQueue

LEMMA ReloadReadTypes ==
  ASSUME StoreTypes, ReloadRead PROVE StoreTypes'
<1>1. reload' \in File /\ cli' \in Cli
  BY FileTypes, DataTypes DEF ReloadRead, StoreTypes, TypeOuter
<1> QED
  BY <1>1, QuietTypes DEF ReloadRead, StoreTypes, TypeDisk, TypeOuter, TypeQueue, TypeCount,
     TypeMarks, disk, marks

LEMMA ReloadApplyTypes ==
  ASSUME StoreTypes, ReloadApply PROVE StoreTypes'
<1> DEFINE Added == {i \in Ids : ~Live(i) /\ reload.map[i] # Gone}
<1>1. /\ reload' = Absent
      /\ \A i \in Added : gens[i] < MaxGen
      /\ tangled' = tangled \cup {i \in Ids : Pending(i)}
      /\ UNCHANGED <<proc, fresh, queue, disk, cli, calls, faults, promised, overlapped,
                     disturbed, unsaved>>
  BY DEF ReloadApply
<1>2. /\ gens \in [Ids -> 0..MaxGen] /\ rec \in [Ids -> [Gens -> Rec]]
      /\ tasks \in [Ids -> 0..MaxGen] /\ jobs \in [Ids -> 0..MaxGen]
      /\ reload.map \in [Ids -> Rec \cup {Gone}]
  BY FileTypes DEF StoreTypes, TypeMem, Content
<1>3. \A i \in Added : gens[i] + 1 \in 0..MaxGen /\ reload.map[i] \in Rec
  BY <1>1, <1>2, StoreAssumption
<1>4. \A i \in Ids : /\ i \notin Added => gens[i] \in 0..MaxGen
                     /\ tasks[i] \in 0..MaxGen /\ jobs[i] \in 0..MaxGen
  BY <1>2
<1>5. gens' \in [Ids -> 0..MaxGen] /\ tasks' \in [Ids -> 0..MaxGen]
  BY <1>3, <1>4, Bounds DEF ReloadApply
<1>6. jobs' \in [Ids -> 0..MaxGen]
  BY <1>3, <1>4, Bounds DEF ReloadApply
<1>7. rec' \in [Ids -> [Gens -> Rec]]
  <2>1. \A i \in Ids, g \in Gens : reload.map[i] # Gone =>
          reload.map[i] \in Rec /\ [rec[i][g] EXCEPT !.on = reload.map[i].on] \in Rec
    BY <1>2 DEF Rec
  <2>2. \A i \in Ids, g \in Gens : rec[i][g] \in Rec
    BY <1>2
  <2> QED BY <2>1, <2>2 DEF ReloadApply
<1>8. TypeProc' /\ TypeQueue' /\ TypeDisk' /\ TypeOuter' /\ TypeCount' /\ TypeMarks'
  BY <1>1, DataTypes DEF StoreTypes, TypeProc, TypeQueue, RequestsWF, TypeDisk, TypeOuter,
     TypeCount, TypeMarks, disk
<1> QED BY <1>5, <1>6, <1>7, <1>8 DEF StoreTypes, TypeMem

LEMMA StoreTypeStep ==
  ASSUME StoreTypes, [StoreNext]_storeVars PROVE StoreTypes'
<1>1. CASE Start  BY <1>1, StartTypes
<1>2. CASE Calls  BY <1>2, CallsTypes
<1>3. CASE SaveStep  BY <1>3, SaveStepTypes, RenameTypes
<1>4. CASE OpFails  BY <1>4, OpFailsTypes
<1>5. CASE OpTimesOut  BY <1>5, OpTimesOutTypes
<1>6. CASE SaveTimesOut  BY <1>6, SaveTimesOutTypes
<1>7. CASE Crash  BY <1>7, CrashTypes
<1>8. CASE CliKilled \/ CliWrite \/ \E i \in Ids : CliToggle(i)  BY <1>8, CliTypes
<1>9. CASE \E n \in 1..MaxFaults : LateStep(n)  BY <1>9, LateStepTypes
<1>10. CASE ReloadRead  BY <1>10, ReloadReadTypes
<1>11. CASE ReloadApply  BY <1>11, ReloadApplyTypes
<1>12. CASE LoadTasks  BY <1>12, LoadTypes
<1>13. CASE UNCHANGED storeVars
  BY <1>13 DEF storeVars, mem, disk, outer, marks, StoreTypes, TypeProc, TypeMem, TypeQueue,
     RequestsWF, TypeDisk, TypeOuter, TypeCount, TypeMarks
<1> QED
  BY <1>1, <1>2, <1>3, <1>4, <1>5, <1>6, <1>7, <1>8, <1>9, <1>10, <1>11, <1>12, <1>13
     DEF StoreNext, Faulty, External

\* Every variable keeps its type, and a save that is awaited has its caller at
\* the head of _saveQueue, over every interleaving of calls, file operations,
\* timeouts, crashes and CLI commands.
THEOREM StoreTypeCorrect == StoreSpec => []StoreTypeOK
<1>1. StoreInit => StoreTypes
  BY StoreTypeInit
<1>2. StoreTypes /\ [StoreNext]_storeVars => StoreTypes'
  BY StoreTypeStep
<1>3. StoreTypes => StoreTypeOK
  BY StoreTypesMean
<1> QED BY <1>1, <1>2, <1>3, PTL DEF StoreSpec

-----------------------------------------------------------------------------
(* Jobs follow tasks.  What a pending change made is still there, unless   *)
(* another change of the same task came between, so its rollback finds the *)
(* object and the job as it left them.                                     *)

Changing(k) == k \in 1..Len(queue) /\ queue[k].op \in Changes
Follows(i)  == jobs[i] = IF On(i) THEN tasks[i] ELSE 0
Made(r)     == /\ Memory[r.id] = r.new
               /\ tasks[r.id] = IF r.op = "remove" THEN 0 ELSE r.gen

OneEach == \A k, l \in 1..Len(queue) :
             Changing(k) /\ Changing(l) /\ queue[k].id = queue[l].id
               => k = l \/ queue[k].id \in tangled
OnlyUp  == /\ \A k \in 1..Len(queue) : Changing(k) => proc = "up"
           /\ proc = "down" => queue = <<>> /\ save = NoSave
MadeBy  == \A k \in 1..Len(queue) : Changing(k) => queue[k].id \in tangled \/ Made(queue[k])

JobsInv == OneEach /\ OnlyUp /\ MadeBy /\ JobsFollowTasks

\* What memory held of the task before the change.
Before(r) ==
  CASE r.op = "schedule" -> Gone
    [] r.op = "remove"   -> rec[r.id][r.gen]
    [] r.op = "enable"   -> [rec[r.id][r.gen] EXCEPT !.on = FALSE]
    [] r.op = "disable"  -> [rec[r.id][r.gen] EXCEPT !.on = TRUE]
    [] OTHER             -> [rec[r.id][r.gen] EXCEPT !.text = r.was]

\* The requests that stay when the head leaves, and when one joins.
LEMMA LeftRequests ==
  ASSUME StoreTypes, queue # <<>>,
         queue' = Tail(queue) \/ queue' = Append(Tail(queue), Nobody("followup"))
  PROVE  /\ \A k : Changing(k)' => Changing(k + 1) /\ queue'[k] = queue[k + 1]
         /\ \A k : Changing(k) /\ k # 1 => Changing(k - 1)' /\ queue'[k - 1] = queue[k]
<1>1. queue \in Seq(Request) /\ Len(queue) \in Nat
  BY DEF StoreTypes, TypeQueue
<1>2. /\ Tail(queue) \in Seq(Request) /\ Len(Tail(queue)) = Len(queue) - 1
      /\ \A k \in 1..(Len(queue) - 1) : Tail(queue)[k] = queue[k + 1]
                                        /\ k + 1 \in 1..Len(queue)
  BY <1>1, Answered
<1>3. CASE queue' = Tail(queue)
  BY <1>1, <1>2, <1>3 DEF Changing
<1>4. CASE queue' = Append(Tail(queue), Nobody("followup"))
  <2>1. /\ Len(queue') = Len(queue) /\ queue'[Len(queue)].op \notin Changes
        /\ \A k \in 1..(Len(queue) - 1) : queue'[k] = queue[k + 1]
    BY <1>1, <1>2, <1>4, Joined, NobodyIs
  <2>2. ASSUME NEW k, Changing(k)' PROVE Changing(k + 1) /\ queue'[k] = queue[k + 1]
    <3>1. k \in 1..(Len(queue) - 1)
      BY <1>1, <2>1, <2>2 DEF Changing
    <3> QED BY <1>2, <2>1, <2>2, <3>1 DEF Changing
  <2>3. ASSUME NEW k, Changing(k), k # 1 PROVE Changing(k - 1)' /\ queue'[k - 1] = queue[k]
    <3>1. k - 1 \in 1..(Len(queue) - 1) /\ k = (k - 1) + 1
      BY <1>1, <2>3 DEF Changing
    <3>2. queue'[k - 1] = queue[k] /\ k - 1 \in 1..Len(queue')
      BY <1>1, <2>1, <3>1
    <3> QED BY <2>3, <3>2 DEF Changing
  <2> QED BY <2>2, <2>3
<1> QED BY <1>3, <1>4

LEMMA JoinRequests ==
  ASSUME StoreTypes, NEW r \in Request, queue' = Append(queue, r)
  PROVE  /\ \A k : Changing(k) => Changing(k)' /\ queue'[k] = queue[k]
         /\ \A k : Changing(k)' => \/ Changing(k) /\ queue'[k] = queue[k]
                                   \/ k = Len(queue) + 1 /\ queue'[k] = r /\ r.op \in Changes
<1>1. queue \in Seq(Request)
  BY DEF StoreTypes, TypeQueue
<1>2. /\ Len(queue') = Len(queue) + 1 /\ Len(queue) \in Nat
      /\ queue'[Len(queue) + 1] = r /\ \A k \in 1..Len(queue) : queue'[k] = queue[k]
  BY <1>1, Joined
<1>3. ASSUME NEW k, Changing(k) PROVE Changing(k)' /\ queue'[k] = queue[k]
  <2>1. k \in 1..Len(queue) /\ k \in 1..(Len(queue) + 1)
    BY <1>2, <1>3 DEF Changing
  <2> QED BY <1>2, <1>3, <2>1 DEF Changing
<1>4. ASSUME NEW k, Changing(k)'
      PROVE  \/ Changing(k) /\ queue'[k] = queue[k]
             \/ k = Len(queue) + 1 /\ queue'[k] = r /\ r.op \in Changes
  <2>1. k \in 1..Len(queue) \/ k = Len(queue) + 1
    BY <1>2, <1>4 DEF Changing
  <2> QED BY <1>2, <1>4, <2>1 DEF Changing
<1> QED BY <1>3, <1>4

\* A rollback touches one task, and leaves it as it was before the change.
LEMMA UndoIs ==
  ASSUME StoreTypes, NEW r \in Request, ChangeWF(r), Undo(r)
  PROVE  /\ \A i \in Ids : r.op \notin Changes \/ i # r.id =>
              tasks'[i] = tasks[i] /\ jobs'[i] = jobs[i] /\ rec'[i] = rec[i]
         /\ r.op \in Changes /\ Made(r) => Memory'[r.id] = Before(r)
         /\ r.op \in Changes /\ Made(r) /\ Follows(r.id) => Follows(r.id)'
<1> USE DEF StoreTypes, TypeMem
<1>1. r.id \in Ids /\ r.gen \in 0..MaxGen /\ (r.op \in Changes => r.gen \in Gens /\ r.gen # 0)
  BY Bounds DEF Request, ChangeWF
<1>2. CASE r.op = "schedule"
  <2>1. /\ tasks' = [tasks EXCEPT ![r.id] = 0] /\ jobs' = [jobs EXCEPT ![r.id] = 0]
        /\ UNCHANGED rec
    BY <1>2 DEF Undo
  <2>2. \A i \in Ids : i # r.id => tasks'[i] = tasks[i] /\ jobs'[i] = jobs[i]
    BY <1>1, <2>1
  <2>3. tasks'[r.id] = 0 /\ jobs'[r.id] = 0
    BY <1>1, <2>1
  <2>4. Memory'[r.id] = Before(r)
    BY <1>1, <1>2, <2>3 DEF Memory, Live, Before
  <2>5. Follows(r.id)'
    BY <2>3 DEF Follows, On, Live
  <2>6. r.op \in Changes
    BY <1>2 DEF Changes
  <2> QED BY <2>1, <2>2, <2>4, <2>5, <2>6
<1>3. CASE r.op = "remove"
  <2>1. /\ tasks' = [tasks EXCEPT ![r.id] = r.gen]
        /\ jobs' = IF rec[r.id][r.gen].on THEN [jobs EXCEPT ![r.id] = r.gen] ELSE jobs
        /\ UNCHANGED rec
    BY <1>3 DEF Undo
  <2>2. \A i \in Ids : i # r.id => tasks'[i] = tasks[i] /\ jobs'[i] = jobs[i]
    BY <1>1, <2>1
  <2>3. tasks'[r.id] = r.gen /\ r.gen # 0 /\ r.op \in Changes
    BY <1>1, <1>3, <2>1 DEF Changes
  <2>4. Memory'[r.id] = Before(r)
    BY <1>1, <1>3, <2>1, <2>3 DEF Memory, Live, Before
  <2>5. Made(r) /\ Follows(r.id) => jobs[r.id] = 0
    BY <1>3 DEF Made, Follows, On, Live
  <2>6. Made(r) /\ Follows(r.id) => Follows(r.id)'
    BY <1>1, <2>1, <2>3, <2>5 DEF Follows, On, Live
  <2> QED BY <2>1, <2>2, <2>3, <2>4, <2>6
<1>4. CASE r.op \in {"enable", "disable", "update"}
  <2>1. PICK f \in Rec :
          /\ rec' = [rec EXCEPT ![r.id] = [rec[r.id] EXCEPT ![r.gen] = f]]
          /\ f = Before(r)
          /\ r.op = "enable" => ~f.on /\ jobs' = [jobs EXCEPT ![r.id] = 0]
          /\ r.op = "disable" => f.on /\ jobs' = [jobs EXCEPT ![r.id] = r.gen]
          /\ r.op = "update" =>
               /\ f.on = rec[r.id][r.gen].on
               /\ jobs' = IF r.cron /\ rec[r.id][r.gen].on
                          THEN [jobs EXCEPT ![r.id] = r.gen] ELSE jobs
    <3>1. r.gen \in Gens /\ rec[r.id][r.gen] \in Rec
      BY <1>1, <1>4 DEF Changes
    <3>2. r.op = "update" => r.was \in Texts
      BY DEF ChangeWF, Changes
    <3>3. Before(r) \in Rec
      BY <1>4, <3>1, <3>2 DEF Before, Rec
    <3>4. rec' = [rec EXCEPT ![r.id] = [rec[r.id] EXCEPT ![r.gen] = Before(r)]]
      BY <1>1, <1>4, <3>1 DEF Undo, Before
    <3>5. /\ r.op = "enable" => ~Before(r).on /\ jobs' = [jobs EXCEPT ![r.id] = 0]
          /\ r.op = "disable" => Before(r).on /\ jobs' = [jobs EXCEPT ![r.id] = r.gen]
          /\ r.op = "update" =>
               /\ Before(r).on = rec[r.id][r.gen].on
               /\ jobs' = IF r.cron /\ rec[r.id][r.gen].on
                          THEN [jobs EXCEPT ![r.id] = r.gen] ELSE jobs
      BY <3>1 DEF Undo, Before, Rec
    <3> QED BY <3>3, <3>4, <3>5
  <2>2. UNCHANGED tasks /\ r.op \in Changes /\ r.op # "remove"
    BY <1>4 DEF Undo, Changes
  <2>3. /\ \A i \in Ids : i # r.id => rec'[i] = rec[i] /\ jobs'[i] = jobs[i]
        /\ rec'[r.id][r.gen] = f
    BY <1>1, <1>4, <2>1, <2>2
  <2>4. Made(r) => Memory'[r.id] = f
    BY <1>1, <2>2, <2>3 DEF Made, Memory, Live
  <2>5. Made(r) /\ Follows(r.id) => Follows(r.id)'
    BY <1>1, <1>4, <2>1, <2>2, <2>3 DEF Made, Follows, On, Live
  <2> QED BY <2>1, <2>2, <2>3, <2>4, <2>5
<1>5. CASE r.op \in {"stats", "followup", "repair"}
  BY <1>5 DEF Undo, Changes
<1> QED BY <1>2, <1>3, <1>4, <1>5 DEF Request, Changes

LEMMA SameTask ==
  ASSUME NEW i \in Ids, tasks'[i] = tasks[i], rec'[i] = rec[i]
  PROVE  /\ Memory'[i] = Memory[i] /\ (On(i)' <=> On(i))
         /\ (jobs'[i] = jobs[i] => (Follows(i)' <=> Follows(i)))
  BY DEF Memory, Live, On, Follows

LEMMA AnswerJobs ==
  ASSUME StoreTypes, JobsInv, queue # <<>>, UNCHANGED tangled,
         Resolve(Head(queue)) \/ Reject(Head(queue)),
         queue' = Tail(queue) \/ queue' = Append(Tail(queue), Nobody("followup"))
  PROVE  JobsInv' /\ proc' # "down"
<1>1. PICK r \in Request :
        r = Head(queue) /\ r = queue[1] /\ 1 \in 1..Len(queue) /\ ChangeWF(r)
  BY Answered, LeftTypes DEF StoreTypes, TypeQueue
<1>2. \A k : Changing(k)' => /\ Changing(k + 1) /\ k \in Nat /\ k # 0
                             /\ queue'[k] = queue[k + 1]
  BY LeftRequests DEF Changing
<1>3. \A k : Changing(k) => k \in 1..Len(queue) /\ queue[k].id \in Ids
  <2>1. queue \in Seq(Request) /\ \A q \in Request : q.id \in Ids
    BY DEF StoreTypes, TypeQueue, Request
  <2> QED BY <2>1 DEF Changing
<1>4. /\ proc # "down" /\ (proc' = proc \/ proc' = "up")
      /\ (r.op \in Changes => Changing(1) /\ proc = "up" /\ UNCHANGED proc)
  <2>1. r.op \in Changes => Changing(1) /\ r.op # "repair"
    BY <1>1 DEF Changing, Changes
  <2> QED BY <1>1, <2>1 DEF JobsInv, OnlyUp, Resolve, Reject, Repaired
<1>5. OneEach'
  <2> SUFFICES ASSUME NEW k, NEW l, Changing(k)', Changing(l)', queue'[k].id = queue'[l].id
               PROVE  k = l \/ queue'[k].id \in tangled'
    BY DEF OneEach
  <2>1. /\ Changing(k + 1) /\ Changing(l + 1) /\ queue[k + 1].id = queue[l + 1].id
        /\ queue'[k].id = queue[k + 1].id /\ k \in Nat /\ l \in Nat
    BY <1>2
  <2> QED BY <1>3, <2>1 DEF JobsInv, OneEach
<1>6. OnlyUp'
  BY <1>2, <1>3, <1>4 DEF JobsInv, OnlyUp
<1>7. CASE UNCHANGED <<tasks, rec>>
  <2>1. \A i \in Ids : Memory'[i] = Memory[i] /\ (On(i)' <=> On(i))
    BY <1>7, SameTask
  <2>2. MadeBy'
    BY <1>2, <1>3, <1>7, <2>1 DEF JobsInv, MadeBy, Made
  <2>3. JobsFollowTasks'
    <3>1. CASE UNCHANGED jobs /\ UNCHANGED proc
      BY <1>7, <2>1, <3>1 DEF JobsInv, JobsFollowTasks
    <3>2. CASE Repaired
      BY <1>7, <2>1, <3>2 DEF Repaired, JobsOf, JobsFollowTasks, Memory, On, Live, Gone
    <3>3. CASE Undo(r) /\ UNCHANGED proc
      <4>1. CASE r.op \notin Changes
        BY <1>1, <1>7, <2>1, <3>3, <4>1, UndoIs DEF JobsInv, JobsFollowTasks
      <4>2. CASE r.op \in Changes
        <5>1. Made(r) \/ r.id \in tangled
          BY <1>1, <1>4, <4>2 DEF JobsInv, MadeBy
        <5>2. \A i \in Ids : i # r.id => jobs'[i] = jobs[i]
          BY <1>1, <3>3, UndoIs
        <5>3. Made(r) /\ Follows(r.id) => Follows(r.id)'
          BY <1>1, <3>3, <4>2, UndoIs
        <5>4. \A i \in Ids \ tangled : Follows(i)
          BY <1>4, <4>2 DEF JobsInv, JobsFollowTasks, Follows
        <5>5. \A i \in Ids \ tangled : Follows(i)'
          BY <1>7, <2>1, <5>1, <5>2, <5>3, <5>4, SameTask
        <5> QED BY <5>5 DEF JobsFollowTasks, Follows
      <4> QED BY <4>1, <4>2
    <3> QED BY <1>1, <3>1, <3>2, <3>3 DEF Resolve, Reject
  <2> QED BY <1>4, <1>5, <1>6, <2>2, <2>3 DEF JobsInv
<1>8. CASE Undo(r) /\ UNCHANGED proc /\ r.op \in Changes
  <2>1. Made(r) \/ r.id \in tangled
    BY <1>1, <1>4, <1>8 DEF JobsInv, MadeBy
  <2>2. /\ \A i \in Ids : i # r.id =>
             tasks'[i] = tasks[i] /\ jobs'[i] = jobs[i] /\ rec'[i] = rec[i]
        /\ Made(r) /\ Follows(r.id) => Follows(r.id)'
    BY <1>1, <1>8, UndoIs
  <2>3. \A i \in Ids \ tangled : Follows(i)
    BY <1>4, <1>8 DEF JobsInv, JobsFollowTasks, Follows
  <2>4. \A i \in Ids \ tangled : Follows(i)'
    BY <2>1, <2>2, <2>3, SameTask
  <2>5. MadeBy'
    <3> SUFFICES ASSUME NEW k, Changing(k)', queue'[k].id \notin tangled
                 PROVE  Made(queue[k])'
      BY DEF MadeBy
    <3>1. PICK q : q = queue[k + 1] /\ q = queue'[k] /\ Changing(k + 1) /\ k + 1 # 1
      BY <1>2
    <3>2. q.id # r.id
      BY <1>1, <1>3, <1>4, <1>8, <3>1 DEF JobsInv, OneEach
    <3>3. Made(q) /\ q.id \in Ids
      BY <1>3, <3>1 DEF JobsInv, MadeBy
    <3> QED BY <2>2, <3>1, <3>2, <3>3, SameTask DEF Made
  <2> QED BY <1>4, <1>5, <1>6, <2>4, <2>5 DEF JobsInv, JobsFollowTasks, Follows
<1>9. CASE Undo(r) /\ r.op \notin Changes
  <2>1. UNCHANGED <<tasks, rec>>
    BY <1>1, <1>9 DEF Undo, Changes
  <2> QED BY <1>7, <2>1
<1> QED BY <1>1, <1>7, <1>8, <1>9 DEF Resolve, Reject, Repaired

\* Nothing but, perhaps, somebody else's request in the queue.
LEMMA KeptJobs ==
  ASSUME StoreTypes, JobsInv, UNCHANGED <<proc, tasks, jobs, rec, tangled>>,
         \/ UNCHANGED queue
         \/ \E op \in {"stats", "followup", "repair"} : queue' = Append(queue, Nobody(op)),
         proc = "down" => UNCHANGED <<queue, save>>
  PROVE  JobsInv'
<1>1. \A k : Changing(k)' => Changing(k) /\ queue'[k] = queue[k]
  <2>1. CASE UNCHANGED queue
    BY <2>1 DEF Changing
  <2>2. ASSUME NEW op \in {"stats", "followup", "repair"}, queue' = Append(queue, Nobody(op))
        PROVE  \A k : Changing(k)' => Changing(k) /\ queue'[k] = queue[k]
    BY <2>2, JoinRequests, NobodyIs
  <2> QED BY <2>1, <2>2
<1>2. OneEach' /\ OnlyUp'
  BY <1>1 DEF JobsInv, OneEach, OnlyUp, Changing
<1>3. \A i \in Ids : Memory'[i] = Memory[i] /\ (On(i)' <=> On(i))
  BY SameTask
<1>4. MadeBy'
  <2> SUFFICES ASSUME NEW k, Changing(k)', queue'[k].id \notin tangled
               PROVE  Made(queue[k])'
    BY DEF MadeBy
  <2>1. PICK q : q = queue[k] /\ q = queue'[k] /\ Changing(k)
    BY <1>1
  <2>2. k \in 1..Len(queue) /\ q \in Request
    BY <2>1 DEF Changing, StoreTypes, TypeQueue
  <2>3. Made(q) /\ q.id \in Ids
    BY <2>1, <2>2 DEF JobsInv, MadeBy, Request
  <2> QED BY <1>3, <2>1, <2>3 DEF Made
<1>5. JobsFollowTasks'
  BY <1>3 DEF JobsInv, JobsFollowTasks
<1> QED BY <1>2, <1>4, <1>5 DEF JobsInv

LEMMA CallJobs ==
  ASSUME StoreTypes, JobsInv, NEW op \in Changes, NEW i \in Ids, NEW g \in Gens,
         NEW was \in 0..MaxText, NEW cron \in BOOLEAN, NEW new \in Rec \cup {Gone},
         Call(op, i, g, was, cron, new),
         \A j \in Ids : j # i => tasks'[j] = tasks[j] /\ jobs'[j] = jobs[j] /\ rec'[j] = rec[j],
         Follows(i) => Follows(i)', Memory'[i] = new,
         tasks'[i] = IF op = "remove" THEN 0 ELSE g
  PROVE  JobsInv'
<1>1. PICK r \in Request : r = [op |-> op, id |-> i, gen |-> g, was |-> was, cron |-> cron,
                               new |-> new]
  BY Bounds DEF Request
<1>2. /\ queue' = Append(queue, r) /\ proc = "up" /\ UNCHANGED proc
      /\ tangled' = IF Pending(i) THEN tangled \cup {i} ELSE tangled
  BY <1>1 DEF Call, SaveTasks
<1>3. /\ \A k : Changing(k)' => \/ Changing(k) /\ queue'[k] = queue[k]
                                \/ k = Len(queue) + 1 /\ queue'[k] = r
      /\ \A k : Changing(k) => Pending(queue[k].id)
  <2>1. \A k : Changing(k) => Pending(queue[k].id)
    BY DEF Changing, Pending
  <2> QED BY <1>2, <2>1, JoinRequests
<1>4. /\ \A k : Changing(k) => k \in 1..Len(queue) /\ queue[k].id \in Ids
      /\ r.id = i /\ r.op = op /\ r.gen = g /\ r.new = new
  <2>1. queue \in Seq(Request) /\ \A q \in Request : q.id \in Ids
    BY DEF StoreTypes, TypeQueue, Request
  <2> QED BY <1>1, <2>1 DEF Changing
<1>5. OneEach'
  <2> SUFFICES ASSUME NEW k, NEW l, Changing(k)', Changing(l)', queue'[k].id = queue'[l].id
               PROVE  k = l \/ queue'[k].id \in tangled'
    BY DEF OneEach
  <2>1. CASE Changing(k) /\ Changing(l) /\ queue'[k] = queue[k] /\ queue'[l] = queue[l]
    BY <1>2, <2>1 DEF JobsInv, OneEach, Changing
  <2>2. CASE Changing(k) /\ queue'[k] = queue[k] /\ queue'[l] = r
    BY <1>2, <1>3, <1>4, <2>2
  <2>3. CASE Changing(l) /\ queue'[l] = queue[l] /\ queue'[k] = r
    BY <1>2, <1>3, <1>4, <2>3
  <2> QED BY <1>3, <2>1, <2>2, <2>3
<1>6. OnlyUp'
  BY <1>2 DEF OnlyUp
<1>7. MadeBy'
  <2> SUFFICES ASSUME NEW k, Changing(k)', queue'[k].id \notin tangled'
               PROVE  Made(queue[k])'
    BY DEF MadeBy
  <2>1. CASE k = Len(queue) + 1 /\ queue'[k] = r
    BY <1>4, <2>1 DEF Made
  <2>2. CASE Changing(k) /\ queue'[k] = queue[k]
    <3>1. PICK q : q = queue[k] /\ q = queue'[k]
      BY <2>2
    <3>2. q.id \in Ids /\ q.id \notin tangled /\ q.id # i
      BY <1>2, <1>3, <1>4, <2>2, <3>1
    <3>3. Made(q)
      BY <2>2, <3>1, <3>2 DEF JobsInv, MadeBy, Changing
    <3> QED BY <3>1, <3>2, <3>3, SameTask DEF Made
  <2> QED BY <1>3, <2>1, <2>2
<1>8. JobsFollowTasks'
  <2>1. \A j \in Ids \ tangled : Follows(j)
    BY <1>2 DEF JobsInv, JobsFollowTasks, Follows
  <2>2. \A j \in Ids \ tangled' : Follows(j)'
    BY <1>2, <2>1, SameTask
  <2> QED BY <2>2 DEF JobsFollowTasks, Follows
<1> QED BY <1>5, <1>6, <1>7, <1>8 DEF JobsInv

\* Each call and its effect on the one task, as the invariants need it.
CallOf(i, r) ==
  /\ r.id = i /\ r.op \in Changes /\ r.gen \in Gens
  /\ Call(r.op, i, r.gen, r.was, r.cron, r.new)
  /\ \A j \in Ids : j # i => tasks'[j] = tasks[j] /\ jobs'[j] = jobs[j] /\ rec'[j] = rec[j]
  /\ Follows(i) => Follows(i)'
  /\ Memory'[i] = r.new
  /\ tasks'[i] = IF r.op = "remove" THEN 0 ELSE r.gen
  /\ \/ r.op = "schedule" /\ i \in fresh /\ fresh' = fresh \ {i}
     \/ r.op # "schedule" /\ Live(i) /\ Before(r)' = Memory[i] /\ UNCHANGED fresh

LEMMA EditIs ==
  ASSUME StoreTypes, NEW i \in Ids, NEW op \in {"enable", "disable", "update"}, NEW f \in Rec,
         NEW was \in 0..MaxText, NEW cron \in BOOLEAN, Live(i), Edited(i, op, f, was, cron),
         \/ op = "enable" /\ f = [rec[i][tasks[i]] EXCEPT !.on = TRUE] /\ ~On(i)
            /\ jobs' = [jobs EXCEPT ![i] = tasks[i]]
         \/ op = "disable" /\ f = [rec[i][tasks[i]] EXCEPT !.on = FALSE] /\ On(i)
            /\ jobs' = [jobs EXCEPT ![i] = 0]
         \/ op = "update" /\ was = rec[i][tasks[i]].text
            /\ (\E t \in Texts : f = [rec[i][tasks[i]] EXCEPT !.text = t])
            /\ jobs' = IF cron /\ On(i) THEN [jobs EXCEPT ![i] = tasks[i]] ELSE jobs
  PROVE  \E r \in Request : CallOf(i, r)
<1> USE DEF StoreTypes, TypeMem
<1>1. tasks[i] \in Gens /\ rec[i][tasks[i]] \in Rec /\ tasks[i] # 0
  BY TheObject, Bounds DEF Live
<1>2. PICK r \in Request : r = [op |-> op, id |-> i, gen |-> tasks[i], was |-> was,
                               cron |-> cron, new |-> f]
  BY <1>1, Bounds DEF Request, Changes
<1>3. /\ r.id = i /\ r.op = op /\ r.gen = tasks[i] /\ r.was = was /\ r.cron = cron
      /\ r.new = f /\ op \in Changes /\ op # "schedule" /\ op # "remove"
  BY <1>2 DEF Changes
<1>4. /\ \A j \in Ids : j # i => tasks'[j] = tasks[j] /\ jobs'[j] = jobs[j] /\ rec'[j] = rec[j]
      /\ rec'[i][tasks[i]] = f /\ UNCHANGED <<tasks, fresh>>
      /\ Call(r.op, i, r.gen, r.was, r.cron, r.new)
  BY <1>1, <1>3 DEF Edited
<1>5. Memory'[i] = r.new
  BY <1>1, <1>3, <1>4 DEF Memory, Live
<1>6. /\ Memory[i] = rec[i][tasks[i]] /\ (On(i) <=> rec[i][tasks[i]].on)
      /\ (On(i)' <=> f.on)
  BY <1>1, <1>4 DEF Memory, On, Live
<1>7. Follows(i) => Follows(i)'
  <2>1. /\ op = "enable" => f.on /\ jobs'[i] = tasks[i]
        /\ op = "disable" => ~f.on /\ jobs'[i] = 0
        /\ op = "update" => /\ f.on = rec[i][tasks[i]].on
                            /\ jobs'[i] = IF cron /\ On(i) THEN tasks[i] ELSE jobs[i]
    BY <1>1 DEF Rec
  <2> QED BY <1>3, <1>4, <1>6, <2>1 DEF Follows
<1>8. Before(r)' = Memory[i]
  <2>1. /\ op = "enable" => ~rec[i][tasks[i]].on /\ [f EXCEPT !.on = FALSE] = rec[i][tasks[i]]
        /\ op = "disable" => rec[i][tasks[i]].on /\ [f EXCEPT !.on = TRUE] = rec[i][tasks[i]]
        /\ op = "update" => [f EXCEPT !.text = was] = rec[i][tasks[i]]
    BY <1>1, <1>6 DEF Rec
  <2> QED BY <1>3, <1>4, <1>6, <2>1 DEF Before
<1> QED BY <1>1, <1>3, <1>4, <1>5, <1>7, <1>8 DEF CallOf

LEMMA CallsAre ==
  ASSUME StoreTypes, NEW i \in Ids,
         Schedule(i) \/ Remove(i) \/ Enable(i) \/ Disable(i) \/ Update(i)
  PROVE  \E r \in Request : CallOf(i, r)
<1> USE DEF StoreTypes, TypeMem
<1>1. CASE Schedule(i)
  <2> DEFINE g == gens[i] + 1
  <2>1. g \in Gens /\ g # 0 /\ [on |-> TRUE, text |-> 1] \in Rec
    BY <1>1, StoreAssumption DEF Schedule, Gens, Rec, Texts
  <2>2. PICK r \in Request : r = [op |-> "schedule", id |-> i, gen |-> g, was |-> 0,
                                 cron |-> FALSE, new |-> [on |-> TRUE, text |-> 1]]
    BY <2>1, Bounds DEF Request, Changes
  <2>3. /\ r.id = i /\ r.op = "schedule" /\ r.gen = g /\ r.new = [on |-> TRUE, text |-> 1]
        /\ r.was = 0 /\ r.cron = FALSE /\ r.op \in Changes
    BY <2>2 DEF Changes
  <2>4. /\ rec' = [rec EXCEPT ![i] = [rec[i] EXCEPT ![g] = r.new]]
        /\ tasks' = [tasks EXCEPT ![i] = g] /\ jobs' = [jobs EXCEPT ![i] = g]
        /\ Call("schedule", i, g, 0, FALSE, r.new) /\ i \in fresh /\ fresh' = fresh \ {i}
    BY <1>1, <2>3 DEF Schedule
  <2> HIDE DEF g
  <2>5. /\ \A j \in Ids : j # i => tasks'[j] = tasks[j] /\ jobs'[j] = jobs[j] /\ rec'[j] = rec[j]
        /\ tasks'[i] = g /\ jobs'[i] = g /\ rec'[i][g] = r.new
    BY <2>1, <2>4
  <2>6. Memory'[i] = r.new /\ Follows(i)'
    BY <2>1, <2>3, <2>5 DEF Memory, Live, On, Follows
  <2> QED BY <2>1, <2>3, <2>4, <2>5, <2>6 DEF CallOf
<1>2. CASE Remove(i)
  <2>1. tasks[i] \in Gens /\ Live(i) /\ tasks[i] # 0
    BY <1>2, Bounds DEF Remove, Live
  <2>2. PICK r \in Request : r = [op |-> "remove", id |-> i, gen |-> tasks[i], was |-> 0,
                                 cron |-> FALSE, new |-> Gone]
    BY <2>1, Bounds DEF Request, Changes
  <2>3. /\ r.id = i /\ r.op = "remove" /\ r.gen = tasks[i] /\ r.new = Gone
        /\ r.was = 0 /\ r.cron = FALSE /\ r.op \in Changes
    BY <2>2 DEF Changes
  <2>4. /\ tasks' = [tasks EXCEPT ![i] = 0] /\ jobs' = [jobs EXCEPT ![i] = 0]
        /\ Call("remove", i, tasks[i], 0, FALSE, Gone) /\ UNCHANGED <<fresh, rec>>
    BY <1>2 DEF Remove
  <2>5. /\ \A j \in Ids : j # i => tasks'[j] = tasks[j] /\ jobs'[j] = jobs[j]
        /\ tasks'[i] = 0 /\ jobs'[i] = 0
    BY <2>4
  <2>6. Memory'[i] = Gone /\ Follows(i)' /\ Before(r)' = Memory[i]
    BY <2>1, <2>3, <2>4, <2>5 DEF Memory, Live, On, Follows, Before
  <2> QED BY <2>1, <2>3, <2>4, <2>5, <2>6 DEF CallOf
<1>3. CASE Enable(i)
  BY <1>3, EnableIs, EditIs, Bounds
<1>4. CASE Disable(i)
  BY <1>4, DisableIs, EditIs, Bounds
<1>5. CASE Update(i)
  <2>1. PICK t \in Texts, cron \in BOOLEAN :
          /\ jobs' = IF cron /\ On(i) THEN [jobs EXCEPT ![i] = tasks[i]] ELSE jobs
          /\ [rec[i][tasks[i]] EXCEPT !.text = t] \in Rec
          /\ Edited(i, "update", [rec[i][tasks[i]] EXCEPT !.text = t],
                    rec[i][tasks[i]].text, cron)
    BY <1>5, UpdateIs
  <2>2. Live(i) /\ rec[i][tasks[i]].text \in 0..MaxText
    BY <1>5, UpdateIs, Bounds
  <2> QED BY <2>1, <2>2, EditIs
<1> QED BY <1>1, <1>2, <1>3, <1>4, <1>5

LEMMA LoadedMemory ==
  ASSUME StoreTypes, NEW c \in Content, LoadedWith(c)
  PROVE  Memory' = c /\ (jobs' = JobsOf(c, tasks') => \A i \in Ids : Follows(i)')
<1> USE DataTypes, Bounds DEF LoadedWith
<1>1. \A i \in Ids : IF c[i] = Gone THEN tasks'[i] = 0
                    ELSE tasks'[i] = 1 /\ rec'[i][1] = c[i]
  OBVIOUS
<1>2. Memory' = c
  <2>1. Memory' = [i \in Ids |-> c[i]]
    BY <1>1 DEF Memory, Live
  <2> QED BY <2>1 DEF Content
<1>3. ASSUME NEW i \in Ids, jobs' = JobsOf(c, tasks') PROVE Follows(i)'
  BY <1>1, <1>3 DEF JobsOf, Follows, On, Live, Gone
<1> QED BY <1>2, <1>3

LEMMA EndIs ==
  ASSUME StoreTypes, SaveSucceeds \/ SaveFails, UNCHANGED tangled
  PROVE  \/ /\ queue # <<>> /\ save.awaited
            /\ (Resolve(Head(queue)) /\ SaveSucceeds) \/ (Reject(Head(queue)) /\ SaveFails)
            /\ queue' = Tail(queue) \/ queue' = Append(Tail(queue), Nobody("followup"))
         \/ /\ ~save.awaited /\ UNCHANGED <<proc, tasks, jobs, rec, promised>>
            /\ UNCHANGED queue \/ queue' = Append(queue, Nobody("followup"))
<1>1. save.awaited \in BOOLEAN /\ (save.awaited => queue # <<>>)
  BY DEF StoreTypes, TypeDisk, TypeQueue, Save
<1> QED BY <1>1 DEF SaveSucceeds, SaveFails, Ended

LEMMA EndJobs ==
  ASSUME StoreTypes, JobsInv, InFlight, SaveSucceeds \/ SaveFails, UNCHANGED tangled
  PROVE  JobsInv'
<1>1. proc # "down" \/ save = NoSave
  BY DEF JobsInv, OnlyUp
<1>2. proc # "down"
  BY <1>1 DEF InFlight, NoSave
<1>3. CASE /\ queue # <<>>
           /\ Resolve(Head(queue)) \/ Reject(Head(queue))
           /\ queue' = Tail(queue) \/ queue' = Append(Tail(queue), Nobody("followup"))
  BY <1>3, AnswerJobs
<1>4. CASE /\ UNCHANGED <<proc, tasks, jobs, rec, promised>>
           /\ UNCHANGED queue \/ queue' = Append(queue, Nobody("followup"))
  BY <1>2, <1>4, KeptJobs
<1> QED BY <1>3, <1>4, EndIs

LEMMA ReloadJobs ==
  ASSUME StoreTypes, JobsInv, ReloadApply PROVE JobsInv'
<1> DEFINE Added == {i \in Ids : ~Live(i) /\ reload.map[i] # Gone}
<1>1. /\ tangled' = tangled \cup {i \in Ids : Pending(i)}
      /\ UNCHANGED <<proc, queue, save>>
  BY DEF ReloadApply, disk
<1>2. \A k \in 1..Len(queue) : Changing(k) => queue[k].id \in tangled'
  <2>1. queue \in Seq(Request) /\ \A q \in Request : q.id \in Ids
    BY DEF StoreTypes, TypeQueue, Request
  <2>2. \A k \in 1..Len(queue) : queue[k].id \in Ids
    BY <2>1
  <2> QED BY <1>1, <2>2 DEF Changing, Pending
<1>3. OneEach' /\ OnlyUp' /\ MadeBy'
  BY <1>1, <1>2 DEF JobsInv, OneEach, OnlyUp, MadeBy, Changing
<1>4. ASSUME NEW i \in Ids, Follows(i) PROVE Follows(i)'
  <2> USE <1>4 DEF Follows, On
  <2>1. /\ tasks[i] \in 0..MaxGen /\ (tasks[i] # 0 => tasks[i] \in Gens)
        /\ gens[i] \in 0..MaxGen /\ reload.map[i] \in Rec \cup {Gone}
        /\ \A g \in Gens : rec[i][g] \in Rec
    BY FileTypes, Bounds DEF StoreTypes, TypeMem, Content
  <2>2. CASE i \in Added
    <3>1. gens[i] + 1 \in Gens /\ gens[i] + 1 # 0
      BY <2>1, <2>2, StoreAssumption DEF ReloadApply, Gens
    <3>2. tasks'[i] = gens[i] + 1 /\ rec'[i][gens[i] + 1] = reload.map[i]
      BY <2>2, <3>1 DEF ReloadApply
    <3>3. jobs'[i] = IF reload.map[i].on THEN gens[i] + 1 ELSE jobs[i]
      BY <2>2 DEF ReloadApply
    <3> QED BY <2>2, <3>1, <3>2, <3>3 DEF Live
  <2>3. CASE ~Live(i) /\ reload.map[i] = Gone
    BY <2>3 DEF ReloadApply, Live
  <2>4. CASE Live(i) /\ reload.map[i] = Gone
    BY <2>4 DEF ReloadApply, Live
  <2>5. CASE Live(i) /\ reload.map[i] # Gone
    <3>1. tasks[i] \in Gens /\ tasks'[i] = tasks[i] /\ i \notin Added
      BY <2>1, <2>5 DEF ReloadApply, Live
    <3>2. rec'[i][tasks[i]].on = reload.map[i].on
      <4>1. rec'[i][tasks[i]] = [rec[i][tasks[i]] EXCEPT !.on = reload.map[i].on]
        BY <2>5, <3>1 DEF ReloadApply
      <4> QED BY <2>1, <3>1, <4>1 DEF Rec
    <3>3. jobs'[i] = IF ~On(i) /\ reload.map[i].on THEN tasks[i]
                     ELSE IF On(i) /\ ~reload.map[i].on THEN 0 ELSE jobs[i]
      BY <2>5, <3>1 DEF ReloadApply
    <3> QED BY <2>5, <3>1, <3>2, <3>3 DEF Live
  <2> QED BY <2>2, <2>3, <2>4, <2>5
<1>5. JobsFollowTasks'
  BY <1>1, <1>4 DEF JobsInv, JobsFollowTasks, Follows
<1> QED BY <1>3, <1>5 DEF JobsInv

LEMMA LoadJobs ==
  ASSUME StoreTypes, JobsInv, LoadTasks PROVE JobsInv'
<1>1. queue = <<>> /\ proc = "down"
  BY DEF LoadTasks, JobsInv, OnlyUp
<1>2. \/ proc' = "loading" /\ queue' = Append(queue, Nobody("repair"))
      \/ /\ proc' = "up" /\ UNCHANGED queue
         /\ \E c \in Content : LoadedWith(c) /\ jobs' = JobsOf(c, tasks')
  BY FileTypes, DataTypes DEF LoadTasks, Recover, LoadUp, SaveTasks
<1>3. \A k : ~Changing(k)'
  <2>1. \A k : ~Changing(k)
    BY <1>1 DEF Changing
  <2>2. CASE UNCHANGED queue
    BY <2>1, <2>2 DEF Changing
  <2>3. CASE queue' = Append(queue, Nobody("repair"))
    BY <2>1, <2>3, JoinRequests, NobodyIs
  <2> QED BY <1>2, <2>2, <2>3
<1>4. OneEach' /\ OnlyUp' /\ MadeBy'
  BY <1>2, <1>3 DEF OneEach, OnlyUp, MadeBy
<1>5. JobsFollowTasks'
  BY <1>2, LoadedMemory DEF JobsFollowTasks, Follows
<1> QED BY <1>4, <1>5 DEF JobsInv

LEMMA JobsStep ==
  ASSUME StoreTypes, JobsInv, [StoreNext]_storeVars PROVE JobsInv'
<1> USE DEF mem, disk, outer, marks
<1>1. CASE Start
  <2>1. queue # <<>> /\ UNCHANGED tangled
    BY <1>1 DEF Start, Ready
  <2>2. CASE Skip
    BY <2>1, <2>2, AnswerJobs DEF Skip
  <2>3. CASE BeginSave
    BY <2>1, <2>3, KeptJobs DEF BeginSave, JobsInv, OnlyUp
  <2> QED BY <1>1, <2>2, <2>3 DEF Start
<1>2. CASE Calls
  <2>1. CASE StatsSave
    BY <2>1, KeptJobs DEF StatsSave, SaveTasks
  <2>2. ASSUME NEW i \in Ids, NEW r \in Request, CallOf(i, r) PROVE JobsInv'
    <3>1. r.was \in 0..MaxText /\ r.cron \in BOOLEAN /\ r.new \in Rec \cup {Gone}
      BY DEF Request
    <3> QED BY <2>2, <3>1, CallJobs DEF CallOf
  <2> QED BY <1>2, <2>1, <2>2, CallsAre DEF Calls
<1>3. CASE SaveStep /\ ~RenameTmp
  <2>1. StepOnly /\ InFlight
    BY <1>3 DEF SaveStep, OpenTmp, FillTmp, ReadPrimary, OpenBackup, FillBackup, At, InFlight
  <2>2. proc # "down"
    BY <2>1 DEF JobsInv, OnlyUp, InFlight, NoSave
  <2> QED BY <2>1, <2>2, KeptJobs DEF StepOnly
<1>4. CASE RenameTmp
  BY <1>4, EndJobs DEF RenameTmp, At, InFlight
<1>5. CASE OpFails \/ OpTimesOut
  <2>1. InFlight /\ UNCHANGED tangled
    BY <1>5 DEF OpFails, OpTimesOut
  <2>2. CASE Critical
    BY <1>5, <2>1, <2>2, EndJobs DEF OpFails, OpTimesOut
  <2>3. CASE ~Critical
    <3>1. proc # "down"
      BY <2>1 DEF JobsInv, OnlyUp, InFlight, NoSave
    <3> QED BY <1>5, <2>1, <2>3, <3>1, KeptJobs DEF OpFails, OpTimesOut
  <2> QED BY <2>2, <2>3
<1>6. CASE SaveTimesOut
  <2>1. queue # <<>>
    BY <1>6 DEF SaveTimesOut, StoreTypes, TypeQueue
  <2> QED BY <1>6, <2>1, AnswerJobs DEF SaveTimesOut
<1>7. CASE Crash
  BY <1>7 DEF Crash, JobsInv, OneEach, OnlyUp, MadeBy, JobsFollowTasks, Changing
<1>8. CASE CliKilled \/ CliWrite \/ \E i \in Ids : CliToggle(i)
  BY <1>8, KeptJobs DEF CliKilled, CliWrite, CliToggle, CliOnly
<1>9. CASE \E n \in 1..MaxFaults : LateStep(n)
  <2>1. /\ UNCHANGED <<proc, mem, queue, tangled>>
        /\ UNCHANGED save \/ At("fillTmp")
    BY <1>9 DEF LateStep
  <2>2. proc = "down" => UNCHANGED save
    BY <2>1 DEF JobsInv, OnlyUp, NoSave, At
  <2> QED BY <2>1, <2>2, KeptJobs
<1>10. CASE ReloadRead
  BY <1>10, KeptJobs DEF ReloadRead
<1>11. CASE ReloadApply  BY <1>11, ReloadJobs
<1>12. CASE LoadTasks  BY <1>12, LoadJobs
<1>13. CASE UNCHANGED storeVars
  BY <1>13, KeptJobs DEF storeVars
<1> QED
  BY <1>1, <1>2, <1>3, <1>4, <1>5, <1>6, <1>7, <1>8, <1>9, <1>10, <1>11, <1>12, <1>13
     DEF StoreNext, Faulty, External

\* A listed and enabled task has its cron job and no other has one, after every
\* rollback, reload and crash: startTask, stopTask and the rollbacks in schedule,
\* remove, enable, disable and update, two changes of one task in flight apart.
THEOREM JobsFollowTasksCorrect == StoreSpec => []JobsFollowTasks
<1>1. StoreInit => StoreTypes /\ JobsInv
  <2> SUFFICES ASSUME StoreInit PROVE JobsInv
    BY StoreTypeInit
  <2> QED BY DEF StoreInit, JobsInv, OneEach, OnlyUp, MadeBy, JobsFollowTasks, Changing
<1>2. StoreTypes /\ JobsInv /\ [StoreNext]_storeVars => (StoreTypes /\ JobsInv)'
  BY StoreTypeStep, JobsStep
<1>3. JobsInv => JobsFollowTasks
  BY DEF JobsInv
<1> QED BY <1>1, <1>2, <1>3, PTL DEF StoreSpec

-----------------------------------------------------------------------------
(* Errors and crashes alone.  Nothing runs but the save in flight, whose   *)
(* caller waits; what was promised for a task is in memory, in the primary *)
(* and in what the save is about to make the primary.                      *)

Alone ==
  /\ \A n \in 1..MaxFaults : late[n] = NoOp
  /\ cli.step = "idle" /\ reload = Absent
  /\ skipped = FALSE /\ proc # "loading"
  /\ InFlight => save.awaited
  /\ save.step \in {"openTmp", "fillTmp"} => save.at = "tmp"
  /\ save.step \in {"read", "openBackup", "fillBackup", "rename"}
       => files["tmp"] = Json(save.draft)

Held(i) ==
  /\ files["primary"].map[i] = promised[i] /\ ~Pending(i)
  /\ proc = "up" => Memory[i] = promised[i]
  /\ InFlight => save.draft[i] = promised[i]

Promises ==
  /\ files["primary"].kind # "partial"
  /\ \A i \in Ids : promised[i] # Any => Held(i)
  /\ InFlight /\ Changing(1)
       => queue[1].id \in tangled \/ save.draft[queue[1].id] = queue[1].new
  /\ \A i \in fresh : promised[i] = Gone

CrashInv == ~disturbed => Alone /\ Promises

LEMMA PendingIs ==
  /\ \A i : Pending(i) <=> \E k : Changing(k) /\ queue[k].id = i
  /\ \A i : Pending(i)' <=> \E k : Changing(k)' /\ queue'[k].id = i
  BY DEF Pending, Changing

\* The head of the queue when a save ends that nothing disturbed.
LEMMA HeadLeaves ==
  ASSUME StoreTypes, JobsInv, Alone, InFlight, SaveSucceeds \/ SaveFails
  PROVE  /\ queue # <<>> /\ queue' = Tail(queue) /\ proc = "up" /\ proc' = "up"
         /\ save' = NoSave /\ skipped' = FALSE
         /\ (SaveSucceeds /\ Resolve(Head(queue))) \/ (SaveFails /\ Reject(Head(queue)))
<1>1. save.awaited /\ queue # <<>> /\ skipped = FALSE
  BY DEF Alone, StoreTypes, TypeQueue
<1>2. proc = "up"
  BY DEF Alone, JobsInv, OnlyUp, InFlight, NoSave, StoreTypes, TypeProc
<1>3. /\ (SaveSucceeds /\ Resolve(Head(queue))) \/ (SaveFails /\ Reject(Head(queue)))
      /\ save' = NoSave /\ skipped' = FALSE /\ queue' = Tail(queue)
  BY <1>1 DEF SaveSucceeds, SaveFails, Ended
<1>4. proc' = "up"
  BY <1>2, <1>3 DEF Resolve, Reject, Repaired
<1> QED BY <1>1, <1>2, <1>3, <1>4

LEMMA EndPromises ==
  ASSUME StoreTypes, JobsInv, Alone, Promises, InFlight, UNCHANGED <<tangled, fresh>>,
         \/ SaveSucceeds /\ files'["primary"] = Json(save.draft)
         \/ SaveFails /\ files'["primary"] = files["primary"]
  PROVE  Promises'
<1>1. /\ queue # <<>> /\ queue' = Tail(queue) /\ proc = "up" /\ proc' = "up"
      /\ save' = NoSave /\ skipped' = FALSE
      /\ \/ Resolve(Head(queue)) /\ files'["primary"] = Json(save.draft)
         \/ Reject(Head(queue)) /\ files'["primary"] = files["primary"]
  <2>1. CASE SaveSucceeds /\ files'["primary"] = Json(save.draft)
    <3>1. save.awaited
      BY DEF Alone
    <3> QED BY <2>1, <3>1, HeadLeaves DEF SaveSucceeds
  <2>2. CASE SaveFails /\ files'["primary"] = files["primary"]
    <3>1. save.awaited
      BY DEF Alone
    <3> QED BY <2>2, <3>1, HeadLeaves DEF SaveFails
  <2> QED BY <2>1, <2>2
<1>2. PICK r \in Request :
        r = Head(queue) /\ r = queue[1] /\ 1 \in 1..Len(queue) /\ ChangeWF(r)
  BY <1>1, Answered, LeftTypes DEF StoreTypes, TypeQueue
<1>3. /\ r.id \in Ids /\ (r.op \in Changes => Changing(1) /\ Pending(r.id))
      /\ (r.op = "repair" => r.op \notin Changes)
  BY <1>2 DEF Request, Changing, Pending, Changes
<1>4. ASSUME NEW i, Pending(i)' PROVE Pending(i)
  <2>1. PICK k : Changing(k)' /\ queue'[k].id = i
    BY <1>4, PendingIs
  <2>2. Changing(k + 1) /\ queue[k + 1].id = i
    BY <1>1, <2>1, LeftRequests
  <2> QED BY <2>2, PendingIs
<1>5. ~InFlight'
  BY <1>1 DEF InFlight, NoSave
<1>6. CASE Resolve(r) /\ files'["primary"] = Json(save.draft)
  <2>1. \A i \in Ids : Memory'[i] = Memory[i]
    BY <1>6, SameTask DEF Resolve, Repaired
  <2>2. \A i \in Ids : files'["primary"].map[i] = save.draft[i]
    BY <1>6 DEF Json
  <2>3. ASSUME NEW i \in Ids, promised'[i] = promised[i], promised[i] # Any PROVE Held(i)'
    <3>1. Held(i)
      BY <2>3 DEF Promises
    <3> QED BY <1>1, <1>4, <1>5, <2>1, <2>2, <2>3, <3>1 DEF Held
  <2>4. ASSUME r.op \in Changes, r.id \notin tangled, promised'[r.id] = r.new
        PROVE  Held(r.id)'
    <3>1. save.draft[r.id] = r.new
      BY <1>2, <1>3, <2>4 DEF Promises
    <3>2. Memory[r.id] = r.new
      BY <1>2, <1>3, <2>4 DEF JobsInv, MadeBy, Made
    <3>3. ~Pending(r.id)'
      <4> SUFFICES ASSUME NEW k, Changing(k)', queue'[k].id = r.id PROVE FALSE
        BY PendingIs
      <4>1. Changing(k + 1) /\ queue[k + 1].id = r.id /\ k \in 1..Len(queue')
        BY <1>1, LeftRequests DEF Changing
      <4>2. k + 1 # 1 /\ k + 1 \in 1..Len(queue)
        BY <4>1 DEF Changing
      <4> QED BY <1>2, <1>3, <2>4, <4>1, <4>2 DEF JobsInv, OneEach
    <3> QED BY <1>1, <1>3, <1>5, <2>1, <2>2, <2>4, <3>1, <3>2, <3>3 DEF Held
  <2>5. promised' = IF r.op \in Changes /\ r.id \notin tangled
                    THEN [promised EXCEPT ![r.id] = r.new] ELSE promised
    BY <1>6 DEF Resolve
  <2>6. \A i \in Ids : promised'[i] # Any => Held(i)'
    <3> SUFFICES ASSUME NEW i \in Ids, promised'[i] # Any PROVE Held(i)'
      OBVIOUS
    <3>1. promised'[i] = promised[i] \/ (i = r.id /\ r.op \in Changes /\ r.id \notin tangled
                                         /\ promised'[i] = r.new)
      BY <2>5 DEF StoreTypes, TypeMarks
    <3> QED BY <2>3, <2>4, <3>1
  <2>7. \A i \in fresh : promised'[i] = Gone
    <3>1. \A i \in fresh : i \in Ids /\ promised[i] = Gone /\ ~Pending(i)
      BY DataTypes DEF Promises, Held, StoreTypes, TypeProc
    <3> QED BY <1>3, <2>5, <3>1
  <2>8. files'["primary"].kind # "partial"
    BY <1>6 DEF Json
  <2> QED BY <1>5, <2>6, <2>7, <2>8 DEF Promises
<1>7. CASE Reject(r) /\ files'["primary"] = files["primary"]
  <2>1. UNCHANGED promised
    BY <1>7 DEF Reject
  <2>2. ASSUME NEW i \in Ids, promised[i] # Any PROVE Held(i)'
    <3>1. Held(i) /\ (r.op \in Changes => i # r.id)
      BY <1>3, <2>2 DEF Promises, Held
    <3>2. Memory'[i] = Memory[i]
      <4>1. CASE Undo(r)
        BY <1>2, <3>1, <4>1, UndoIs, SameTask
      <4>2. CASE Repaired
        BY <4>2, SameTask DEF Repaired
      <4> QED BY <1>7, <4>1, <4>2 DEF Reject
    <3> QED BY <1>1, <1>4, <1>5, <1>7, <2>1, <3>1, <3>2 DEF Held
  <2> QED BY <1>5, <1>7, <2>1, <2>2 DEF Promises
<1> QED BY <1>1, <1>2, <1>6, <1>7

LEMMA CallPromises ==
  ASSUME StoreTypes, JobsInv, Alone, Promises, NEW i \in Ids, NEW r \in Request, CallOf(i, r)
  PROVE  Promises'
<1>1. /\ queue' = Append(queue, [op |-> r.op, id |-> i, gen |-> r.gen, was |-> r.was,
                                 cron |-> r.cron, new |-> r.new])
      /\ promised' = [promised EXCEPT ![i] = Any]
      /\ tangled \subseteq tangled' /\ UNCHANGED <<proc, save, files>>
      /\ r.id = i /\ r.op \in Changes
  BY DEF CallOf, Call, SaveTasks, disk
<1>2. queue' = Append(queue, r)
  BY <1>1 DEF Request
<1>3. \A j \in Ids : Pending(j)' => Pending(j) \/ j = i
  <2> SUFFICES ASSUME NEW j \in Ids, Pending(j)' PROVE Pending(j) \/ j = i
    OBVIOUS
  <2>1. PICK k : Changing(k)' /\ queue'[k].id = j
    BY PendingIs
  <2>2. (Changing(k) /\ queue'[k] = queue[k]) \/ queue'[k] = r
    BY <1>2, <2>1, JoinRequests
  <2> QED BY <1>1, <2>1, <2>2, PendingIs
<1>4. ASSUME NEW j \in Ids, promised'[j] # Any PROVE Held(j)'
  <2>1. j # i /\ promised'[j] = promised[j]
    BY <1>1, <1>4 DEF StoreTypes, TypeMarks
  <2>2. Held(j) /\ Memory'[j] = Memory[j]
    BY <1>4, <2>1, SameTask DEF Promises, CallOf
  <2> QED BY <1>1, <1>3, <2>1, <2>2 DEF Held, InFlight
<1>5. InFlight' /\ Changing(1)'
        => queue'[1].id \in tangled' \/ save'.draft[queue'[1].id] = queue'[1].new
  <2> SUFFICES ASSUME InFlight, Changing(1)'
               PROVE  queue'[1].id \in tangled \/ save.draft[queue'[1].id] = queue'[1].new
    BY <1>1 DEF InFlight
  <2>1. Len(queue) \in Nat /\ Len(queue) # 0
    BY DEF Alone, StoreTypes, TypeQueue
  <2>2. Changing(1) /\ queue'[1] = queue[1]
    BY <1>2, <2>1, JoinRequests
  <2> QED BY <2>2 DEF Promises
<1>6. \A j \in fresh' : promised'[j] = Gone
  <2>1. i \notin fresh'
    <3>1. CASE Live(i) /\ UNCHANGED fresh
      <4>1. Memory[i] # Gone
        BY <3>1, TheObject, DataTypes DEF Memory
      <4>2. proc = "up"
        BY DEF CallOf, Call
      <4>3. promised[i] # Gone
        BY <4>1, <4>2, DataTypes DEF Promises, Held
      <4> QED BY <3>1, <4>3 DEF Promises
    <3> QED BY <3>1 DEF CallOf
  <2> QED BY <1>1, <2>1 DEF Promises, CallOf, StoreTypes, TypeMarks, TypeProc
<1> QED BY <1>1, <1>4, <1>5, <1>6 DEF Promises

\* Steps of a save, and its begin: the primary and the promises stay.
LEMMA KeptPromises ==
  ASSUME Promises, UNCHANGED <<proc, tasks, rec, promised, tangled, fresh>>,
         files'["primary"] = files["primary"],
         \A k : Changing(k)' => Changing(k) /\ queue'[k] = queue[k],
         InFlight' => InFlight /\ save'.draft = save.draft
  PROVE  Promises'
<1>1. \A i \in Ids : Memory'[i] = Memory[i] /\ (Pending(i)' => Pending(i))
  BY SameTask, PendingIs
<1>2. \A i \in Ids : Held(i) => Held(i)'
  BY <1>1 DEF Held
<1> QED BY <1>2 DEF Promises

LEMMA StartPromises ==
  ASSUME StoreTypes, JobsInv, Alone, Promises, Start PROVE Alone' /\ Promises'
<1>1. BeginSave
  BY DEF Start, Skip, Ready, Alone
<1>2. /\ save' = [step |-> "openTmp", at |-> "tmp", copy |-> Absent, draft |-> Memory,
                  awaited |-> TRUE]
      /\ UNCHANGED <<proc, mem, queue, skipped, promised, fresh, files, late, outer, tangled>>
  BY <1>1 DEF Start, BeginSave
<1>3. proc = "up"
  BY DEF Start, Ready, JobsInv, OnlyUp, Alone, StoreTypes, TypeProc
<1>4. Alone'
  BY <1>2 DEF Alone, InFlight, outer
<1>5. \A i \in Ids : Memory'[i] = Memory[i] /\ (Pending(i)' => Pending(i))
  BY <1>2, SameTask DEF mem, Pending
<1>6. ASSUME NEW i \in Ids, promised[i] # Any PROVE Held(i)'
  BY <1>2, <1>3, <1>5, <1>6 DEF Promises, Held
<1>7. Changing(1)' => queue'[1].id \in tangled' \/ save'.draft[queue'[1].id] = queue'[1].new
  BY <1>2 DEF JobsInv, MadeBy, Made, Changing
<1> QED BY <1>2, <1>4, <1>6, <1>7 DEF Promises

LEMMA SaveStepPromises ==
  ASSUME StoreTypes, JobsInv, Alone, Promises, SaveStep, ~RenameTmp PROVE Alone' /\ Promises'
<1>1. StepOnly /\ InFlight /\ save \in Save
  BY DEF SaveStep, OpenTmp, FillTmp, ReadPrimary, OpenBackup, FillBackup, At, InFlight,
         StoreTypes, TypeDisk
<1>2. DOMAIN files = {"tmp", "primary", "backup"}
  BY DEF StoreTypes, TypeDisk
<1>3. /\ save'.awaited = save.awaited /\ save'.draft = save.draft /\ save'.at = save.at
      /\ save'.step # "none"
  BY <1>1, SaveGoes DEF SaveStep, OpenTmp, FillTmp, ReadPrimary, OpenBackup, FillBackup, Save
<1>4. files'["primary"] = files["primary"]
  BY <1>1, <1>2 DEF SaveStep, OpenTmp, FillTmp, ReadPrimary, OpenBackup, FillBackup, Alone, At
<1>5. save'.step \in {"openTmp", "fillTmp"} => save'.at = "tmp"
  BY <1>1, <1>3, SaveGoes DEF SaveStep, OpenTmp, FillTmp, ReadPrimary, OpenBackup, FillBackup,
     Alone, At, Save
<1>6. save'.step \in {"read", "openBackup", "fillBackup", "rename"}
        => files'["tmp"] = Json(save'.draft)
  <2>1. CASE OpenTmp
    BY <1>1, <2>1, SaveGoes DEF OpenTmp
  <2>2. CASE FillTmp
    BY <1>2, <1>3, <2>2 DEF FillTmp, At, Alone
  <2>3. CASE ReadPrimary
    BY <1>3, <2>3 DEF ReadPrimary, At, Alone
  <2>4. CASE OpenBackup \/ FillBackup
    BY <1>2, <1>3, <2>4 DEF OpenBackup, FillBackup, At, Alone
  <2> QED BY <2>1, <2>2, <2>3, <2>4 DEF SaveStep
<1>7. Alone'
  BY <1>1, <1>3, <1>5, <1>6 DEF Alone, InFlight, StepOnly, outer
<1>8. Promises'
  <2>1. \A k : Changing(k)' => Changing(k) /\ queue'[k] = queue[k]
    BY <1>1 DEF StepOnly, Changing
  <2> QED BY <1>1, <1>3, <1>4, <2>1, KeptPromises DEF StepOnly, mem, marks
<1> QED BY <1>7, <1>8

LEMMA RenamePromises ==
  ASSUME StoreTypes, JobsInv, Alone, Promises, RenameTmp PROVE Alone' /\ Promises'
<1>1. /\ InFlight /\ files["tmp"] = Json(save.draft) /\ UNCHANGED <<tangled, fresh, reload>>
      /\ files["tmp"].kind # "absent"
  BY DEF RenameTmp, At, InFlight, Alone, Json
<1>2. /\ RenameFile /\ SaveSucceeds /\ late' = [n \in 1..MaxFaults |-> Moved(late[n])]
  BY <1>1 DEF RenameTmp
<1>3. files'["primary"] = Json(save.draft)
  BY <1>1, <1>2 DEF RenameFile, StoreTypes, TypeDisk
<1>4. Promises'
  BY <1>1, <1>2, <1>3, EndPromises
<1>5. \A n \in 1..MaxFaults : late'[n] = NoOp
  BY <1>2 DEF Alone, Moved, NoOp
<1>6. cli' = cli
  BY <1>2 DEF RenameFile, Alone
<1>7. save' = NoSave /\ skipped' = FALSE /\ proc' = "up"
  BY <1>1, <1>2, HeadLeaves
<1>8. Alone'
  BY <1>1, <1>5, <1>6, <1>7 DEF Alone, InFlight, NoSave
<1> QED BY <1>4, <1>8

LEMMA OpFailsPromises ==
  ASSUME StoreTypes, JobsInv, Alone, Promises, OpFails PROVE Alone' /\ Promises'
<1>1. InFlight /\ UNCHANGED <<fresh, files, late, outer, tangled>>
  BY DEF OpFails
<1>2. CASE Critical
  <2>1. SaveFails
    BY <1>2 DEF OpFails
  <2>2. Promises'
    BY <1>1, <2>1, EndPromises
  <2>3. save' = NoSave /\ skipped' = FALSE /\ proc' = "up"
    BY <1>1, <2>1, HeadLeaves
  <2>4. Alone'
    BY <1>1, <2>3 DEF Alone, InFlight, NoSave, outer
  <2> QED BY <2>2, <2>4
<1>3. CASE ~Critical
  <2>1. Goto("rename") /\ UNCHANGED <<proc, tasks, jobs, rec, queue, skipped, promised>>
    BY <1>3 DEF OpFails
  <2>2. /\ save'.awaited = save.awaited /\ save'.draft = save.draft /\ save'.step = "rename"
    BY <1>1, <2>1, SaveGoes
  <2>3. files["tmp"] = Json(save.draft)
    BY <1>1, <1>3 DEF Critical, InFlight, Alone, StoreTypes, TypeDisk, Save
  <2>4. Alone'
    BY <1>1, <2>1, <2>2, <2>3 DEF Alone, InFlight, outer
  <2>5. Promises'
    BY <1>1, <2>1, <2>2, KeptPromises DEF Changing
  <2> QED BY <2>4, <2>5
<1> QED BY <1>2, <1>3

LEMMA LoadPromises ==
  ASSUME StoreTypes, JobsInv, Alone, Promises, LoadTasks, ~disturbed' PROVE Alone' /\ Promises'
<1>1. /\ queue = <<>> /\ save = NoSave /\ files' = [files EXCEPT !["tmp"] = Absent]
      /\ UNCHANGED <<fresh, save, skipped, late, outer, promised, tangled>>
  BY DEF LoadTasks, JobsInv, OnlyUp
<1>2. LoadUp(files["primary"].map)
  BY DEF LoadTasks, Promises
<1>3. Memory' = files["primary"].map /\ proc' = "up" /\ queue' = <<>>
  BY <1>1, <1>2, LoadedMemory, FileTypes DEF LoadUp
<1>4. files'["primary"] = files["primary"]
  BY <1>1 DEF StoreTypes, TypeDisk
<1>5. ~InFlight' /\ \A i \in Ids : ~Pending(i)'
  BY <1>1, <1>3 DEF InFlight, NoSave, Pending
<1>6. Alone'
  BY <1>1, <1>3, <1>5 DEF Alone, InFlight, outer, NoSave
<1>7. Promises'
  BY <1>1, <1>3, <1>4, <1>5 DEF Promises, Held
<1> QED BY <1>6, <1>7

LEMMA CrashStep ==
  ASSUME StoreTypes, JobsInv, CrashInv, [StoreNext]_storeVars, ~disturbed'
  PROVE  ~disturbed /\ Alone' /\ Promises'
<1> USE DEF mem, disk, outer, marks
<1>0. ~disturbed
  <2>1. CASE Start  BY <2>1 DEF Start
  <2>2. CASE Calls
    BY <2>2, CallsAre DEF Calls, StatsSave, CallOf, Call
  <2>3. CASE SaveStep
    BY <2>3 DEF SaveStep, OpenTmp, FillTmp, ReadPrimary, OpenBackup, FillBackup, RenameTmp, StepOnly
  <2>4. CASE Faulty \/ LoadTasks
    BY <2>4 DEF Faulty, LoadTasks, OpFails, OpTimesOut, SaveTimesOut, Crash, CliKilled
  <2>5. CASE External
    BY <2>5 DEF External, LateStep, CliToggle, CliWrite, ReloadRead, ReloadApply
  <2> QED BY <2>1, <2>2, <2>3, <2>4, <2>5 DEF StoreNext, storeVars
<1>1. Alone /\ Promises
  BY <1>0 DEF CrashInv
<1>2. CASE Start  BY <1>0, <1>1, <1>2, StartPromises
<1>3. CASE Calls
  <2>1. CASE StatsSave
    <3>1. queue' = Append(queue, Nobody("stats")) /\ UNCHANGED <<proc, fresh, mem, disk, outer, marks>>
      BY <2>1 DEF StatsSave, SaveTasks
    <3>2. \A k : Changing(k)' => Changing(k) /\ queue'[k] = queue[k]
      BY <3>1, JoinRequests, NobodyIs
    <3>3. Promises'
      BY <1>1, <3>1, <3>2, KeptPromises DEF InFlight
    <3> QED BY <1>0, <1>1, <3>1, <3>3 DEF Alone, InFlight
  <2>2. ASSUME NEW i \in Ids, NEW r \in Request, CallOf(i, r) PROVE Alone' /\ Promises'
    <3>1. UNCHANGED <<proc, disk, outer>>
      BY <2>2 DEF CallOf, Call
    <3> QED BY <1>1, <2>2, <3>1, CallPromises DEF Alone, InFlight
  <2> QED BY <1>0, <1>3, <2>1, <2>2, CallsAre DEF Calls
<1>4. CASE SaveStep  BY <1>0, <1>1, <1>4, SaveStepPromises, RenamePromises
<1>5. CASE OpFails  BY <1>0, <1>1, <1>5, OpFailsPromises
<1>6. CASE Crash
  <2>1. ~InFlight' /\ \A i \in Ids : ~Pending(i)'
    BY <1>6 DEF Crash, InFlight, NoSave, Pending
  <2>2. Alone'
    BY <1>1, <1>6, <2>1 DEF Crash, Alone, NoSave
  <2>3. Promises'
    BY <1>1, <1>6, <2>1 DEF Crash, Promises, Held
  <2> QED BY <1>0, <2>2, <2>3
<1>7. CASE OpTimesOut \/ SaveTimesOut \/ \E i \in Ids : CliToggle(i)
  BY <1>7 DEF OpTimesOut, SaveTimesOut, CliToggle
<1>8. CASE CliKilled \/ CliWrite \/ ReloadRead \/ ReloadApply
  BY <1>1, <1>8 DEF CliKilled, CliWrite, ReloadRead, ReloadApply, Alone, Absent
<1>9. CASE \E n \in 1..MaxFaults : LateStep(n)
  BY <1>1, <1>9 DEF LateStep, Alone, NoOp
<1>10. CASE LoadTasks  BY <1>0, <1>1, <1>10, LoadPromises
<1>11. CASE UNCHANGED storeVars
  <2>1. Promises'
    BY <1>1, <1>11, KeptPromises DEF storeVars, Changing, InFlight
  <2> QED BY <1>0, <1>1, <1>11, <2>1 DEF storeVars, Alone, InFlight
<1> QED
  BY <1>2, <1>3, <1>4, <1>5, <1>6, <1>7, <1>8, <1>9, <1>10, <1>11
     DEF StoreNext, Faulty, External

LEMMA CrashInit == ASSUME StoreInit PROVE CrashInv
<1> USE DEF StoreInit
<1>1. Alone
  BY DEF Alone, CliIdle, InFlight, NoSave
<1>2. \A i \in Ids : files["primary"].map[i] = promised[i]
  <2>1. CASE Given = {}
    BY <2>1 DEF Absent, NoTasks
  <2>2. CASE Given # {}
    BY <2>2 DEF Json
  <2> QED BY <2>1, <2>2
<1>3. files["primary"].kind # "partial"
  BY DEF Absent, Json
<1>4. \A i \in fresh : promised[i] = Gone
  OBVIOUS
<1>5. ~InFlight /\ proc = "down" /\ \A i \in Ids : ~Pending(i)
  BY DEF InFlight, NoSave, Pending
<1> QED BY <1>1, <1>2, <1>3, <1>4, <1>5 DEF CrashInv, Promises, Held

\* I/O errors and crashes at any step never leave a primary that does not parse,
\* nor one that lacks what a call that succeeded left of its task: saveTasks
\* writes a temporary file and renames it, and every change waits for its save.
THEOREM CrashSafeCorrect == StoreSpec => []CrashSafe
<1>1. StoreInit => StoreTypes /\ JobsInv /\ CrashInv
  <2> SUFFICES ASSUME StoreInit PROVE JobsInv
    BY StoreTypeInit, CrashInit
  <2> QED BY DEF StoreInit, JobsInv, OneEach, OnlyUp, MadeBy, JobsFollowTasks, Changing
<1>2. StoreTypes /\ JobsInv /\ CrashInv /\ [StoreNext]_storeVars
        => (StoreTypes /\ JobsInv /\ CrashInv)'
  BY StoreTypeStep, JobsStep, CrashStep DEF CrashInv
<1>3. CrashInv => CrashSafe
  BY DEF CrashInv, CrashSafe, Promises, Held
<1> QED BY <1>1, <1>2, <1>3, PTL DEF StoreSpec

-----------------------------------------------------------------------------
(* Memory and file.  A change waits at the head of the queue, or second    *)
(* behind a save that is running; the primary has what was before it, and  *)
(* so has the draft of a save that began before the second.                *)

Quiet ==
  /\ \A k : Changing(k) => /\ k = 1 \/ (k = 2 /\ InFlight)
                           /\ files["primary"].map[queue[k].id] = Before(queue[k])
  /\ \A i \in Ids : Pending(i) \/ files["primary"].map[i] = Memory[i]
  /\ InFlight => \A i \in Ids :
       save.draft[i] = IF Changing(2) /\ queue[2].id = i THEN Before(queue[2]) ELSE Memory[i]

QuietInv == ~disturbed /\ ~overlapped /\ tangled = {} /\ proc = "up" => Quiet

LEMMA SameBefore ==
  ASSUME NEW r, rec'[r.id] = rec[r.id] PROVE Before(r)' = Before(r)
  BY DEF Before

LEMMA ChangingIs ==
  ASSUME StoreTypes, NEW k, Changing(k)
  PROVE  k \in 1..Len(queue) /\ queue[k] \in Request /\ queue[k].id \in Ids
<1>1. queue \in Seq(Request) /\ \A q \in Request : q.id \in Ids
  BY DEF StoreTypes, TypeQueue, Request
<1> QED BY <1>1 DEF Changing

LEMMA KeptQuiet ==
  ASSUME StoreTypes, Quiet, UNCHANGED <<tasks, rec>>, files'["primary"] = files["primary"],
         \A k : Changing(k) => Changing(k)' /\ queue'[k] = queue[k],
         \A k : Changing(k)' => Changing(k),
         InFlight' <=> InFlight, InFlight => save'.draft = save.draft
  PROVE  Quiet'
<1>1. \A i \in Ids : Memory'[i] = Memory[i] /\ (Pending(i) => Pending(i)')
  BY SameTask, PendingIs
<1>2. ASSUME NEW k, Changing(k)'
      PROVE  Before(queue[k])' = Before(queue[k]) /\ queue'[k] = queue[k] /\ Changing(k)
  <2>1. PICK q : q = queue[k] /\ q = queue'[k] /\ Changing(k)
    BY <1>2
  <2> QED BY <2>1, SameBefore
<1> QED BY <1>1, <1>2 DEF Quiet

LEMMA StartQuiet ==
  ASSUME StoreTypes, Alone, Quiet, Start PROVE Quiet'
<1>1. BeginSave
  BY DEF Start, Skip, Ready, Alone
<1>2. /\ save'.draft = Memory /\ ~InFlight /\ InFlight' /\ UNCHANGED <<mem, queue, files>>
  BY <1>1 DEF Start, BeginSave, InFlight
<1>3. \A i \in Ids : Memory'[i] = Memory[i] /\ (Pending(i)' <=> Pending(i))
  BY <1>2, SameTask DEF mem, Pending
<1>4. \A k : Changing(k)' => Changing(k) /\ k = 1 /\ Before(queue[k])' = Before(queue[k])
  <2> SUFFICES ASSUME NEW k, Changing(k)'
               PROVE  Changing(k) /\ k = 1 /\ Before(queue[k])' = Before(queue[k])
    OBVIOUS
  <2>1. PICK q : q = queue[k] /\ q = queue'[k]
    BY <1>2
  <2>2. Before(q)' = Before(q)
    BY <1>2, SameBefore DEF mem
  <2> QED BY <1>2, <2>1, <2>2 DEF Changing, Quiet
<1> QED BY <1>2, <1>3, <1>4 DEF Quiet

LEMMA CallQuiet ==
  ASSUME StoreTypes, JobsInv, Alone, Promises, Quiet, ~Ready, tangled = {},
         NEW i \in Ids, NEW r \in Request, CallOf(i, r), ~overlapped', tangled' = {}
  PROVE  Quiet'
<1>1. /\ queue' = Append(queue, [op |-> r.op, id |-> i, gen |-> r.gen, was |-> r.was,
                                 cron |-> r.cron, new |-> r.new])
      /\ UNCHANGED <<save, files>> /\ ~Pending(i) /\ ~(Len(queue) >= 2)
      /\ r.id = i /\ r.op \in Changes /\ proc = "up"
  BY DEF CallOf, Call, SaveTasks, disk
<1>2. queue' = Append(queue, r) /\ Len(queue) \in Nat
  BY <1>1 DEF Request, StoreTypes, TypeQueue
<1>3. PICK n : n = Len(queue) + 1 /\ (InFlight => n = 2) /\ (~InFlight => n = 1)
  <2>1. queue \in Seq(Request) /\ (queue = <<>> <=> Len(queue) = 0)
    BY DEF StoreTypes, TypeQueue
  <2>2. (InFlight => queue # <<>>) /\ (~InFlight => queue = <<>>)
    BY DEF Ready, Alone, StoreTypes, TypeQueue
  <2>3. Len(queue) \in Nat /\ ~(Len(queue) >= 2)
    BY <1>1, <1>2
  <2>4. Len(queue) = 0 \/ Len(queue) = 1
    <3>1. \A x \in Nat : x >= 2 \/ x = 0 \/ x = 1
      OBVIOUS
    <3> QED BY <2>3, <3>1
  <2>5. (InFlight => Len(queue) = 1) /\ (~InFlight => Len(queue) = 0)
    BY <2>1, <2>2, <2>4
  <2>6. InFlight => Len(queue) + 1 = 2
    BY <2>5
  <2>7. ~InFlight => Len(queue) + 1 = 1
    BY <2>5
  <2> QED BY <2>6, <2>7
<1>4. /\ \A k : Changing(k) => k = 1 /\ InFlight /\ queue[k].id \in Ids \ {i}
      /\ ~Changing(2)
  <2>1. ASSUME NEW k, Changing(k) PROVE k = 1 /\ InFlight /\ queue[k].id \in Ids \ {i}
    BY <1>1, <1>3, <2>1, ChangingIs, PendingIs
  <2> QED BY <2>1
<1>5. /\ \A k : Changing(k) => Changing(k)' /\ queue'[k] = queue[k]
      /\ \A k : Changing(k)' => (Changing(k) /\ queue'[k] = queue[k])
                               \/ (k = n /\ queue'[k] = r)
      /\ Changing(n)' /\ queue'[n] = r
  <2>1. Changing(n)' /\ queue'[n] = r
    <3>1. Len(queue') = n /\ queue'[n] = r
      BY <1>2, <1>3, Joined DEF StoreTypes, TypeQueue
    <3>2. n \in 1..Len(queue')
      BY <1>2, <1>3, <3>1
    <3> QED BY <1>1, <3>1, <3>2 DEF Changing
  <2> QED BY <1>2, <1>3, <2>1, JoinRequests
<1>6. \A j \in Ids : j # i => Memory'[j] = Memory[j] /\ rec'[j] = rec[j]
  BY SameTask DEF CallOf
<1>7. files["primary"].map[i] = Memory[i]
  BY <1>1 DEF Quiet
<1>8. Before(r)' = Memory[i]
  <2>1. CASE r.op = "schedule" /\ i \in fresh
    <3>1. Memory[i] = Gone
      BY <1>1, <2>1, DataTypes DEF Promises, Held
    <3> QED BY <2>1, <3>1 DEF Before
  <2> QED BY <2>1 DEF CallOf
<1>9. ASSUME NEW k, Changing(k)'
      PROVE  /\ k = 1 \/ (k = 2 /\ InFlight)
             /\ files["primary"].map[queue'[k].id] = Before(queue[k])'
  <2>1. CASE Changing(k) /\ queue'[k] = queue[k]
    <3>1. PICK q : q = queue[k] /\ q = queue'[k]
      BY <2>1
    <3>2. Before(q)' = Before(q)
      BY <1>4, <1>6, <2>1, <3>1, SameBefore
    <3> QED BY <1>4, <2>1, <3>1, <3>2 DEF Quiet
  <2>2. CASE k = n /\ queue'[k] = r
    BY <1>1, <1>3, <1>7, <1>8, <2>2
  <2> QED BY <1>5, <1>9, <2>1, <2>2
<1>10. \A j \in Ids : Pending(j)' \/ files["primary"].map[j] = Memory'[j]
  <2>1. Pending(i)'
    BY <1>1, <1>5, PendingIs
  <2>2. \A j \in Ids : Pending(j) => Pending(j)'
    BY <1>5, PendingIs
  <2> QED BY <1>6, <2>1, <2>2 DEF Quiet
<1>11. ASSUME InFlight, NEW j \in Ids
       PROVE  save.draft[j] = IF Changing(2)' /\ queue'[2].id = j
                              THEN Before(queue[2])' ELSE Memory'[j]
  <2>1. Changing(2)' /\ queue'[2] = r
    BY <1>3, <1>5, <1>11
  <2>2. save.draft[j] = Memory[j]
    BY <1>4, <1>11 DEF Quiet
  <2> QED BY <1>1, <1>6, <1>8, <2>1, <2>2
<1> QED BY <1>1, <1>9, <1>10, <1>11 DEF Quiet, InFlight

\* The save ends: what is pending now stood second before.
LEMMA EndQuiet ==
  ASSUME StoreTypes, JobsInv, Alone, Quiet, InFlight, tangled = {},
         \/ SaveSucceeds /\ files'["primary"] = Json(save.draft)
         \/ SaveFails /\ files'["primary"] = files["primary"]
  PROVE  Quiet'
<1>1. /\ queue # <<>> /\ queue' = Tail(queue) /\ save' = NoSave /\ ~InFlight'
      /\ \/ Resolve(Head(queue)) /\ files'["primary"] = Json(save.draft)
         \/ Reject(Head(queue)) /\ files'["primary"] = files["primary"]
  <2>1. save.awaited
    BY DEF Alone
  <2>2. queue # <<>> /\ queue' = Tail(queue) /\ save' = NoSave
    BY HeadLeaves
  <2> QED BY <2>1, <2>2 DEF SaveSucceeds, SaveFails, InFlight, NoSave
<1>2. PICK r \in Request :
        r = Head(queue) /\ r = queue[1] /\ 1 \in 1..Len(queue) /\ ChangeWF(r)
  BY <1>1, Answered, LeftTypes DEF StoreTypes, TypeQueue
<1>3. ASSUME NEW k, Changing(k)'
      PROVE  k = 1 /\ Changing(2) /\ queue'[1] = queue[2] /\ queue[2].id \in Ids
  <2>1. Changing(k + 1) /\ queue'[k] = queue[k + 1] /\ k \in Nat /\ k # 0
    BY <1>1, <1>3, LeftRequests DEF Changing
  <2>2. k = 1
    BY <2>1 DEF Quiet
  <2> QED BY <2>1, <2>2, ChangingIs
<1>4. Changing(2) => Changing(1)' /\ queue'[1] = queue[2] /\ queue[2].id \in Ids
  <2>1. PICK k, l : k = 2 /\ l = 1 /\ k - 1 = l /\ k # 1
    OBVIOUS
  <2>2. Changing(k) => Changing(l)' /\ queue'[l] = queue[k]
    BY <1>1, <2>1, LeftRequests
  <2> QED BY <2>1, <2>2, ChangingIs
<1>5. \A k : Changing(k) => k = 1 \/ k = 2
  BY DEF Quiet
<1>6. CASE Resolve(r) /\ files'["primary"] = Json(save.draft)
  <2>1. UNCHANGED <<tasks, rec>>
    BY <1>6 DEF Resolve, Repaired
  <2>2. \A i \in Ids : files'["primary"].map[i] = save.draft[i] /\ Memory'[i] = Memory[i]
    BY <1>6, <2>1, SameTask DEF Json
  <2>3. ASSUME NEW k, Changing(k)'
        PROVE  files'["primary"].map[queue'[k].id] = Before(queue[k])'
    <3>1. PICK q : q = queue[2] /\ q = queue'[k] /\ q.id \in Ids
      BY <1>3, <2>3
    <3>2. save.draft[q.id] = Before(q) /\ Before(q)' = Before(q)
      BY <1>3, <2>1, <2>3, <3>1, SameBefore DEF Quiet
    <3> QED BY <2>2, <3>1, <3>2
  <2>4. ASSUME NEW i \in Ids, ~Pending(i)' PROVE files'["primary"].map[i] = Memory'[i]
    <3>1. ~(Changing(2) /\ queue[2].id = i)
      BY <1>4, <2>4, PendingIs
    <3> QED BY <2>2, <3>1 DEF Quiet
  <2> QED BY <1>1, <1>3, <2>3, <2>4 DEF Quiet
<1>7. CASE Reject(r) /\ files'["primary"] = files["primary"]
  <2>1. \A i \in Ids : r.op \notin Changes \/ i # r.id => Memory'[i] = Memory[i] /\ rec'[i] = rec[i]
    <3>1. CASE Repaired
      BY <3>1, SameTask DEF Repaired
    <3>2. CASE Undo(r)
      BY <1>2, <3>2, UndoIs, SameTask
    <3> QED BY <1>7, <3>1, <3>2 DEF Reject
  <2>2. ASSUME r.op \in Changes
        PROVE  /\ Changing(1) /\ (Changing(2) => queue[2].id # r.id)
               /\ Memory'[r.id] = files["primary"].map[r.id]
    <3>1. Changing(1)
      BY <1>2, <2>2 DEF Changing
    <3>2. Changing(2) => queue[2].id # r.id
      BY <1>2, <3>1, ChangingIs DEF JobsInv, OneEach
    <3>3. Made(r) /\ files["primary"].map[r.id] = Before(r)
      BY <1>2, <3>1 DEF JobsInv, MadeBy, Quiet
    <3>4. r.op # "repair"
      BY <2>2 DEF Changes
    <3>5. Undo(r)
      BY <1>7, <3>4 DEF Reject
    <3> QED BY <1>2, <2>2, <3>1, <3>2, <3>3, <3>5, UndoIs
  <2>3. ASSUME NEW k, Changing(k)'
        PROVE  files["primary"].map[queue'[k].id] = Before(queue[k])'
    <3>1. PICK q : q = queue[2] /\ q = queue'[k] /\ q.id \in Ids
      BY <1>3, <2>3
    <3>2. files["primary"].map[q.id] = Before(q)
      BY <1>3, <2>3, <3>1 DEF Quiet
    <3>3. Before(q)' = Before(q)
      BY <1>3, <2>1, <2>2, <2>3, <3>1, SameBefore
    <3> QED BY <3>1, <3>2, <3>3
  <2>4. ASSUME NEW i \in Ids, ~Pending(i)' PROVE files["primary"].map[i] = Memory'[i]
    <3>1. CASE r.op \in Changes /\ i = r.id
      BY <2>2, <3>1
    <3>2. CASE r.op \notin Changes \/ i # r.id
      <4>1. ~Pending(i)
        <5> SUFFICES ASSUME NEW k, Changing(k), queue[k].id = i PROVE FALSE
          BY PendingIs
        <5>1. CASE k = 1
          BY <1>2, <3>2, <5>1 DEF Changing
        <5>2. CASE k = 2
          BY <1>4, <2>4, <5>2, PendingIs
        <5> QED BY <1>5, <5>1, <5>2
      <4> QED BY <2>1, <3>2, <4>1 DEF Quiet
    <3> QED BY <3>1, <3>2
  <2> QED BY <1>1, <1>3, <1>7, <2>3, <2>4 DEF Quiet
<1> QED BY <1>1, <1>2, <1>6, <1>7

LEMMA LoadQuiet ==
  ASSUME StoreTypes, JobsInv, Alone, Promises, LoadTasks, ~disturbed' PROVE Quiet'
<1>1. /\ queue = <<>> /\ save = NoSave /\ files' = [files EXCEPT !["tmp"] = Absent]
      /\ UNCHANGED save
  BY DEF LoadTasks, JobsInv, OnlyUp
<1>2. LoadUp(files["primary"].map)
  BY DEF LoadTasks, Promises
<1>3. Memory' = files["primary"].map /\ queue' = <<>>
  BY <1>1, <1>2, LoadedMemory, FileTypes DEF LoadUp
<1>4. files'["primary"] = files["primary"]
  BY <1>1 DEF StoreTypes, TypeDisk
<1>5. ~InFlight' /\ \A k : ~Changing(k)'
  BY <1>1, <1>3 DEF InFlight, NoSave, Changing
<1> QED BY <1>3, <1>4, <1>5 DEF Quiet

LEMMA QuietStep ==
  ASSUME StoreTypes, JobsInv, CrashInv, QuietInv, [StoreNext]_storeVars PROVE QuietInv'
<1> SUFFICES ASSUME ~disturbed', ~overlapped', tangled' = {}, proc' = "up" PROVE Quiet'
  BY DEF QuietInv
<1> USE DEF mem, disk, outer, marks
<1>1. ~disturbed /\ Alone /\ Promises
  BY CrashStep DEF CrashInv
<1>2. CASE LoadTasks
  BY <1>1, <1>2, LoadQuiet
<1>3. CASE Crash
  BY <1>3 DEF Crash
<1>4. CASE Start
  <2>1. BeginSave
    BY <1>1, <1>4 DEF Start, Skip, Ready, Alone
  <2>2. Quiet
    BY <1>1, <1>4, <2>1 DEF QuietInv, Start, BeginSave
  <2> QED BY <1>1, <1>4, <2>2, StartQuiet
<1>5. CASE ~Ready /\ Calls
  <2>1. CASE StatsSave
    <3>1. queue' = Append(queue, Nobody("stats")) /\ UNCHANGED <<proc, fresh, mem, disk, outer, marks>>
      BY <2>1 DEF StatsSave, SaveTasks
    <3>2. Quiet
      BY <1>1, <3>1 DEF QuietInv
    <3>3. /\ \A k : Changing(k) => Changing(k)' /\ queue'[k] = queue[k]
          /\ \A k : Changing(k)' => Changing(k)
      BY <3>1, JoinRequests, NobodyIs
    <3> QED BY <3>1, <3>2, <3>3, KeptQuiet DEF InFlight
  <2>2. ASSUME NEW i \in Ids, NEW r \in Request, CallOf(i, r) PROVE Quiet'
    <3>1. proc = "up" /\ tangled \subseteq tangled' /\ (overlapped => overlapped')
      BY <2>2 DEF CallOf, Call
    <3>2. Quiet /\ tangled = {}
      BY <1>1, <3>1 DEF QuietInv
    <3> QED BY <1>1, <1>5, <2>2, <3>2, CallQuiet
  <2> QED BY <1>5, <2>1, <2>2, CallsAre DEF Calls
<1>6. CASE SaveStep /\ ~RenameTmp
  <2>1. /\ StepOnly /\ InFlight /\ save \in Save /\ DOMAIN files = {"tmp", "primary", "backup"}
    BY <1>6 DEF SaveStep, OpenTmp, FillTmp, ReadPrimary, OpenBackup, FillBackup, At, InFlight,
       StoreTypes, TypeDisk
  <2>2. save'.draft = save.draft /\ save'.step # "none"
    BY <1>6, <2>1, SaveGoes DEF SaveStep, OpenTmp, FillTmp, ReadPrimary, OpenBackup, FillBackup,
       Save
  <2>3. files'["primary"] = files["primary"]
    BY <1>1, <1>6, <2>1 DEF SaveStep, OpenTmp, FillTmp, ReadPrimary, OpenBackup, FillBackup,
       Alone, At
  <2>4. Quiet
    BY <1>1, <2>1 DEF QuietInv, StepOnly
  <2> QED BY <2>1, <2>2, <2>3, <2>4, KeptQuiet DEF StepOnly, Changing, InFlight
<1>7. CASE RenameTmp
  <2>1. /\ InFlight /\ files["tmp"] = Json(save.draft) /\ UNCHANGED <<tangled, overlapped>>
        /\ files["tmp"].kind # "absent"
    BY <1>1, <1>7 DEF RenameTmp, At, InFlight, Alone, Json
  <2>2. RenameFile /\ SaveSucceeds
    BY <1>7, <2>1 DEF RenameTmp
  <2>3. files'["primary"] = Json(save.draft)
    BY <2>1, <2>2 DEF RenameFile, StoreTypes, TypeDisk
  <2>4. Quiet /\ tangled = {}
    BY <1>1, <2>1, <2>2, HeadLeaves DEF QuietInv
  <2> QED BY <1>1, <2>1, <2>2, <2>3, <2>4, EndQuiet
<1>8. CASE OpFails
  <2>1. InFlight /\ UNCHANGED <<files, tangled, overlapped>>
    BY <1>8 DEF OpFails
  <2>2. CASE Critical
    <3>1. SaveFails
      BY <1>8, <2>2 DEF OpFails
    <3>2. Quiet /\ tangled = {}
      BY <1>1, <2>1, <3>1, HeadLeaves DEF QuietInv
    <3> QED BY <1>1, <2>1, <3>1, <3>2, EndQuiet
  <2>3. CASE ~Critical
    <3>1. Goto("rename") /\ UNCHANGED <<proc, tasks, jobs, rec, queue, skipped, promised>>
      BY <1>8, <2>3 DEF OpFails
    <3>2. save'.draft = save.draft /\ save'.step = "rename"
      BY <2>1, <3>1, SaveGoes
    <3>3. Quiet
      BY <1>1, <2>1, <3>1 DEF QuietInv
    <3> QED BY <2>1, <3>1, <3>2, <3>3, KeptQuiet DEF Changing, InFlight
  <2> QED BY <2>2, <2>3
<1>9. CASE OpTimesOut \/ SaveTimesOut \/ \E i \in Ids : CliToggle(i)
  BY <1>9 DEF OpTimesOut, SaveTimesOut, CliToggle
<1>10. CASE CliKilled \/ CliWrite \/ ReloadRead \/ ReloadApply
  BY <1>1, <1>10 DEF CliKilled, CliWrite, ReloadRead, ReloadApply, Alone, Absent
<1>11. CASE \E n \in 1..MaxFaults : LateStep(n)
  BY <1>1, <1>11 DEF LateStep, Alone, NoOp
<1>12. CASE UNCHANGED storeVars
  <2>1. Quiet
    BY <1>1, <1>12 DEF QuietInv, storeVars
  <2> QED BY <1>12, <2>1, KeptQuiet DEF storeVars, Changing, InFlight
<1> QED
  BY <1>2, <1>3, <1>4, <1>5, <1>6, <1>7, <1>8, <1>9, <1>10, <1>11, <1>12
     DEF StoreNext, Faulty, External

\* When every save has been answered, with success or not, the file agrees with
\* memory: the rollbacks of schedule, remove, enable, disable and update restore
\* what the primary still has, a change of another task waiting behind included.
THEOREM QuietAgreesCorrect == StoreSpec => []QuietAgrees
<1>1. StoreInit => StoreTypes /\ JobsInv /\ CrashInv /\ QuietInv
  <2> SUFFICES ASSUME StoreInit PROVE JobsInv /\ QuietInv
    BY StoreTypeInit, CrashInit
  <2> QED BY DEF StoreInit, JobsInv, OneEach, OnlyUp, MadeBy, JobsFollowTasks, Changing, QuietInv
<1>2. StoreTypes /\ JobsInv /\ CrashInv /\ QuietInv /\ [StoreNext]_storeVars
        => (StoreTypes /\ JobsInv /\ CrashInv /\ QuietInv)'
  BY StoreTypeStep, JobsStep, CrashStep, QuietStep DEF CrashInv
<1>3. StoreTypes /\ QuietInv => QuietAgrees
  <2> SUFFICES ASSUME StoreTypes, Quiet, queue = <<>> PROVE files["primary"].map = Memory
    BY DEF QuietInv, QuietAgrees
  <2>1. \A i \in Ids : ~Pending(i)
    BY DEF Pending
  <2>2. \A i \in Ids : files["primary"].map[i] = Memory[i]
    BY <2>1 DEF Quiet
  <2>3. files["primary"].map \in Content /\ Memory \in Content
    BY FileTypes
  <2> QED BY <2>2, <2>3 DEF Content
<1> QED BY <1>1, <1>2, <1>3, PTL DEF StoreSpec
=============================================================================
