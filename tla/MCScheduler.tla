---------------------------- MODULE MCScheduler ----------------------------
(***************************************************************************)
(* Instances of the scheduler for TLC: SchedulerRuns and SchedulerStore.   *)
(* All that a run of a task does to the task list is the save of its       *)
(* statistics, which SchedulerStore makes at any time and SchedulerRuns    *)
(* sees answered at any time; nothing a property names is in both.  So     *)
(* instead of their product TLC checks one or the other, as half says.     *)
(***************************************************************************)
EXTENDS SchedulerRuns, SchedulerStore

VARIABLE half    \* which of the two modules this behaviour is one of

InRuns(A)  == half = "runs" /\ A /\ UNCHANGED <<half, storeVars>>
InStore(A) == half = "store" /\ A /\ UNCHANGED <<half, vars>>

\* With half = "runs" one initial state of the store is enough.
SchedulerInit ==
  /\ half \in {"runs", "store"} /\ Init /\ StoreInit
  /\ half = "runs" => \A i \in Given : promised[i].on
SchedulerNext == InRuns(Next) \/ InStore(StoreNext)

\* The fairness of FairSpec and of FairStoreSpec.
SchedulerSpec ==
  /\ SchedulerInit /\ [][SchedulerNext]_<<half, vars, storeVars>>
  /\ \A r \in Runs : WF_vars(InRuns(RunTimesOut(r))) /\ WF_vars(InRuns(StatsSaved(r)))
  /\ WF_storeVars(InStore(Start)) /\ WF_storeVars(InStore(~Ready /\ SaveStep))
============================================================================
