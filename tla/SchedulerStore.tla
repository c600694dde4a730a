--------------------------- MODULE SchedulerStore ---------------------------
(***************************************************************************)
(* The task list of the scheduler and scheduled-tasks.json: schedule,      *)
(* remove, enable, disable and update change the list and the cron jobs at *)
(* once, then wait for saveTasks and undo the change when it rejects.      *)
(* Saves queue up; each writes scheduled-tasks.json.tmp, copies the        *)
(* primary to .bak and renames.  A file operation that outlasts its        *)
(* timeout goes on in the background, and so does a whole save whose       *)
(* caller gave up.  `mia scheduler start/stop` writes the primary from     *)
(* another process and has the daemon reload it.                           *)
(*                                                                         *)
(* A task object of id i is a generation g: the one in the Map is          *)
(* tasks[i], and a rollback may hold an older one.  What a run of a task   *)
(* adds (lastRun, runCount) is left out, the save it makes is not.         *)
(***************************************************************************)
EXTENDS Integers, Sequences

CONSTANTS
  Ids,        \* task ids
  Given,      \* the tasks in the file when the daemon first starts
  MaxText,    \* what update may change of a task: 1..MaxText
  MaxGen,     \* bound: objects made for one id
  MaxCalls,   \* bound: calls of the scheduler, and stats saves
  MaxFaults   \* bound: I/O errors, timeouts, crashes and CLI commands

ASSUME StoreAssumption ==
  /\ Given \in SUBSET Ids /\ Ids # {}
  /\ MaxText \in Nat \ {0} /\ MaxGen \in Nat \ {0}
  /\ MaxCalls \in Nat /\ MaxFaults \in Nat

VARIABLES
  proc,        \* the daemon: "down", "loading" (repairing) or "up"
  fresh,       \* ids no task has had yet
  gens,        \* objects made so far, by id
  rec,         \* the objects
  tasks,       \* this.tasks: the generation in the Map, 0 if absent
  jobs,        \* this.cronJobs: the generation the running job belongs to
  queue,       \* _saveQueue: who waits, the head's save being next or running
  save,        \* the doSave that holds _saveInFlight
  skipped,     \* _hadSkippedSave
  files,       \* primary, tmp and backup
  late,        \* operations that outlasted their timeout
  reload,      \* the file reload() has read, Absent if none runs
  cli,         \* the CLI process
  calls, faults,
  promised,    \* history: what the last successful call left of a task
  tangled,     \* history: ids that two changes in flight had in common
  overlapped,  \* history: a call found a save that had not begun
  disturbed,   \* history: a timeout, or the CLI
  unsaved      \* history: a save was skipped and none began since

mem   == <<gens, rec, tasks, jobs>>
disk  == <<save, skipped, files, late>>
outer == <<reload, cli>>
marks == <<promised, tangled, overlapped, disturbed, unsaved>>
storeVars  == <<proc, fresh, mem, queue, disk, outer, calls, faults, marks>>

Gens    == 1..MaxGen
Texts   == 1..MaxText
Rec     == [on : BOOLEAN, text : Texts]
Gone    == [on |-> FALSE, text |-> 0]       \* no such task
Any     == [on |-> FALSE, text |-> -1]      \* no promise
Content == [Ids -> Rec \cup {Gone}]
NoTasks == [i \in Ids |-> Gone]
File    == [kind : {"absent", "partial", "json"}, map : Content]
Absent  == [kind |-> "absent", map |-> NoTasks]
Partial == [kind |-> "partial", map |-> NoTasks]
Json(c) == [kind |-> "json", map |-> c]
Places  == {"tmp", "primary", "backup", "gone"}

Changes  == {"schedule", "remove", "enable", "disable", "update"}
Request  == [op : Changes \cup {"stats", "followup", "repair"}, id : Ids,
             gen : 0..MaxGen, was : 0..MaxText, cron : BOOLEAN,
             new : Rec \cup {Gone}]
NoSave   == [step |-> "none", at |-> "gone", copy |-> Absent,
             draft |-> NoTasks, awaited |-> FALSE]
Save     == [step : {"none", "openTmp", "fillTmp", "read", "openBackup",
                     "fillBackup", "rename"},
             at : Places, copy : File, draft : Content, awaited : BOOLEAN]
NoOp     == [do |-> "none", at |-> "gone", data |-> Absent]
LateOp   == [do : {"none", "open", "fill", "rename"}, at : Places, data : File]
CliIdle  == [step |-> "idle", at |-> "primary", draft |-> NoTasks]
Cli      == [step : {"idle", "open", "fill", "signal"}, at : Places,
             draft : Content]

\* The type invariant; a save that is awaited has its caller in the queue.
StoreTypeOK ==
  /\ proc \in {"down", "loading", "up"} /\ fresh \in SUBSET Ids
  /\ gens \in [Ids -> 0..MaxGen] /\ rec \in [Ids -> [Gens -> Rec]]
  /\ tasks \in [Ids -> 0..MaxGen] /\ jobs \in [Ids -> 0..MaxGen]
  /\ queue \in Seq(Request)
  /\ save \in Save /\ skipped \in BOOLEAN
  /\ files \in [{"tmp", "primary", "backup"} -> File]
  /\ late \in [1..MaxFaults -> LateOp]
  /\ reload \in File /\ cli \in Cli
  /\ save.awaited => save.step # "none" /\ queue # <<>>
  /\ calls \in 0..MaxCalls /\ faults \in 0..MaxFaults
  /\ promised \in [Ids -> Rec \cup {Gone, Any}] /\ tangled \in SUBSET Ids
  /\ overlapped \in BOOLEAN /\ disturbed \in BOOLEAN /\ unsaved \in BOOLEAN

-----------------------------------------------------------------------------
Live(i)  == tasks[i] # 0
On(i)    == Live(i) /\ rec[i][tasks[i]].on
Memory   == [i \in Ids |-> IF Live(i) THEN rec[i][tasks[i]] ELSE Gone]
InFlight == save.step # "none"                 \* _saveInFlight
\* The save of the queue's head starts in a microtask, before anything else.
Ready    == queue # <<>> /\ ~(InFlight /\ save.awaited)
Pending(i) == \E k \in 1..Len(queue) : queue[k].op \in Changes /\ queue[k].id = i
Fault    == faults < MaxFaults /\ faults' = faults + 1
JobsOf(c, t) == [i \in Ids |-> IF c[i].on THEN t[i] ELSE 0]

None     == [i \in Ids |-> 0]
Unused   == [on |-> FALSE, text |-> 1]
Blank    == [i \in Ids |-> [g \in Gens |-> Unused]]
Nobody(op) == [op |-> op, id |-> CHOOSE i \in Ids : TRUE, gen |-> 0, was |-> 0,
               cron |-> FALSE, new |-> Gone]

StoreInit ==
  /\ proc = "down"
  /\ fresh = Ids \ Given
  /\ \E e \in [Given -> BOOLEAN] :
       promised = [i \in Ids |-> IF i \in Given THEN [on |-> e[i], text |-> 1]
                                                ELSE Gone]
  /\ files = [f \in {"tmp", "primary", "backup"} |->
                IF f = "primary" /\ Given # {} THEN Json(promised) ELSE Absent]
  /\ gens = None /\ tasks = None /\ jobs = None /\ rec = Blank
  /\ queue = <<>> /\ save = NoSave /\ skipped = FALSE
  /\ late = [n \in 1..MaxFaults |-> NoOp]
  /\ reload = Absent /\ cli = CliIdle /\ calls = 0 /\ faults = 0
  /\ tangled = {} /\ overlapped = FALSE /\ disturbed = FALSE /\ unsaved = FALSE

-----------------------------------------------------------------------------
(* Calls: the change, and a place in the save queue.                       *)

SaveTasks(r) == queue' = Append(queue, r)

Call(op, i, g, was, cron, new) ==
  /\ proc = "up" /\ calls < MaxCalls /\ calls' = calls + 1
  /\ SaveTasks([op |-> op, id |-> i, gen |-> g, was |-> was, cron |-> cron,
                new |-> new])
  /\ promised' = [promised EXCEPT ![i] = Any]
  /\ tangled' = IF Pending(i) THEN tangled \cup {i} ELSE tangled
  /\ overlapped' = (overlapped \/ Len(queue) >= 2)
  /\ UNCHANGED <<proc, disk, outer, faults, disturbed, unsaved>>

\* Every caller creates enabled tasks.
Schedule(i) ==
  /\ i \in fresh /\ gens[i] < MaxGen
  /\ LET g == gens[i] + 1
         r == [on |-> TRUE, text |-> 1]
     IN  /\ gens' = [gens EXCEPT ![i] = g]
         /\ rec' = [rec EXCEPT ![i][g] = r]
         /\ tasks' = [tasks EXCEPT ![i] = g]
         /\ jobs' = [jobs EXCEPT ![i] = g]
         /\ Call("schedule", i, g, 0, FALSE, r)
  /\ fresh' = fresh \ {i}

Remove(i) ==
  /\ Live(i)
  /\ tasks' = [tasks EXCEPT ![i] = 0]
  /\ jobs' = [jobs EXCEPT ![i] = 0]
  /\ Call("remove", i, tasks[i], 0, FALSE, Gone)
  /\ UNCHANGED <<fresh, gens, rec>>

\* The toggle of the app enables what is disabled and disables what is not.
Enable(i) ==
  /\ Live(i) /\ ~On(i)
  /\ rec' = [rec EXCEPT ![i][tasks[i]].on = TRUE]
  /\ jobs' = [jobs EXCEPT ![i] = tasks[i]]
  /\ Call("enable", i, tasks[i], 0, FALSE, rec'[i][tasks[i]])
  /\ UNCHANGED <<fresh, gens, tasks>>

Disable(i) ==
  /\ On(i)
  /\ rec' = [rec EXCEPT ![i][tasks[i]].on = FALSE]
  /\ jobs' = [jobs EXCEPT ![i] = 0]
  /\ Call("disable", i, tasks[i], 0, FALSE, rec'[i][tasks[i]])
  /\ UNCHANGED <<fresh, gens, tasks>>

Update(i) ==
  /\ Live(i)
  /\ \E t \in Texts \ {rec[i][tasks[i]].text}, cron \in BOOLEAN :
       /\ rec' = [rec EXCEPT ![i][tasks[i]].text = t]
       /\ jobs' = IF cron /\ On(i) THEN [jobs EXCEPT ![i] = tasks[i]] ELSE jobs
       /\ Call("update", i, tasks[i], rec[i][tasks[i]].text, cron,
               rec'[i][tasks[i]])
  /\ UNCHANGED <<fresh, gens, tasks>>

\* A run of a task ends and saves its statistics; nobody undoes anything.
StatsSave ==
  /\ proc = "up" /\ gens # None
  /\ calls < MaxCalls /\ calls' = calls + 1
  /\ SaveTasks(Nobody("stats"))
  /\ UNCHANGED <<proc, fresh, mem, disk, outer, faults, marks>>

-----------------------------------------------------------------------------
(* The answer to the head of the queue.                                    *)

\* Mutant: a rollback of remove that forgets the cron job.
Undo_NoRestart(r) ==
  \/ r.op = "remove" /\ tasks' = [tasks EXCEPT ![r.id] = r.gen]
                     /\ UNCHANGED <<jobs, rec>>
  \/ r.op # "remove" /\ UNCHANGED <<tasks, jobs, rec>>
\* Mutant: no rollback.
Undo_Nothing(r) == r = r /\ UNCHANGED <<tasks, jobs, rec>>

Undo(r) ==
  \/ /\ r.op = "schedule"
     /\ tasks' = [tasks EXCEPT ![r.id] = 0]
     /\ jobs' = [jobs EXCEPT ![r.id] = 0]
     /\ UNCHANGED rec
  \/ /\ r.op = "remove"
     /\ tasks' = [tasks EXCEPT ![r.id] = r.gen]
     /\ jobs' = IF rec[r.id][r.gen].on THEN [jobs EXCEPT ![r.id] = r.gen]
                                       ELSE jobs
     /\ UNCHANGED rec
  \/ /\ r.op = "enable"
     /\ rec' = [rec EXCEPT ![r.id][r.gen].on = FALSE]
     /\ jobs' = [jobs EXCEPT ![r.id] = 0]
     /\ UNCHANGED tasks
  \/ /\ r.op = "disable"
     /\ rec' = [rec EXCEPT ![r.id][r.gen].on = TRUE]
     /\ jobs' = [jobs EXCEPT ![r.id] = r.gen]
     /\ UNCHANGED tasks
  \/ /\ r.op = "update"
     /\ rec' = [rec EXCEPT ![r.id][r.gen].text = r.was]
     /\ jobs' = IF r.cron /\ rec[r.id][r.gen].on
                THEN [jobs EXCEPT ![r.id] = r.gen] ELSE jobs
     /\ UNCHANGED tasks
  \/ r.op \in {"stats", "followup"} /\ UNCHANGED <<tasks, jobs, rec>>

\* loadTasks waits for the repair it ordered, then init starts all tasks.
Repaired == proc' = "up" /\ jobs' = JobsOf(Memory, tasks) /\ UNCHANGED <<tasks, rec>>

Resolve(r) ==
  /\ IF r.op = "repair" THEN Repaired ELSE UNCHANGED <<proc, tasks, jobs, rec>>
  /\ promised' = IF r.op \in Changes /\ r.id \notin tangled
                 THEN [promised EXCEPT ![r.id] = r.new] ELSE promised

\* Mutant: the error of a save is swallowed.
Reject_Swallowed(r) == Resolve(r)

Reject(r) ==
  /\ IF r.op = "repair" THEN Repaired ELSE Undo(r) /\ UNCHANGED proc
  /\ UNCHANGED promised

\* Mutant: a skipped save is forgotten.
Ended_NoFollowup(q) == save' = NoSave /\ skipped' = FALSE /\ queue' = q

\* doSave ends: the flag is cleared and a skipped save is made up for.
Ended(q) ==
  /\ save' = NoSave /\ skipped' = FALSE
  /\ queue' = IF skipped
              THEN Append(q, Nobody("followup")) ELSE q

\* After an outer timeout there is nobody left to answer.
SaveSucceeds ==
  IF save.awaited THEN Ended(Tail(queue)) /\ Resolve(Head(queue))
  ELSE Ended(queue) /\ UNCHANGED <<proc, tasks, jobs, rec, promised>>
SaveFails ==
  IF save.awaited THEN Ended(Tail(queue)) /\ Reject(Head(queue))
  ELSE Ended(queue) /\ UNCHANGED <<proc, tasks, jobs, rec, promised>>

-----------------------------------------------------------------------------
(* doSave, one file operation at a time.                                   *)

Skip ==
  /\ InFlight
  /\ skipped' = TRUE /\ unsaved' = TRUE
  /\ queue' = Tail(queue) /\ Resolve(Head(queue))
  /\ UNCHANGED <<save, gens>>

BeginSave ==
  /\ ~InFlight
  /\ save' = [step |-> "openTmp", at |-> "tmp", copy |-> Absent,
              draft |-> Memory, awaited |-> TRUE]
  /\ unsaved' = FALSE
  /\ UNCHANGED <<proc, mem, queue, skipped, promised>>

Start ==
  /\ Ready
  /\ Skip \/ BeginSave
  /\ UNCHANGED <<fresh, files, late, outer, calls, faults, tangled, overlapped,
                 disturbed>>

At(step) == save.step = step
Goto(step) == save' = [save EXCEPT !.step = step]
StepOnly == UNCHANGED <<proc, fresh, mem, queue, skipped, late, outer, calls,
                        faults, marks>>

OpenTmp    == At("openTmp") /\ Goto("fillTmp")
              /\ files' = [files EXCEPT !["tmp"] = Partial] /\ StepOnly
FillTmp    == /\ At("fillTmp") /\ Goto("read") /\ StepOnly
              /\ files' = IF save.at = "gone" THEN files
                          ELSE [files EXCEPT ![save.at] = Json(save.draft)]
ReadPrimary ==
  /\ At("read") /\ StepOnly /\ UNCHANGED files
  /\ save' = IF files["primary"].kind = "absent" THEN [save EXCEPT !.step = "rename"]
             ELSE [save EXCEPT !.step = "openBackup", !.copy = files["primary"]]
OpenBackup == At("openBackup") /\ Goto("fillBackup")
              /\ files' = [files EXCEPT !["backup"] = Partial] /\ StepOnly
FillBackup == At("fillBackup") /\ Goto("rename")
              /\ files' = [files EXCEPT !["backup"] = save.copy] /\ StepOnly

\* An open file follows its name: tmp becomes the primary, and a primary that
\* is replaced has no name any more.
MovedAt(p) == IF p = "tmp" THEN "primary" ELSE IF p = "primary" THEN "gone" ELSE p
Moved(op)  == IF op.do = "fill" THEN [op EXCEPT !.at = MovedAt(op.at)] ELSE op
RenameFile ==
  /\ files' = [files EXCEPT !["primary"] = files["tmp"], !["tmp"] = Absent]
  /\ cli' = IF cli.step = "fill" THEN [cli EXCEPT !.at = MovedAt(cli.at)] ELSE cli

RenameTmp ==
  /\ At("rename")
  /\ \/ /\ files["tmp"].kind = "absent"            \* ENOENT
        /\ SaveFails /\ UNCHANGED <<files, late, cli>>
     \/ /\ files["tmp"].kind # "absent"
        /\ RenameFile /\ SaveSucceeds
        /\ late' = [n \in 1..MaxFaults |-> Moved(late[n])]
  /\ UNCHANGED <<fresh, gens, reload, calls, faults, tangled, overlapped,
                 disturbed, unsaved>>

SaveStep == OpenTmp \/ FillTmp \/ ReadPrimary \/ OpenBackup \/ FillBackup
            \/ RenameTmp

Critical == save.step \in {"openTmp", "fillTmp", "rename"}

\* An operation fails; only a failing backup is of no consequence.
OpFails ==
  /\ InFlight /\ Fault
  /\ IF Critical THEN SaveFails
     ELSE Goto("rename") /\ UNCHANGED <<proc, tasks, jobs, rec, queue, skipped,
                                        promised>>
  /\ UNCHANGED <<fresh, gens, files, late, outer, calls, tangled, overlapped,
                 disturbed, unsaved>>

LateOpOf == CASE save.step = "openTmp" -> [do |-> "open", at |-> "tmp", data |-> Json(save.draft)]
              [] save.step = "fillTmp" -> [do |-> "fill", at |-> save.at, data |-> Json(save.draft)]
              [] save.step = "openBackup" -> [do |-> "open", at |-> "backup", data |-> save.copy]
              [] save.step = "fillBackup" -> [do |-> "fill", at |-> "backup", data |-> save.copy]
              [] save.step = "rename" -> [do |-> "rename", at |-> "gone", data |-> Absent]
              [] OTHER -> NoOp

\* SAVE_TASKS_OP_TIMEOUT_MS: as a failure, but the operation goes on.
OpTimesOut ==
  /\ InFlight /\ Fault /\ disturbed' = TRUE
  /\ late' = [late EXCEPT ![faults + 1] = LateOpOf]
  /\ IF Critical THEN SaveFails
     ELSE Goto("rename") /\ UNCHANGED <<proc, tasks, jobs, rec, queue, skipped,
                                        promised>>
  /\ UNCHANGED <<fresh, gens, files, outer, calls, tangled, overlapped, unsaved>>

\* SAVE_TASKS_TIMEOUT_MS: the caller is rejected, doSave goes on.
SaveTimesOut ==
  /\ InFlight /\ save.awaited /\ Fault /\ disturbed' = TRUE
  /\ save' = [save EXCEPT !.awaited = FALSE]
  /\ queue' = Tail(queue) /\ Reject(Head(queue))
  /\ UNCHANGED <<fresh, gens, skipped, files, late, outer, calls, tangled,
                 overlapped, unsaved>>

LateStep(n) ==
  /\ \/ /\ late[n].do = "open"
        /\ files' = [files EXCEPT ![late[n].at] = Partial]
        /\ late' = [late EXCEPT ![n].do = "fill"]
        /\ UNCHANGED <<save, cli>>
     \/ /\ late[n].do = "fill"
        /\ files' = IF late[n].at = "gone" THEN files
                    ELSE [files EXCEPT ![late[n].at] = late[n].data]
        /\ late' = [late EXCEPT ![n] = NoOp]
        /\ UNCHANGED <<save, cli>>
     \/ /\ late[n].do = "rename" /\ files["tmp"].kind # "absent"
        /\ RenameFile
        /\ late' = [[k \in 1..MaxFaults |-> Moved(late[k])] EXCEPT ![n] = NoOp]
        /\ save' = IF At("fillTmp") THEN [save EXCEPT !.at = MovedAt(save.at)]
                   ELSE save
     \/ /\ late[n].do = "rename" /\ files["tmp"].kind = "absent"
        /\ late' = [late EXCEPT ![n] = NoOp]
        /\ UNCHANGED <<files, save, cli>>
  /\ UNCHANGED <<proc, fresh, mem, queue, skipped, reload, calls, faults, marks>>

-----------------------------------------------------------------------------
(* Start and end of the daemon.                                            *)

LoadedWith(c) ==
  /\ tasks' = [i \in Ids |-> IF c[i] = Gone THEN 0 ELSE 1]
  /\ gens' = tasks'
  /\ rec' = [i \in Ids |-> [g \in Gens |->
               IF g = 1 /\ c[i] # Gone THEN c[i] ELSE Unused]]

LoadUp(c) ==
  /\ LoadedWith(c) /\ jobs' = JobsOf(c, tasks') /\ proc' = "up"
  /\ UNCHANGED queue

\* The primary cannot be read: the backup, written back, or an empty list.
Recover ==
  \/ /\ files["backup"].kind = "json"
     /\ LoadedWith(files["backup"].map) /\ proc' = "loading"
     /\ SaveTasks(Nobody("repair"))
     /\ UNCHANGED jobs
  \/ files["backup"].kind # "json" /\ LoadUp(NoTasks)

LoadTasks ==
  /\ proc = "down"
  /\ files' = [files EXCEPT !["tmp"] = Absent]
  /\ \/ /\ files["primary"].kind = "partial" /\ Recover
        /\ UNCHANGED <<faults, disturbed>>
     \/ /\ files["primary"].kind # "partial" /\ LoadUp(files["primary"].map)
        /\ UNCHANGED <<faults, disturbed>>
     \/ /\ files["primary"].kind # "absent" /\ Fault /\ disturbed' = TRUE
        /\ \/ Recover               \* the read fails or times out
           \/ LoadUp(NoTasks)       \* access times out: as if there were none
  /\ UNCHANGED <<fresh, save, skipped, late, outer, calls, promised, tangled,
                 overlapped, unsaved>>

Crash ==
  /\ proc # "down" /\ Fault
  /\ proc' = "down" /\ queue' = <<>> /\ save' = NoSave /\ skipped' = FALSE
  /\ gens' = None /\ rec' = Blank /\ tasks' = None /\ jobs' = None
  /\ late' = [n \in 1..MaxFaults |-> NoOp] /\ reload' = Absent
  /\ tangled' = {} /\ overlapped' = FALSE /\ unsaved' = FALSE
  /\ UNCHANGED <<fresh, files, cli, calls, promised, disturbed>>

-----------------------------------------------------------------------------
(* `mia scheduler start/stop` and the SIGUSR1 it sends.                    *)

CliOnly == UNCHANGED <<proc, fresh, mem, queue, save, skipped, late, reload,
                       calls, promised, tangled, overlapped, unsaved>>

CliToggle(i) ==
  /\ cli.step = "idle" /\ Fault /\ disturbed' = TRUE
  /\ files["primary"].kind = "json" /\ files["primary"].map[i] # Gone
  /\ cli' = [step |-> "open", at |-> "primary",
             draft |-> [files["primary"].map EXCEPT ![i].on = ~@]]
  /\ UNCHANGED files /\ CliOnly

CliWrite ==
  /\ \/ /\ cli.step = "open" /\ cli' = [cli EXCEPT !.step = "fill"]
        /\ files' = [files EXCEPT !["primary"] = Partial]
     \/ /\ cli.step = "fill"
        /\ cli' = [cli EXCEPT !.step = IF proc = "up" THEN "signal" ELSE "idle"]
        /\ files' = IF cli.at = "gone" THEN files
                    ELSE [files EXCEPT ![cli.at] = Json(cli.draft)]
  /\ UNCHANGED <<faults, disturbed>> /\ CliOnly

CliKilled ==
  /\ cli.step # "idle" /\ Fault /\ cli' = CliIdle
  /\ UNCHANGED <<files, disturbed>> /\ CliOnly

\* A signal during a reload is dropped, and so is a file that cannot be read.
ReloadRead ==
  /\ cli.step = "signal" /\ cli' = CliIdle
  /\ reload' = IF proc = "up" /\ reload = Absent /\ files["primary"].kind = "json"
               THEN files["primary"] ELSE reload
  /\ UNCHANGED <<proc, fresh, mem, queue, disk, calls, faults, marks>>

ReloadApply ==
  LET Added == {i \in Ids : ~Live(i) /\ reload.map[i] # Gone}
      Fate(i) == IF i \in Added THEN gens[i] + 1
                 ELSE IF reload.map[i] = Gone THEN 0 ELSE tasks[i]
  IN
  /\ reload.kind = "json" /\ reload' = Absent
  /\ \A i \in Added : gens[i] < MaxGen
  /\ gens' = [i \in Ids |-> IF i \in Added THEN gens[i] + 1 ELSE gens[i]]
  /\ tasks' = [i \in Ids |-> Fate(i)]
  /\ rec' = [i \in Ids |-> [g \in Gens |->
       IF i \in Added /\ g = gens[i] + 1 THEN reload.map[i]
       ELSE IF Live(i) /\ g = tasks[i] /\ reload.map[i] # Gone
            THEN [rec[i][g] EXCEPT !.on = reload.map[i].on]
       ELSE rec[i][g]]]
  /\ jobs' = [i \in Ids |->
       IF i \in Added THEN (IF reload.map[i].on THEN gens[i] + 1 ELSE jobs[i])
       ELSE IF ~Live(i) THEN jobs[i]
       ELSE IF reload.map[i] = Gone THEN 0
       ELSE IF ~On(i) /\ reload.map[i].on THEN tasks[i]
       ELSE IF On(i) /\ ~reload.map[i].on THEN 0
       ELSE jobs[i]]
  /\ tangled' = tangled \cup {i \in Ids : Pending(i)}
  /\ UNCHANGED <<proc, fresh, queue, disk, cli, calls, faults, promised,
                 overlapped, disturbed, unsaved>>

-----------------------------------------------------------------------------
Calls  == StatsSave \/ \E i \in Ids : Schedule(i) \/ Remove(i) \/ Enable(i) \/ Disable(i)
                         \/ Update(i)
Faulty == OpFails \/ OpTimesOut \/ SaveTimesOut \/ Crash \/ CliKilled
External == (\E n \in 1..MaxFaults : LateStep(n)) \/ (\E i \in Ids : CliToggle(i))
            \/ CliWrite \/ ReloadRead \/ ReloadApply

StoreNext ==
  \/ Start
  \/ ~Ready /\ (Calls \/ SaveStep \/ Faulty \/ External \/ LoadTasks)

StoreSpec == StoreInit /\ [][StoreNext]_storeVars

\* Timers and microtasks run; an operation that is not slow ends.
FairStoreSpec ==
  StoreSpec /\ WF_storeVars(Start) /\ WF_storeVars(~Ready /\ SaveStep)

-----------------------------------------------------------------------------
\* A task has a running cron job exactly when it is listed and enabled, also
\* after rollbacks, reloads and crashes, as long as no two changes of the same
\* task were in flight together: startTask, stopTask and the rollbacks of
\* schedule, remove, enable, disable and update.
JobsFollowTasks ==
  proc = "up" => \A i \in Ids \ tangled : jobs[i] = IF On(i) THEN tasks[i] ELSE 0

\* With errors and crashes but without timeouts and CLI commands: the primary
\* always parses, and it holds what the last call on a task left when that
\* call was answered with success.
CrashSafe ==
  ~disturbed =>
    /\ files["primary"].kind # "partial"
    /\ \A i \in Ids : promised[i] # Any => files["primary"].map[i] = promised[i]

\* Once every save has been answered the file holds the task list of memory,
\* whichever saves failed, unless calls piled up behind a waiting save.
QuietAgrees ==
  (~disturbed /\ ~overlapped /\ tangled = {} /\ proc = "up" /\ queue = <<>>)
    => files["primary"].map = Memory

\* The save queue always drains, and by then a save that was skipped behind one
\* that hangs has been made up for by a later one.
SavesSettle == queue # <<>> \/ unsaved ~> queue = <<>> /\ ~unsaved
=============================================================================
