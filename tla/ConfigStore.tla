---------------------------- MODULE ConfigStore ----------------------------
(***************************************************************************)
(* mia.json and the three ways it is written and read:                     *)
(*   - writeMiaConfigAsync in the daemon: writes queue up, each a          *)
(*     read-modify-write through a temporary file and a rename, under      *)
(*     timeouts that reject the caller but cannot stop the file operation; *)
(*   - readMiaConfig and writeMiaConfig in a CLI process, which share the  *)
(*     temporary file and do not know the queue;                           *)
(*   - PluginDispatcher.switchPlugin, which sets the active plugin in      *)
(*     memory and queues a write, and dispatch, which reads it back.       *)
(*                                                                         *)
(* Writes are numbered in the order of the calls; write w sets one field   *)
(* to the value w.                                                         *)
(***************************************************************************)
EXTENDS Integers

CONSTANTS
  Fields,        \* keys of the configuration
  PluginField,   \* the key activePlugin
  MaxWrites,     \* bound: calls of writeMiaConfigAsync
  MaxCli,        \* bound: CLI commands that read or write the configuration
  Timeouts,      \* file operations may outlast their timeouts
  ReadErrors     \* a read of an existing file may fail or time out

ASSUME ConfigAssumption ==
  /\ PluginField \in Fields
  /\ MaxWrites \in Nat /\ MaxCli \in Nat
  /\ Timeouts \in BOOLEAN /\ ReadErrors \in BOOLEAN

VARIABLES
  called,      \* how many writes were called
  field,       \* the field each write sets
  outcome,     \* what the caller of a write sees
  stage,       \* where doWrite of a write is; "late": its caller gave up on
               \* a file operation that the system still carries out
  draft,       \* the merged configuration of a write
  disk,        \* CONFIG_FILE
  tmp,         \* CONFIG_TMP_FILE, NoFile if absent
  cli,         \* the CLI process
  cliDraft, cliRuns,
  memory,      \* this.config.activePlugin of the dispatcher
  lastSwitch,  \* history: the last plugin switched to
  disturbed    \* history: an operation of a write outlasted its timeout, its read
               \* failed, or a command was at work

vars == <<called, field, outcome, stage, draft, disk, tmp, cli, cliDraft,
          cliRuns, memory, lastSwitch, disturbed>>

Writes  == 1..MaxWrites
Initial == 0                  \* the value of a field before any write
Outside == MaxWrites + 1      \* a value written by the CLI
Default == -1                 \* the value of DEFAULT_CONFIG
Values  == Default..Outside
Configs == [Fields -> Values]
NoFile  == [f \in {} |-> Default]   \* no keys: the file is absent

Settled(w) == outcome[w] \in {"saved", "rejected"}

\* The type invariant; at most one write is between its start and its outcome.
TypeOK ==
  /\ called \in 0..MaxWrites
  /\ field \in [Writes -> Fields]
  /\ outcome \in [Writes -> {"new", "queued", "running", "saved", "rejected"}]
  /\ stage \in [Writes -> {"none", "reading", "writing", "renaming",
                           "lateWriting", "lateRenaming", "ended"}]
  /\ draft \in [Writes -> Configs]
  /\ disk \in Configs /\ (tmp = NoFile \/ tmp \in Configs)
  /\ cli \in {"idle", "writing", "renaming"}
  /\ cliDraft \in Configs /\ cliRuns \in 0..MaxCli
  /\ memory \in Values /\ lastSwitch \in Values /\ disturbed \in BOOLEAN
  /\ \A v, w \in Writes :
       outcome[v] = "running" /\ outcome[w] = "running" => v = w

Init ==
  /\ called = 0
  /\ field \in [Writes -> Fields]
  /\ outcome = [w \in Writes |-> "new"]
  /\ stage = [w \in Writes |-> "none"]
  /\ disk = [f \in Fields |-> Initial]
  /\ draft = [w \in Writes |-> disk]
  /\ tmp = NoFile
  /\ cli = "idle" /\ cliDraft = disk /\ cliRuns = 0
  /\ memory = Initial /\ lastSwitch = Initial /\ disturbed = FALSE

cliVars == <<cli, cliDraft, cliRuns>>
files   == <<disk, tmp>>

----------------------------------------------------------------------------
\* writeMiaConfigAsync.

\* A write is chained onto the queue; a write of activePlugin is a switchPlugin,
\* which has set the plugin in memory.
Call(w) ==
  /\ w = called + 1
  /\ called' = w
  /\ outcome' = [outcome EXCEPT ![w] = "queued"]
  /\ IF field[w] = PluginField
     THEN memory' = w /\ lastSwitch' = w
     ELSE UNCHANGED <<memory, lastSwitch>>
  /\ UNCHANGED <<field, stage, draft, files, cliVars, disturbed>>

\* Mutant: writes are not chained.
Start_Unchained(w) ==
  /\ outcome[w] = "queued"
  /\ outcome' = [outcome EXCEPT ![w] = "running"]
  /\ stage' = [stage EXCEPT ![w] = "reading"]
  /\ UNCHANGED <<called, field, draft, files, cliVars, memory, lastSwitch, disturbed>>

\* Mutant: the newest queued write goes first.
Start_NewestFirst(w) ==
  /\ outcome[w] = "queued"
  /\ \A v \in Writes : outcome[v] # "running" /\ (v > w => outcome[v] # "queued")
  /\ outcome' = [outcome EXCEPT ![w] = "running"]
  /\ stage' = [stage EXCEPT ![w] = "reading"]
  /\ UNCHANGED <<called, field, draft, files, cliVars, memory, lastSwitch, disturbed>>

\* The promise of the previous write has settled.
Start(w) ==
  /\ outcome[w] = "queued"
  /\ \A v \in Writes : v < w => Settled(v)
  /\ outcome' = [outcome EXCEPT ![w] = "running"]
  /\ stage' = [stage EXCEPT ![w] = "reading"]
  /\ UNCHANGED <<called, field, draft, files, cliVars, memory, lastSwitch, disturbed>>

\* readMiaConfigAsync inside doWrite: a failing read yields DEFAULT_CONFIG.
ReadBase(w) ==
  /\ stage[w] = "reading"
  /\ \/ /\ draft' = [draft EXCEPT ![w] = [disk EXCEPT ![field[w]] = w]]
        /\ UNCHANGED disturbed
     \/ /\ ReadErrors /\ disturbed' = TRUE
        /\ draft' = [draft EXCEPT ![w] =
                      [f \in Fields |-> IF f = field[w] THEN w ELSE Default]]
  /\ stage' = [stage EXCEPT ![w] = "writing"]
  /\ UNCHANGED <<called, field, outcome, files, cliVars, memory, lastSwitch>>

WriteTmp(w) ==
  /\ stage[w] \in {"writing", "lateWriting"}
  /\ tmp' = draft[w]
  /\ stage' = [stage EXCEPT ![w] = IF @ = "writing" THEN "renaming" ELSE "ended"]
  /\ UNCHANGED <<called, field, outcome, draft, disk, cliVars, memory, lastSwitch,
                 disturbed>>

\* The rename fails if the temporary file is gone.
Rename(w) ==
  /\ stage[w] \in {"renaming", "lateRenaming"}
  /\ IF tmp = NoFile THEN UNCHANGED files ELSE disk' = tmp /\ tmp' = NoFile
  /\ stage' = [stage EXCEPT ![w] = "ended"]
  /\ outcome' = [outcome EXCEPT ![w] =
       IF @ # "running" THEN @ ELSE IF tmp = NoFile THEN "rejected" ELSE "saved"]
  /\ UNCHANGED <<called, field, draft, cliVars, memory, lastSwitch, disturbed>>

\* A single file operation outlasts its timeout: doWrite throws, the operation
\* goes on.  A mkdir that does so has no effect.
OperationTimesOut(w) ==
  /\ Timeouts /\ disturbed' = TRUE
  /\ stage[w] \in {"reading", "writing", "renaming"}
  /\ stage' = [stage EXCEPT ![w] = CASE @ = "reading"  -> "ended"
                                     [] @ = "writing"  -> "lateWriting"
                                     [] @ = "renaming" -> "lateRenaming"]
  /\ outcome' = [outcome EXCEPT ![w] = IF @ = "running" THEN "rejected" ELSE @]
  /\ UNCHANGED <<called, field, draft, files, cliVars, memory, lastSwitch>>

\* The whole of doWrite outlasts WRITE_CONFIG_TIMEOUT_MS (its operations may
\* take 3 + 5 + 3 + 3 s, the timeout is 10 s): the queue moves on, doWrite too.
WriteTimesOut(w) ==
  /\ Timeouts /\ disturbed' = TRUE
  /\ outcome[w] = "running"
  /\ outcome' = [outcome EXCEPT ![w] = "rejected"]
  /\ UNCHANGED <<called, field, stage, draft, files, cliVars, memory, lastSwitch>>

\* Mutant: no timeouts.
TimesOut_Never(w) == FALSE

TimesOut(w) == OperationTimesOut(w) \/ WriteTimesOut(w)

----------------------------------------------------------------------------
\* A CLI process: readMiaConfig removes the temporary file it finds, and
\* writeMiaConfig goes on to write its own.

CliReads ==
  /\ cli = "idle" /\ cliRuns < MaxCli
  /\ cliRuns' = cliRuns + 1 /\ disturbed' = TRUE
  /\ tmp' = NoFile
  /\ \/ UNCHANGED <<cli, cliDraft>>
     \/ \E f \in Fields : /\ cliDraft' = [disk EXCEPT ![f] = Outside]
                          /\ cli' = "writing"
  /\ UNCHANGED <<called, field, outcome, stage, draft, disk, memory, lastSwitch>>

CliWritesTmp ==
  /\ cli = "writing"
  /\ tmp' = cliDraft
  /\ cli' = "renaming"
  /\ UNCHANGED <<called, field, outcome, stage, draft, disk, cliDraft, cliRuns,
                 memory, lastSwitch, disturbed>>

CliRenames ==
  /\ cli = "renaming"
  /\ IF tmp = NoFile THEN UNCHANGED files ELSE disk' = tmp /\ tmp' = NoFile
  /\ cli' = "idle"
  /\ UNCHANGED <<called, field, outcome, stage, draft, cliDraft, cliRuns, memory,
                 lastSwitch, disturbed>>

\* dispatch takes the active plugin from the file: when the read times out the
\* value in memory stays, when it fails the default comes back.
Dispatch ==
  /\ memory' \in {disk[PluginField]}
                 \union (IF ReadErrors THEN {Default} ELSE {})
                 \union (IF Timeouts THEN {memory} ELSE {})
  /\ UNCHANGED <<called, field, outcome, stage, draft, files, cliVars, lastSwitch,
                 disturbed>>

----------------------------------------------------------------------------
Advance(w) == Start(w) \/ ReadBase(w) \/ WriteTmp(w) \/ Rename(w)

Next ==
  \/ \E w \in Writes : Call(w) \/ Advance(w) \/ TimesOut(w)
  \/ CliReads \/ CliWritesTmp \/ CliRenames
  \/ Dispatch

Spec == Init /\ [][Next]_vars

\* Timers fire and settled promises run their continuations; a file operation
\* may hang for ever.
FairSpec ==
  /\ Spec
  /\ \A w \in Writes : WF_vars(Start(w)) /\ WF_vars(TimesOut(w))

----------------------------------------------------------------------------
(* Properties.                                                             *)

\* What a caller was told is saved is not lost: the field holds its value or
\* that of a later write, whatever else is queued, as long as the operations of
\* every write ended in time, their reads succeeded and no command interfered.
SavedIsKept ==
  ~disturbed => \A w \in Writes : outcome[w] = "saved" => disk[field[w]] >= w

\* Callers learn their outcomes in the order of their calls, also when writes
\* fail or time out: the queue is never overtaken.
SettleInOrder ==
  \A v, w \in Writes : v < w /\ Settled(w) => Settled(v)

\* A file operation that hangs for ever blocks neither its caller nor the
\* queue: every call is answered.
WritesSettle ==
  \A w \in Writes : outcome[w] = "queued" ~> Settled(w)

(* What comments and tests of the code say.                                *)

\* mia-config.ts:660 "With the queue, each write completes atomically before
\* the next one begins."
CompletesBeforeNext ==
  \A v, w \in Writes :
    v < w /\ outcome[w] = "running" => stage[v] \in {"none", "ended"}

\* mia-config.test.ts:560 "merges new fields over existing config without
\* discarding unrelated keys".
KeepsUnrelatedKeys ==
  [][\A w \in Writes : Rename(w) /\ ~(tmp = NoFile) =>
       \A f \in Fields \ {field[w]} : disk'[f] # Default]_vars

\* mia-config.ts:588 "Crash-recovery cleanup is handled by the sync
\* writeMiaConfig path which runs before the daemon opens any streams": no
\* cleanup takes the temporary file from under a running write.
CleanupSparesWrites ==
  [][CliReads => \A w \in Writes : stage[w] # "renaming"]_vars

\* dispatcher.ts:997 "in-memory state is already updated above so the daemon
\* behaves correctly immediately".
SwitchIsImmediate == [][Dispatch => memory' = lastSwitch]_vars
============================================================================
