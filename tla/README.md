# A formal model of mia

mia is a daemon that runs coding assistants (Claude Code, Codex, Gemini,
OpenCode) for a user who talks to it from a phone over a peer-to-peer swarm.
One Node.js process, the daemon, takes messages from a P2P agent process over a
pipe, serializes them per conversation, chooses a plugin, runs the plugin's
program as a child process and sends tokens and results back. Around this core
there are a scheduler, a configuration file, a memory, health monitors and a
command-line interface.

Everything that is hard about it is asynchronous: handlers run to completion,
but every `await` lets other handlers in, file operations and plugins can hang,
timeouts let a caller go on while the operation it waited for also goes on,
processes crash, and the answers of processes come in any order. The modules
below model these interleavings, TLC checks them on small instances, and TLAPS
proves the properties that matter most for every value of the constants.

## 1. Inventory

| Part | Source (below `src/src/`) | State | Operations | What is hard |
|---|---|---|---|---|
| Conversation serialization | `daemon/conversation-chain.ts`, `daemon/agent-message-handlers.ts`, `daemon/router.ts`, `utils/rate-limiter.ts` | promise chain and last activity per conversation, token bucket, count of dispatches in flight | user message, route, settle, heartbeat, safety net, sweep | timers against a running dispatch; an entry that is reaped and replaced |
| Message queue | `daemon/queue.ts` | bounded queue, processing, aborted, locked, epoch | enqueue, abortAndDrain, lock, unlock, the loop | abort while an item is in flight; a loop that ends while items arrive |
| Plugin dispatcher | `plugins/dispatcher.ts` | circuit per plugin, availability cache, configuration | dispatch, switchPlugin, applyConfig | overlapping dispatches that report to one circuit |
| Spawn plugin base | `plugins/base-spawn-plugin.ts` | tasks, processes, active task and queue per conversation, spawn circuit, sessions | dispatch, abort, shutdown, events of the child, timers | checks before an await, results after a kill, close after error |
| OpenCode plugin | `plugins/implementations/opencode.plugin.ts` | the server and its client, sessions, tasks, a queue per conversation | dispatch, abort, start of the server, prompt and its timers | a reset of the server by an error of its predecessor; three timers and two ways to drain a queue |
| Configuration store | `config/mia-config.ts` | `mia.json`, its temporary file, the write chain | readMiaConfig(Async), writeMiaConfig(Async) | late writes after timeouts, two processes, one temporary file |
| Scheduler | `scheduler/index.ts`, `daemon/commands/scheduler.ts` | tasks in memory and on disk, queue of saves, marks of running tasks, cron jobs | schedule, remove, enable, disable, update, reload, run, save | rollback against a save that is late, overlapping runs, crashes between file operations |
| P2P IPC channel | `p2p/sender.ts`, `p2p/ipc-handler.ts`, `p2p/p2p-agent.ts` | write queue, pending requests, in-flight map | enqueue, drain, request, response, shutdown | overflow, drain timeout, two timeouts for one request, the end of either side |
| P2P agent supervision | `daemon/p2p-restart.ts`, `daemon/services.ts` | retries, timers, recovery time | spawn, ready, error, exit, stop | five timers against the exit of the child |
| P2P connections | `p2p/swarm-core.ts`, `p2p/swarm-connection-manager.ts` | connections and devices by key, write queues, keepalive, backoff | connect, identify, evict, close, sweep | an eviction against the newer connection of the same peer |
| P2P message store | `p2p/message-store.ts`, `p2p/swarm-core.ts`, `p2p/swarm-message-handler.ts` | Hyperbee, write queue, write buffer, active conversation | put, rename, delete, open, close, messages and requests of phones | read-modify-write around a delete; abandoned openings and writes |
| Plugin sessions | `plugins/session-persistence.ts` | session per conversation, dirty flag, timer | load, save, flush | a save during a flush or during a load, a stop during either |
| Daemon lifecycle | `daemon/index.ts`, `daemon/pid.ts`, `daemon/commands/lifecycle.ts`, `daemon/restart-intent.ts`, `daemon/signal-handlers.ts` | PID file, ready file, restart signal, guards | start, stop, restart, handoff, signals | two daemons, a crash between two file operations |
| Health monitors | `daemon/memory-pressure.ts`, `daemon/watchdog.ts` | level, streaks, one-shot flags | sample | sequences of levels |
| Context, verifier, traces | `plugins/context-preparer.ts`, `verifier.ts`, `trace-logger.ts`, `memory-extractor.ts` | caches and files | prepare, verify, record | none that changes the core's state |
| Suggestions | `suggestions/index.ts` | three lists in memory and in a file, generating, write in flight | dismiss, restore, complete, generate, persist | a write that timed out lands after a newer one |
| Memory, personas, auth, workspace context, CLI, utilities | `memory/`, `personas/`, `auth/`, `context/`, `daemon/commands/`, `utils/` | files and databases | sequential readers and writers | few |

A message travels: peer -> agent process (`PeerConnections`,
`ConversationStore`) -> IPC (`AgentLink`) -> `handleUserMessage`
(`ConversationChain`) -> `routeMessage` (ceiling on dispatches) ->
`PluginDispatcher.dispatch` (`PluginDispatch`; reads the configuration,
`ConfigStore`) -> `BaseSpawnPlugin.dispatch` (`SpawnPlugin`, with
`PluginSessions`) or `OpenCodePlugin.dispatch` -> callbacks -> IPC -> peer. The
scheduler enters at the dispatcher, the command line at the configuration file,
the task file and the PID file. `MessageQueue` stands beside this path: the
daemon resets it when the user changes conversations and nothing in production
enqueues to it (only `abortAndDrain` is called, `daemon/index.ts:1733`,
`agent-message-handlers.ts:315`).

What makes each part correct:

- *Serialization*: messages of a conversation run one at a time and in order; no
  entry outlives its chain; the ceiling's counter is exact; a slot comes free.
- *Queue*: first in, first out, with one server; nothing stale is answered;
  nothing is stranded.
- *Dispatcher*: a probe's mark has an owner; a failing plugin is cut off and no
  plugin for ever; fallbacks only where permitted.
- *Spawn plugin, OpenCode plugin*: one process per conversation; no queue
  without a driver; no slot without a process, no server without a reference;
  callback and promise agree; every call is answered.
- *Configuration*: what was saved stays; callers are answered in order; an
  update touches its own key only.
- *Scheduler*: a cron job runs exactly for each enabled task; memory and disk
  agree after a change that was reported as failed; a crash leaves a file that
  loads; a mark stands for a run and is given back.
- *Agent and channel*: one agent process at a time, started again when it dies,
  gone when the daemon is; a request is answered or times out.
- *Connections*: every live socket is the one its key leads to; a device has one
  socket; what has ended leaves nothing behind; what is silent is found out.
- *Message store*: a record keeps its last title, what was deleted stays deleted,
  and no state of the store keeps a message from the daemon.
- *Sessions, lifecycle*: what was saved reaches the disk; a restart never leaves
  no daemon; one of the daemons of a restart remains, and the PID file names it.

`PROJECT.json` lists every part with its status, and under "hazards" the places
where the code can go wrong in a way that a test would hardly reach, each with
the properties that watch it. Smaller ones that no module covers yet: two toggles
of a task in flight are merged into one (`ipc-handler.ts:242`); one text buffer
serves all conversations (`swarm-core.ts:578`); a flush of token counts that timed
out races the next (`:895`); the signals have separate guards and interleave
(`signal-handlers.ts:61`); the one-shot of persistent critical pressure is reset
on some of the ways back to healthy only (`memory-pressure.ts:233`); the
availability check in flight writes its result into a cache that was cleared
meanwhile (`dispatcher.ts:303`).

## 2. Plan

The order of the work; all but the last row is done.

| # | Module | Composes | Abstract specification | Proved |
|---|---|---|---|---|
| 1 | `ConversationChain` | chain, router's ceiling, rate limiter | - | type, serial execution, live entries, counter, sweep |
| 2 | `MessageQueue` | - | `FifoService` | type, stale items, no stall, refinement |
| 3 | `PluginDispatch` | candidates and circuits | - | probe owner, trip, order of fallbacks |
| 4 | `ConfigStore` | write chain, CLI process, dispatcher's switch | - | type, order of answers, no lost update |
| 5 | `SpawnPlugin` | queue, limits, process, abort | - | type, driver, slots, verdicts, one at a time |
| 6 | `SchedulerStore`, `SchedulerRuns` | task file, saves, rollback, CLI; cron runs, the daemon's handler | - | `SchedulerRuns`: type, marks, entries; `SchedulerStore`: type, jobs, crashes, agreement |
| 7 | `AgentSupervision`, `AgentLink` | the channel over the supervised agent | - | type, one agent, restarts armed, requests tracked |
| 8 | `PeerConnections` | connection maps, write queues, keepalive, sweep | - | type, one socket per device, ends counted once, live sockets active, no leaks |
| 9 | `DaemonHandoff` | several daemons, two files, the command line | - | type, never zero daemons, the heir is known |
| 10 | `PluginSessions`, `OpenCodePlugin`, `ConversationStore` | sessions with their users; server, queue and timers; store with its handlers | - | the session resumed, saves under way; type, no server lost, queues driven; titles, deletions, nothing forgotten |
| 11 | availability cache, `Suggestions`, `MemoryPressure`, signals and restart intents, the other IPC commands; `MessagePath` | `MessagePath`: `ConversationChain` over `SpawnPlugin` | `FifoService` per conversation | type and main invariant |

Bounds stay at two to three conversations, plugins, tasks or peers and two to
six operations: every disagreement found so far needs at most three actors and
four operations. There is a run per module or composition, which asks for its
safety and its liveness together, and a configuration per disagreement between
the code and what it says of itself.

## 3. The modules and the code

In every module an action is one handler or one stretch between two awaits, as
Node.js runs them. The definitions keep the order of the code: helpers, actions,
`Next`, fairness, properties. A definition called `X_Something` before `X` is
`X` with a plausible mistake; the properties are tested against it, nothing else
uses it. `MCxxx` modules hold what TLC needs: sequences as constants, symmetry,
and the instance's explanation.

### ConversationChain

Messages are numbered as they arrive. `phase` is the progress of a message,
`pred` the message whose promise it waits for, `tail` and `age` are
`conversationChains` and `chainActivity`, `beat` and `elapsed` the heartbeat and
the age of a handler, `active` is `activeP2PDispatches`, `tokens` the bucket.
`Enqueue` is `handleUserMessage` up to its return, `Start` the link's
continuation, `RouteWithoutPlugin`, `RejectBusy` and `RouteToPlugin` are the ways
through `routeMessage`, `DispatchSettles` with `Settle` the `finally` blocks of the
router, of the handler and of the chain. `Sweep` is `sweepStaleChains`.

Time is discrete: a tick passes only when no timer or microtask is due, and
`elapsed` saturates at `Horizon`. With a tick of two minutes the code's sweep age,
heartbeat and longest dispatch are 5, 2 and 15 ticks; those are the numbers of
`ConversationChain_long`. The run uses 3, 2 and 8, which keep what the properties
need: a heartbeat shorter than the sweep age, a safety net at their sum, and
dispatches that live on long enough after the net to be reaped. The proofs hold
for every pair of periods, the code's 10 and 4 with a tick of one minute included.

`DispatchHangs` is a plugin promise that never settles. `BaseSpawnPlugin` answers
under timeouts (see `EveryoneAnswered` below), but `routeMessage` also awaits
parts that have none, and the comments of the chain name this case; the run
bounds how often it happens (`MaxHung`).

### MessageQueue and FifoService

`st` is what became of each item, `processing`, `aborted`, `locked` and `epoch`
are the fields of the class, `runEpoch` the epoch captured by the loop, `cooling`
the cooldown of the backpressure signal. `ProcessQueue` is the entry of
`processQueue` up to its first await; every handler that calls it contains it.
`DispatchSettles` is the continuation: report or suppress, then the loop, or the
`finally` block with its restart. `stale`, `signals` and `window` are history.
`FifoService` says what a queue promises, without flags: arrive, serve the
oldest, finish, flush. `Service` is the refinement mapping.

### PluginDispatch

Every dispatch has a list of candidates and walks it: `Unavailable`,
`CircuitRefuses` or `Attempt`, then `PluginSucceeds`, `PluginFails`,
`PluginAborted` or `AttemptThrows`. Between `Attempt` and its end other
dispatches run and share `state`, `failures`, `probing` and `cooled`, the fields
of the circuit. The availability check is a choice; `told` says whether a
callback reached the caller. `ApplyConfig` changes the threshold; the cooldown is
an action, so it may pass at any time.

### ConfigStore

Write number w sets its field to w, so that an older value is recognized.
`outcome` is what the caller sees, `stage` where `doWrite` is: a write whose caller
gave up stays in `lateWriting` or `lateRenaming` until the system carries the
operation out. `OperationTimesOut` is the timeout of one operation,
`WriteTimesOut` the one around `doWrite`. A read that fails gives `Default` for
every key, as `readMiaConfigAsync` does. `CliReads`, `CliWritesTmp` and `CliRenames`
are the synchronous functions in another process. `Dispatch` is the part of
`PluginDispatcher.dispatch` that takes the active plugin from the file.
`disturbed` is history: a timeout, a failed read or a CLI command has touched the
file.

### SpawnPlugin

`stage` is where a call of `dispatch` is, `status` the task record, `told` the
callback and `reply` the promise, `proc` the child: alive, failed to spawn,
forced (killed and removed by the force timer, `close` may still come), errored
(`error` seen, `close` may still come) or gone. `Dispatch` is the synchronous part
with its checks in order (queue, depth, limit, circuit), `Prepared` the part after
the awaits, `Continue` the `.then` that `_dequeueNext` hangs on a dequeued dispatch.
`settling` are the continuations that are due: microtasks, before which no event
or timer is handled. `TaskFinished` is `_onTaskFinished`, `Abort` the flush and the
kills of `abortConversation`, `abortAll` and `shutdown`. A plugin's parser is the
choice in `Result` and `Overflow`. Left out: session ids (they are in
`PluginSessions`), the removal of task records an hour old, the release of their
output, and `onReady`.

### SchedulerStore and SchedulerRuns

The two halves of `scheduler/index.ts`. `SchedulerStore` has the task map as
generations of objects (`rec`, `tasks`, `jobs`), because a rollback holds on to the
object it changed; `queue` is `_saveQueue` with what each caller will undo (`Undo`)
when its save is rejected; `save` is the `doSave` that holds `_saveInFlight`, one
action per file operation from `OpenTmp` to `RenameTmp`. `OpTimesOut` answers the
caller and leaves the operation in `late`, to be carried out by `LateStep` at any
later time; `SaveTimesOut` is the timer around the whole save; `Skip` is a save that
finds another one in flight and reports success. `Crash` forgets memory and keeps
the files, of which one may be half written; `LoadTasks` and `Recover` are the way
back through primary, temporary file and backup. `CliToggle` to `CliKilled` are
`mia scheduler start/stop` in another process, `ReloadRead` and `ReloadApply` the
daemon's reload.

`SchedulerRuns` has the runs of tasks: the scheduler's side (`wait`) and the
daemon's handler (`handler`) of a run part company when the timeout ends the wait.
`TickRuns`, `TickSkips` and `TickForceAborts` are the three outcomes of a cron tick,
the last one with the daemon's stuck-task handler in `services.ts`; `convIds` is
`schedulerConvIds`. All a run does to the task list is to save its statistics, which
`SchedulerStore` may do at any time and `SchedulerRuns` sees answered at any time,
so `MCScheduler` checks either half instead of their product.

### AgentSupervision and AgentLink

`AgentSupervision` is `spawnP2PSubAgent` with `P2PRestartManager`: the child with
its life, and five timers: startup, ready, retry, recovery and stability. A spawn may
throw, give a child without stdio, or fail later. `ScheduleRestart` is
`scheduleRestart` with its backoff, its give-up and the long cooldown after it.

`AgentLink` EXTENDS it with the channel to the agent. `Send` and `Enqueue` are
`IpcWriteQueue.enqueue` with its drop of the oldest entries, `StreamDrains` and
`DrainTimesOut` the two ends of `_drain`, `RequestRecentMessages`,
`RequestTimesOut` and `AnswerArrives` the daemon's table of requests, `AgentReads`
and `AgentAnswers` the agent's command loop, which works on requests concurrently.
`EndStep` joins the exit of the child with `clearP2PSender`; `StopStep` sends the
shutdown command through the same full or stalled queue as everything else;
`DaemonExits`, `StdinEnds` and `OrphanExits` are what remains if that fails.

### PeerConnections

`net` holds the sockets with all that hangs on them (key, device, write queue,
keepalive, timers, listeners) and the maps `connections`, `deviceIdToConnKey` and
`peerBackoff`. A socket stays an object with timers and a waiting coroutine after
it left the map, and the same peer may be back under its key by then: so `Evict`,
`Teardown` (the close handler), `ForceDrop` and `WaitTimesOut` each say whose entry
they touch. `half` are links whose remote end vanished without a close; `KeepaliveTick`
and `Pong` find them out. `ConnectAnonymous` gives the key of the millisecond,
`HelloArrives` identifies and evicts rivals (`Identify` is the daemon's late one),
`SweepGhosts` is the ghost sweep, `Disconnect` the end of the swarm.

### DaemonHandoff

Daemons are numbered by PID; `phase` takes each through main, service and the
steps of `shutdown`, `successor` is the child that `performRestart` waits for. The PID
file is written in `WritePid`, read in `CheckOwner` and unlinked in `UnlinkPid`, in
this order but not in one step; the ready file is written in `BecomeReady` and
removed by whoever shuts down. `HandOver` and `GiveUp` are the two ends of the
poll. `cli` is one command of `mia start` or `mia stop`, with its steps.

### PluginSessions

`mem` is `conversationSessions` of the plugin, `store` the cache of
`session-persistence.ts` (a list of stores, as two loads at once each return one),
`dirty`, `timer` and `flush` the debounced write, `late` the abandoned writes and
`disk` the file. `Resolve` and `LoadEnds` are `_resolveSession`, `Finished` and `Closes`
the end of a task with its save or delete, `KillTimesOut` and `LateClose` a task that
ends twice, `Stop`, `StopFlushes` and `Exits` a shutdown, `Crash` the loss of memory
with a file that may be torn. `presets` says which of the two kinds of plugin it is:
those that choose the id of a session and those that are told one. `last` is history:
the session that the next dispatch of a conversation should resume. It becomes
`Unknown` where the code may rightly or knowingly lose it: in `Remember` for an entry
that the cap removes, in `LoadEnds` after a read that failed, in `Exits` when a write
failed or was abandoned, in `Crash` always.

### OpenCodePlugin

`srv` is the server: the attempt the client and the process came from, the start that
is awaited, and history of what is alive. `Ensure` is `_ensureServer` with its shared
promise, `StartEnds` an attempt that starts, joins a server found on the port or
fails, `Reset` is `_resetServerState`. A dispatch goes through `Proceed` (a
microtask), `Created`, `PromptReturns` or one of `PromptBreaks`, `PromptExpires` and
`TaskTimesOut`; `Drain` is `_drainQueue`, reached from the end of a task (`Finish`) and
from the continuation of every dequeued dispatch (`Continue`).

### ConversationStore

`queue`, `running` and `late` are the writes of `message-store.ts`. `Begin` takes the
next and reads what it needs (`Records`, `Entries`, `Gives`), `Works` is one of its
inserts or deletes, `Succeeds` its flush, `Fails` an error of any of these calls, which
leaves what was done before it, and `TimesOut` the end of the wait for one that hangs
(`Hangs`); that one goes on in `LateWorks` and `LateEnds`. A deletion finds `DeleteMax`
messages of a conversation at most, and the one of all conversations `DeleteMax` of
these (`Found`).

What HyperDB does is external and assumed: an insert or a delete is visible to the
store's own reads at once, and a flush that fails, or is refused, keeps it pending, so
that the next flush commits it. `title` and `stored` are this view. Pending changes are
lost only when the process ends, which is not modelled, and never read back from disk
by a ready store: `ensureMessageStore` opens a new handle only while it is not ready.

`opening` and `stray` are `ensureMessageStore` with the
attempts it gave up. `ArrivesFirst`, `Proceeds` and `CreateSettles` are the first
message of a conversation with its two awaits, `Arrives` a later one, `ArrivesUnready` and
`EntryArrives` those that find the store closed and go to `buffer`. The requests of
phones (`LoadConversation` to `DeleteMultiple`) run up to their await, and
`HandlerGivesUp` is the timeout that ends a request's handler before its write. `named`,
`erased`, `doomed` and `disturbed` are history.

## 4. The runs

All bounds are CONSTANTS of the .cfg files; the state counts are those of TLC.

| Run | Configuration | Instance | States | What it shows |
|---|---|---|---|---|
| `chain` | `ConversationChain_messages` | 2 conversations, 3 messages, 1 hang, ceiling 1, sweep age 3, heartbeat 2, dispatches up to 8 ticks | 535,522 | serial execution until a reap, the sweep spares a heartbeat past its first period, a queued message starts unless an older one hangs |
| `queue_service` | `MessageQueue_service` | 6 items, depth 3, 2 aborts | 52,021 | the queue is a FIFO service; stale items stay silent; everything queued is served or drained |
| `dispatch` | `PluginDispatch_circuit` | 3 dispatches, 2 plugins, one a fallback on errors, thresholds 1 and 2 | 533,784 | a probe has an owner; no plugin is frozen out |
| `config_faults` | `ConfigStore_faults` | 2 writes, 1 CLI command, timeouts and read errors | 104,759 | answers in order, everyone is answered, nothing is lost until a fault |
| `spawn` | `SpawnPlugin_tasks` | 2 conversations, 3 dispatches, limit 1, queue 2, circuit at 2, both spawn faults | 256,434 | one at a time, agreeing verdicts, everyone answered |
| `scheduler` | `Scheduler_store` | 1 task with 3 runs, stuck after 2; 2 task ids, 2 calls, 2 faults | 615,278 | jobs follow tasks, crashes are survived, memory and file agree, saves are answered; marks stand for runs and are given back |
| `link` | `AgentLink_link` | 1 retry, queue of 2 that drops 1, stream of 1, 2 requests, 1 note | 342,441 | one agent, requests are tracked, a dead agent is replaced, none outlives the daemon |
| `peers` | `PeerConnections_peers` | 1 key of 1 device, 2 sockets, write queue 1, 1 missed ping, 1 anonymous peer | 80,188 | live sockets are in the map, ends count once, one socket per device, no leaks, zombies are culled |
| `handoff` | `DaemonHandoff_restart` | 4 daemons, 2 commands, 1 fault | 200,001 | a restart never leaves no daemon, the heir is known, one remains |
| `sessions` | `PluginSessions_resume` | 2 conversations in 1 entry, 3 dispatches, 1 fault, 1 stop | 555,303 | a dispatch resumes the last session; saves reach the file |
| `store` | `ConversationStore_store` | 2 conversations, 2 messages, 2 requests or faults, buffer 1, limit of a deletion 1 | 609,260 | titles and deletions last; every message is sent |
| `opencode` | `OpenCodePlugin_server` | 1 conversation, 3 dispatches, limit 2, queue 2, 2 faults, 1 abort | 231,649 | no server is lost, everyone is answered |

Why the bounds suffice to be interesting: three messages are the least for a
reaped chain, its successor and a message behind it; a queue of three with six
items overflows, is drained and is refilled; three dispatches are the least for
one that opened a circuit, one that probes and one that started before; two
writes and one CLI command make every pair of late and next operation; two
requests and a note overflow a queue of two behind a stream of one; two sockets
are a peer and its own successor; four daemons are one that restarts, its heir,
the heir's heir and one started by hand; three dispatches over a store of one
entry evict, save during a flush and resume; two conversations let an entry be
renamed or deleted while the other one is active, and with a limit of one a deletion
meets conversations, and a deletion of all a store, both within the limit and beyond.
Each property was also checked to fail when one definition is replaced by its
`X_Something` variant.

Deadlock is checked in `chain`, `queue_service`, `config_faults` and `spawn`, where
something can always happen: time passes, a lock is taken, a dispatch reads the
configuration, a user aborts. In the others the bounded requests and faults run
out and the system may rightly come to rest.

Symmetry is not used in these runs, as most of them check liveness and the others
number their actors; only `PluginDispatch_probe`, an invariant over dispatches that
carry no order, uses it.

### Fairness

- `ConversationChain`: due timers and microtasks run, time passes, and a
  dispatch settles or hangs. Node's event loop guarantees the first, the spawn
  layer's timeouts the last. No arrival and no hang is forced.
- `MessageQueue`: dispatches settle; a lock is followed by an unlock, which the
  comment of `lock()` demands of callers.
- `PluginDispatch`: plugin calls settle and availability checks end (both under
  timeouts), cooldowns pass.
- `ConfigStore`: continuations and timeouts only. A file operation may hang for
  ever, so no fairness is put on reads, writes or renames.
- `SpawnPlugin`: awaits end (under timeouts), timers fire, a child that could not
  be spawned reports `error`, and a process sent SIGKILL closes. No program is
  assumed to end by itself or to obey SIGTERM. A process that not even SIGKILL
  ends (the code's comment speaks of "D-state") frees its conversation through the
  force timer, but the promise of an aborted dispatch stays open; fairness leaves
  this case out.
- `SchedulerStore`: the next save begins, and one that has begun goes on, fails or
  times out. A late operation may never land. `SchedulerRuns`: the timeout of a run
  fires and its statistics are saved (or time out); a handler may hang for ever.
- `AgentLink`: the ready timer fires; an agent that was told to leave or was
  killed ends; the agent reads its stdin and notices its end; a daemon that stops
  exits. Strong fairness stands for the one assumption on the machine: that of
  attempts without end to start the agent one succeeds. Agents may crash or hang
  at will.
- `PeerConnections`: keepalive and drain timers fire, a destroyed socket emits
  `close`. Nothing is assumed of the peer.
- `DaemonHandoff`: the poll of a restart ends, by its timeout if need be, and a
  shutdown goes through its steps, each under a timeout. A boot may hang for ever.
- `PluginSessions`: the timer fires, and mkdir and writeFile end, fail or time out.
- `OpenCodePlugin`: microtasks run, the three timers fire, session.create ends
  (under a timeout), a start ends in one of its ways. A prompt may never return.
- `ConversationStore`: the next write begins and it ends or times out, opening and
  closing end, and what awaits a settled promise goes on.

## 5. What is proved

TLAPS checks every proof to the last leaf; the theorems hold for all values of
the constants that meet the named assumptions (naturals, finite sets,
`0 < Heartbeat < MaxAge`, bounds above zero).

- **`ConversationChain_proofs`**: `TypeCorrect`, `SerialUnlessReaped`,
  `EntriesLive`, `SweepSparesBeating`, `CounterIsExact`. `OldestRunsAlone` is not
  inductive: it does not say behind whom the next message will be linked. `ChainInv`
  says that the unsettled messages of a conversation never reaped form one
  list: only the oldest may run, every other one waits for its immediate
  predecessor, and the map holds the newest. For the sweep, `BeatKeepsYoung`
  says that a heartbeat is either as old as its dispatch (it has not fired) or at
  least as old as the entry of its conversation; `Heartbeat < MaxAge` does the rest.
  The counter is proved with the cardinality of the set of dispatches in flight.
- **`Messages_proofs`**, of `MessageQueue`: `TypeCorrect`, `StaleNeverAnswered`,
  `NeverStalled`, `ImplementsFifoService`. The invariant: items are offered in order;
  at most one is in flight, and one is exactly when `processing` is set; the aborted
  flag does not outlive its loop; a stale item has left the queue, and while it is in
  flight the loop is marked aborted. The refinement maps every step to one of the
  service or to a stutter.
- **`Messages_proofs`**, of `ConversationStore`: `TitleIsLastCorrect`,
  `GoneIsGoneCorrect`, `NoneForgottenCorrect`. `named` has the titles that a record may
  rightly have: that of the last rename that succeeded and those that later ones have
  inserted without success; `doomed` has the messages that a deletion which succeeded
  could find, given to the store before it was asked for. The first two theorems say
  that no write brings anything else back, whatever part of it was done before it failed.
  `StoreInv` says what each waiting write was made for (`Good`), that they stand in the
  order in which they were asked for, each deletion after the messages it covers
  (`Ordered`), that a conversation still to be created has had no record (`Unmade`), that
  what the running write has read and not yet written is
  still what the store has (`Snapshots`: `Bounded` for its sets, `Faithful` for its title
  and its promises), and that an abandoned write touches only conversations marked
  `disturbed` (`Abandoned`), which the two properties excuse. `NoneForgotten`
  is the part of `EveryMessageSent` that needs no fairness: whoever waits has the
  opening, the write or the flush it waits for under way.
- **`Plugins_proofs`**, of `PluginDispatch`: `ProbesHaveOwners`, `FailuresTrip` (a
  plugin that has failed as often as the highest threshold since its last success is
  behind no closed circuit, across reloads of the threshold) and `FallbackInOrder`,
  inductive with the types.
- **`Plugins_proofs`**, of `OpenCodePlugin`: `OpenCodeTypeCorrect`,
  `OpenCodeQueuesDriven`, `NoServerLostCorrect`. For the servers `ServerInv` says that,
  unless a start was disowned, the start under way is the one that dispatches join,
  there is no client beside it, and what was started here and still lives is the
  current server. For the queues `Flowing` says where each dispatch is: a queue holds
  waiting dispatches of its conversation only, the active task is prompting, and
  whatever a queue holds has such a task or a dequeued dispatch that will go on
  (`Driven`). The case that matters is the end of a task that is no longer active.
- **`ConfigStore_proofs`**: `TypeCorrect` and `AnsweredInOrder` under every fault: a
  write is settled or running only when all before it are settled, and whatever is in
  one of the files is a whole configuration (`Drafts`). `NoLostUpdate` as long as no
  fault has disturbed the file: the draft of the running write is the file with its own
  field set, the temporary file holds that draft, and every value in the file belongs
  to a saved write.
- **`SpawnPlugin_proofs`**, of `SpawnPlugin`: `TypeCorrect`, `QueuesDriven`,
  `SlotsAreHeld`, `Verdicts`, `Serial`, from one invariant `IInv`. It ties stage, status,
  callback, reply and process of a dispatch together (`StageInv`, `VerdictInv`: which
  combinations the order of events can produce), says that the active task of a
  conversation is its own and has a process (`ActiveInv`), that a queue holds
  distinct waiting dispatches of its conversation (`QueueInv`), and that without
  overlapping calls one call at most is unanswered, its processes are tracked
  and nothing is prepared beside one (`SerialInv`).
- **`SpawnPlugin_proofs`**, of `PluginSessions`: `ResumesLastCorrect`, `UnsavedIsSaving`.
  `SessionsInv` says where the session to be resumed is found, for each way in which
  the next dispatch may come by it (`Remembered`): in memory, else in the cached store,
  else in the file and in every write that may still reach it; that no session is of
  two conversations (`Apart`), without which a forgotten one could come back under
  another's name; that a daemon which has loaded or changed nothing has nothing to
  lose (`Idleness`); and that the file agrees with the cache unless a write is to come
  (`Synced`). The last part with `PendingInv` gives `SaveIsUnderWay`, the part of
  `SavesSettle` that needs no fairness.
- **`Scheduler_proofs`**, of `SchedulerRuns`: `TypeCorrect`, `MarkCorrect`,
  `EntryCorrect`. Besides the two properties and the types the invariant needs only
  that runs not yet begun are untouched (`Unbegun`); the argument goes through the end
  of a run, which takes away the mark of its task whoever set it, and so must not meet
  that of another run unless the task was force-aborted.
- **`Scheduler_proofs`**, of `SchedulerStore`: `StoreTypeCorrect`,
  `JobsFollowTasksCorrect`, `CrashSafeCorrect`, `QuietAgreesCorrect`, each resting on
  those before it. A rollback restores what its change found, so a job follows its task
  only if what the change put there is still there when its save fails: `JobsInv` adds
  that each task has one pending change (or is `tangled`) and finds the object it made
  (`OneEach`, `MadeBy`). `CrashInv` says of what was promised to a caller that it is in
  memory, in the primary file and in the draft of the save in flight, and that no late
  operation is about, as long as no timeout or command has interfered. `QuietInv` says
  that the primary has, of each task, what was before its pending change, which is what
  a failed save rolls memory back to.
- **`DaemonHandoff_proofs`**: `TypeCorrect`, `NeverZeroCorrect`, `HeirIsKnownCorrect`.
  That one daemon is in service is not inductive: a daemon that hands over trusts the
  ready file, and the one it names might be about to be given up or to end. `Family`
  says that successors are younger, distinct and exist; `Succession` that some daemon
  in service is `Settled`, on nobody's trial, and that one on trial that is already
  stopping has left a later one that is. For the PID file, `Line` says that restarts
  which all succeed leave the daemons in one line, of which at most the last two work,
  and that each process finds a later PID in the file than its own when it checks
  whether to unlink it.
- **`P2P_proofs`**, of `AgentLink` with `AgentSupervision`: `LinkTypeCorrect`,
  `OneAgentCorrect`, `RestartIsArmedCorrect`, `RequestTrackedCorrect`. The second
  follows from an invariant over child and timers alone (`SupInv`), for any number of
  retries. `RestartIsArmed` is the part of `AgentComesBack` that needs no fairness. The
  last moves a request from queue to stream to agent and back (`InTransit`), with lemmas
  on the sequences that are appended to, split and dropped from; it holds for any
  bounds of queue and stream because whatever ends an agent also settles the table.
- **`P2P_proofs`**, of `PeerConnections`: `PeersTypeCorrect`, `CountedOnceCorrect`,
  `OneSocketPerDeviceCorrect`, `LiveIsActiveCorrect`, `NothingLeaksCorrect`. The ways in
  which a connection ends (close, eviction, drain timeout, ghost sweep, disconnect)
  overlap, so `PeersInv` says which part of a socket each of them may find: the entry of
  a key is a socket of that key that is listened to (`Entries`), timers, wait and
  listeners end in this order (`Orderly`), the key of an identified device is that of
  its tracked connection (`Identified`), attempts are the connections made less the live
  one (`Counted`). Two lemmas, for steps that change sockets in place (`Touched`) and
  those that take some out of the maps (`Taken`), serve all actions. The last two
  theorems assume `~SameMillisecond`: two anonymous peers that connect in one
  millisecond get one key, and the properties are then false of the code (section 6).

Some invariants are proved and not in the runs, where a liveness property or a
stronger invariant covers them: the type invariants, `EntriesAreLive`, `CounterExact`,
`NotStalled`, `TrippedWhenFailing`, `FallbackOrder`, `QueueHasDriver` (of `SpawnPlugin` and of
`OpenCodePlugin`), `SlotsHeld`, `RestartIsArmed`, `NoneForgotten` and `SaveIsUnderWay`.
TLC was asked about each of them before it was proved.

Only model-checked: every liveness property, as fairness and ENABLED are beyond the
prover (the parts of `AgentComesBack`, `EveryMessageSent`, `SavesSettle` and of the two
`EveryoneAnswered` that need neither are proved, see above); the type invariant of
`PluginDispatch`, which needs that `SelectSeq` keeps a sequence within its set, an
induction over a recursive operator; those of `ConversationStore` and
`PluginSessions`, whose only content beyond the types in `StoreInv` and `SessionsInv`
is that the counters stay within the bounds of the model; and every disagreement
below.

## 6. Where the code and its comments disagree

TLC refutes each of these properties with a trace that shows the disagreement. The
runs above do not include them. Those with a configuration are run by, for
instance, `tlc -config ConversationChain_long.cfg MCConversationChain`; for the others
put the property in the configuration of the module's run, with the constants given
here where they differ.

| Configuration | Property | The code does | It says |
|---|---|---|---|
| `PluginDispatch_probe` | `OneProbe` | a failure of an older dispatch clears `probeInFlight` while a probe runs, and a second probe passes (`dispatcher.ts:178`) | "only one probe at a time" (`dispatcher.ts:160`) |
| `PluginDispatch_probe`, `Thresholds = {1, 3}`, no symmetry | `HalfOpenIsProbing` | a raised threshold leaves a circuit half open without a mark (`dispatcher.ts:181`) | "sets `probeInFlight` so only one concurrent probe is allowed" (`dispatcher.ts:144`) |
| `PluginDispatch_circuit`, `Fallbacks <- RepeatedFallback` | `NoDuplicateCandidate` | a fallback named twice is tried twice (`dispatcher.ts:353`) | "skipping duplicates" (`dispatcher.ts:344`) |
| `PluginDispatch_circuit` | `HintDelivered` | the hint is in a result that nobody shows (`dispatcher.ts:774`) | "fail fast with a helpful install hint" (`dispatcher.ts:728`) |
| `ConversationChain_long` | `Sequential` | the safety net ends the heartbeat after 14 minutes, the sweep reaps at about 24 (`agent-message-handlers.ts:198`) | dispatches "can run for up to 30 minutes" (`conversation-chain.ts:48`) and are sequential (`:5`) |
| `ConversationChain_long` | `SweepSparesHeartbeat` | the first heartbeat comes four minutes after the start, while the activity may be old (`conversation-chain.ts:146`) | "the sweep never fires while the heartbeat is active" (`conversation-chain.ts:55`) |
| `ConversationChain_long` | `NetFindsReapedChain` | the heartbeat kept the chain alive (`agent-message-handlers.ts:190`) | "by that point the sweep has already reaped the chain" (same line) |
| `MessageQueue_service` | `DrainWindowDiscarded` | the `finally` block restarts the loop and serves the items (`queue.ts:259`) | "discarding any items that arrived between the drain and the loop check" (`queue.ts:121`) |
| `ConfigStore_defaults` | `KeepsUnrelatedKeys` | a read that fails yields the defaults, and the update writes them over every other key (`mia-config.ts:675`) | "merges new fields over existing config without discarding unrelated keys" (`mia-config.test.ts:560`) |
| `ConfigStore_late` | `CompletesBeforeNext` | a write that timed out goes on beside the next (`mia-config.ts:691`) | "each write completes atomically before the next one begins" (`mia-config.ts:660`) |
| `ConfigStore_faults`, `MaxCli = 0`, no read errors | `SavedIsKept` without `disturbed` | the late rename restores the old content (`mia-config.ts:683`) | "no keys are lost" (`mia-config.test.ts:567`) |
| `ConfigStore_faults` | `CleanupSparesWrites` | a CLI read unlinks the temporary file of the daemon (`mia-config.ts:526`) | cleanup "runs before the daemon opens any streams" (`mia-config.ts:589`) |
| `ConfigStore_faults`, `MaxCli = 0`, no timeouts or read errors | `SwitchIsImmediate` | the next dispatch reads the old plugin back from the file (`dispatcher.ts:687`) | "behaves correctly immediately" (`dispatcher.ts:997`) |
| `SpawnPlugin_queue` | `DequeuedAlone` | after a dequeued dispatch closes, both `_onTaskFinished` and its continuation dequeue (`base-spawn-plugin.ts:1462`) | "violating the single-dispatch-per-conversation invariant" (`base-spawn-plugin.ts:1425`) |
| `Scheduler_store` | `OneHandler` | a run that timed out leaves its handler at work, and the next tick starts another (`scheduler/index.ts:520`) | the marks are there "to prevent overlapping runs" (`:115`) |
| `AgentLink_error` | `ExitFollowsError` | a process that could not be started emits `error` and no `exit`: nobody starts another (`services.ts:283`) | "the 'exit' event which always follows 'error'" (same line) |
| `PeerConnections_count` | `CountIsReported` | an eviction or a drop is not reported to the daemon (`swarm-core.ts:1117`) | the daemon's count of peers |
| `PeerConnections_hello` | `LateHelloHarmless` | a `client_hello` that waits behind an earlier frame of a socket already cut from the map takes down the live connection of the same device (`swarm-core.ts:1153`) | a socket out of the map takes no live one down |
| `PeerConnections_peers`, `SameMillisecond = TRUE` | `LiveIsActive` | two anonymous peers of one millisecond get one key, and the older one is lost to every write (`swarm-core.ts:1321`) | one key per connection |
| `DaemonHandoff_ready` | `ReadyIsSeen` | a daemon that is still shutting down removes the ready file whoever wrote it, here that of its heir's own successor, which the heir then gives up (`daemon/index.ts:1789`) | "the successor creates its own after full initialization" (`daemon/index.ts:1786`) |
| `DaemonHandoff_reach` | `Reachable` | a successor writes its PID over the old daemon's, which gives it up, kills it and goes on in service while the file names the dead child (`daemon/index.ts:1134`) | guarded so that no daemon is "running but invisible to `mia stop`" (`daemon/index.ts:1782`) |
| `PluginSessions_late` | `LateCloseIsSafe` | the close after a force kill removes or overwrites the session of the next dispatch (`base-spawn-plugin.ts:1386`) | "the didVacate guard inside it prevents double-dequeue, so this is safe" (`base-spawn-plugin.ts:1624`) |
| `PluginSessions_resume` | `OneWriter` | a write that timed out lands beside the next (`session-persistence.ts:172`) | "don't start a second one" (`session-persistence.ts:199`) |
| `OpenCodePlugin_server` | `AbortIsSilent` | an error that the prompt returns after an abort is reported through `onError` (`opencode.plugin.ts:1284`) | "Suppress onError for intentional aborts" (`opencode.plugin.ts:1382`) |
| `OpenCodePlugin_server` | `FailureIsTold` | the task timer marks the task failed, then the prompt returns: the result is a failure and no callback is invoked | the timer records a "human-readable message" (`opencode.plugin.ts:118`) |
| `OpenCodePlugin_server`, `MaxDispatches = 4` | `DequeuedAlone` | the continuation drains while the next one is still being prepared (`opencode.plugin.ts:1437`) | "no double-dequeue" (`opencode.plugin.ts:1435`) |
| `OpenCodePlugin_server` | `ResetSparesHeir` | an error of a request to the old server resets the new one (`opencode.plugin.ts:433`) | clears "the stale client reference" (`opencode.plugin.ts:1365`) |
| `ConversationStore_store`, `MaxEvents = 3` | `UnavailableIsHeld` | a message that starts the store in vain is sent on without being stored or buffered (`swarm-message-handler.ts:1826`) | messages "received while the store is unavailable are held here" (`swarm-core.ts:145`) |
| same | `ReadyMeansOpen` | an abandoned opening that fails late sets `db` to null under the store that a later attempt opened | no handle breaks "message persistence for the rest of the daemon's lifetime" (`message-store.ts:120`) |
| `ConversationStore_store` | `DeletesAll` | a deletion takes the 10000 newest messages of a conversation, that of all the newest 10000 conversations, and leaves the others (`message-store.ts:270`, `:284`) | "Delete all messages in the conversation" (`message-store.ts:269`), "deletion needs full scan" (`:283`) |
| same | `RejectedIsLost` | what was inserted before a flush that fails stays and is committed by the next write, though its caller was told of an error (`message-store.ts:234`) | "the entry is lost, same as if the write threw" (`message-store.ts:77`) |
| same | `NoOrphans`, `UserTitleKept`, `ChoiceKept` | a message is stored after the deletion of its conversation; the auto-name overwrites a user's title; the late first message switches away from the conversation the user has chosen (`swarm-message-handler.ts:1806`) | nothing; what a user would expect |

Known to be so in the model, and excluded by name in the properties because no
comment promises otherwise: a spawn that throws leaves its task registered, so
the slot is lost and the queue waits for the next dispatch of its conversation
(`SlotsHeld` and `QueueHasDriver` name the stage "threw"); two calls that overlap
in the preparing window run beside each other and may exceed the limit
(`OneAtATime` names `overlapped`); an abort in that window finds nothing to kill;
two changes of one task in flight undo each other's rollback (`tangled`), and a
call that meets a save not yet begun shares its fate (`overlapped`, both in
`SchedulerStore`); a late close may harm a session (`haunted`); two conversations that
are dispatched before the session file was read each load it
(`session-persistence.ts:240`), the slower load replaces the cache and may bring back a
session that was forgotten in between or leave the file behind what is in memory
(`raced`); a reset during a start makes two servers (`disowned`); an abandoned write may
bring back an old record (`disturbed` of `ConversationStore`).

Seen while reading and not modelled: a restart may be requested before the daemon is
ready, by a phone or the signal file once the agent runs (`daemon/index.ts:1194`,
`:1621`); if the successor is ready before its parent, `shutdown` meets its own
`shutdownInProgress` before it is declared (`:1706`), the rejection is swallowed
(`:1131`) and both daemons stay in service, the parent with `restartInProgress` set for
good, though the guard is there lest one of two daemons become an "unkillable"
orphan (`:981`); because `close` follows `error` and resets the
count of spawn failures, the spawn circuit opens only when failures overlap
(`base-spawn-plugin.ts:1103`); the agent's 8 s for a request are said to be chosen "so
the daemon always receives a response" within its 5 s (`ipc-handler.ts:537`); the
one-shot of `memory-pressure.ts` survives a way back to healthy through the warning
level, though it is said to reset "when pressure fully resolves" (`:228`); a slow first
read of `suggestions.json` is taken for an empty store and the next save writes it
back, though "a prewarm failure is non-critical" (`suggestions/index.ts`).

## 7. Not modelled

- *Within modelled parts*: the availability cache and the context preparation of
  the dispatcher; the prompt that `routeMessage` assembles; the agent messages other
  than user messages; the IPC commands other than requests for recent messages,
  which are `AgentLink`'s notes; reading the message store (history, search, initial
  sync); restart messages and intents, the status file; the DHT and the length of
  backoffs; the event stream of opencode and the parsers of the other programs, whose
  outcome is a choice.
- *Cases left out of modelled handlers*: a restart requested before the daemon is
  ready (`SpawnSuccessor`; see the end of section 6 for what happens then); a cron
  expression that `startTask` rejects during a load or a reload
  (`scheduler/index.ts:659`, `:693`), as `schedule` and `update` validate every
  expression they store (`:212`, `:361`) and only a file edited by hand has another;
  the eviction of half of the session ids in memory beyond 500
  (`_evictStaleSessions`, `base-spawn-plugin.ts:524`), after which a conversation takes
  its session from the store as after a restart, or, if only the mark that it was
  completed went, is dispatched with its id but not as a resumption;
  `clearPluginSessions`, which nothing calls (`session-persistence.ts:334`).
- *Reads within a write of the message store*: `Begin` reads all that a write needs,
  while the code reads the handle and the record of a conversation again after the
  insert of its message (`message-store.ts:235`), and the messages of a conversation as
  a deletion of all comes to it (`:287`). In between only abandoned writes and an
  abandoned opening can change what is read; the first mark the conversation
  `disturbed`, the second make the write fail, as `Fails` may at any time. Which messages
  a deletion beyond its limit finds, and in which order it deletes, is left open.
- *Candidates for later*: the last row of the plan. The memory-pressure monitor and
  the suggestions are the last parts with a protocol of their own.
- *For good*: prompt and context assembly, memory search, workspace scanning,
  greetings, personas, authentication, setup, the slash commands and the commands that
  report (doctor, recap, standup, changelog, log, usage): sequential code whose state
  no other part reads concurrently, or input, output and formatting. They are more than
  half of the source, which bounds the share of it that these modules can speak of.

Real time is abstracted to ticks or to "at any time". Crashes are modelled where
something survives them: the task file, the session file, the PID and ready files
and the agent process; `mia.json` is renamed atomically.
