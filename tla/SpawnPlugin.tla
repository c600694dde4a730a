---------------------------- MODULE SpawnPlugin ----------------------------
(***************************************************************************)
(* BaseSpawnPlugin: every dispatch runs a CLI in a child process.          *)
(* Dispatches are numbered in the order of the calls.  One call goes       *)
(* through the checks of _dispatchConversationTask at once, awaits the     *)
(* session and the options, then registers its task and spawns.  A call    *)
(* that finds its conversation busy waits in the conversation's queue;     *)
(* _onTaskFinished and the continuation of every dispatch that came from   *)
(* the queue call _dequeueNext.                                            *)
(*                                                                         *)
(* Handlers run to completion.  The continuations (`settling') are         *)
(* microtasks: no timer and no event of a process comes before them.       *)
(***************************************************************************)
EXTENDS Integers, Sequences, FiniteSets

CONSTANTS
  Convs,           \* conversations
  MaxDispatches,   \* bound: calls of dispatch
  MaxConcurrency,  \* config.maxConcurrency
  QueueCap,        \* MAX_CONVERSATION_QUEUE_DEPTH
  Threshold,       \* CIRCUIT_BREAKER_FAILURE_THRESHOLD
  SpawnFaults      \* how a spawn may go wrong: a subset of {"failed", "threw"}

ASSUME SpawnAssumption ==
  /\ MaxDispatches \in Nat /\ MaxConcurrency \in Nat /\ QueueCap \in Nat
  /\ Threshold \in Nat
  /\ SpawnFaults \subseteq {"failed", "threw"}

VARIABLES
  arrived,     \* how many dispatches were called
  conv,        \* the conversation of each dispatch
  stage,       \* where the call of each dispatch is
  status,      \* the status of its task record
  told,        \* the callback it invoked (callbackEmitted)
  reply,       \* what its promise settled to
  proc,        \* its child process
  killed,      \* _killedTaskIds: killed, the force-kill timer is armed
  active,      \* activeConversations
  queue,       \* conversationQueues
  dequeued,    \* dispatches that came from a queue
  settling,    \* those whose continuation in _dequeueNext is due
  failures,    \* _spawnFailureCount
  cooled,      \* CIRCUIT_BREAKER_COOLDOWN_MS passed since the last failure
  overlapped   \* history: conversations in which a dispatch was called before
               \* the previous one was answered

vars == <<arrived, conv, stage, status, told, reply, proc, killed, active,
          queue, dequeued, settling, failures, cooled, overlapped>>
queues  == <<active, queue, dequeued, settling>>
circuit == <<failures, cooled>>
calls   == <<arrived, conv, overlapped>>
outcome == <<status, told, reply>>

Dispatches == 1..MaxDispatches
None == 0

\* A process is in `processes' until its close, its error or its force-kill.
InMap(d) == proc[d] \in {"alive", "failed"}

Answered(d) == reply[d] # "none" \/ stage[d] = "refused"

Running == {d \in Dispatches : status[d] = "running"}

\* The type invariant; no queue exceeds the cap.
TypeOK ==
  /\ arrived \in 0..MaxDispatches
  /\ conv \in [Dispatches -> Convs]
  /\ stage \in [Dispatches -> {"new", "queued", "flushed", "preparing",
                               "refused", "started", "threw"}]
  /\ status \in [Dispatches -> {"none", "running", "completed", "error", "killed"}]
  /\ told \in [Dispatches -> {"none", "done", "error"}]
  /\ reply \in [Dispatches -> {"none", "ok", "failed"}]
  /\ proc \in [Dispatches -> {"none", "alive", "failed", "forced", "errored", "gone"}]
  /\ killed \subseteq Dispatches
  /\ active \in [Convs -> Dispatches \union {None}]
  /\ queue \in [Convs -> Seq(Dispatches)]
  /\ \A c \in Convs : Len(queue[c]) <= QueueCap
  /\ dequeued \subseteq Dispatches /\ settling \subseteq dequeued
  /\ failures \in Nat /\ cooled \in BOOLEAN
  /\ overlapped \subseteq Convs

Init ==
  /\ arrived = 0
  /\ conv \in [Dispatches -> Convs]
  /\ stage = [d \in Dispatches |-> "new"]
  /\ status = [d \in Dispatches |-> "none"]
  /\ told = [d \in Dispatches |-> "none"]
  /\ reply = [d \in Dispatches |-> "none"]
  /\ proc = [d \in Dispatches |-> "none"]
  /\ killed = {}
  /\ active = [c \in Convs |-> None]
  /\ queue = [c \in Convs |-> <<>>]
  /\ dequeued = {} /\ settling = {}
  /\ failures = 0 /\ cooled = FALSE
  /\ overlapped = {}

----------------------------------------------------------------------------
\* The synchronous part of _dispatchConversationTask.

AtLimit     == Cardinality(Running) >= MaxConcurrency
CircuitOpen == failures >= Threshold /\ ~cooled

\* What becomes of a dispatch that starts now (the caller primes it, so that it
\* sees the statuses and failures the running handler leaves).
Started == IF AtLimit \/ CircuitOpen THEN "refused" ELSE "preparing"

\* _dequeueNext once the conversation has no active task.  A refused entry has
\* its continuation due at once.  `settled' is settling as the handler has it.
DequeueNext(c, settled) ==
  IF queue[c] = <<>>
  THEN settling' = settled /\ UNCHANGED <<queue, dequeued, stage>>
  ELSE LET next == Head(queue[c]) IN
       /\ queue' = [queue EXCEPT ![c] = Tail(@)]
       /\ dequeued' = dequeued \union {next}
       /\ stage' = [stage EXCEPT ![next] = Started']
       /\ settling' = IF Started' = "refused" THEN settled \union {next} ELSE settled

\* The promise of d settles: the continuation of a dequeued dispatch is due.
Settled(d) == IF d \in dequeued /\ reply[d] = "none"
              THEN settling \union {d} ELSE settling

\* Mutant: the queue is not drained.
TaskFinished_NoDequeue(d, settled) ==
  /\ active' = [active EXCEPT ![conv[d]] = IF @ = d THEN None ELSE @]
  /\ settling' = settled /\ UNCHANGED <<queue, dequeued, stage>>

\* _onTaskFinished: vacate the conversation if d still holds it, and only then
\* start the next entry.
TaskFinished(d, settled) ==
  IF active[conv[d]] = d
  THEN /\ active' = [active EXCEPT ![conv[d]] = None]
       /\ DequeueNext(conv[d], settled)
  ELSE settling' = settled /\ UNCHANGED <<active, queue, dequeued, stage>>

\* The first settlement of a promise counts.
Reply(d, r) == reply' = [reply EXCEPT ![d] = IF @ = "none" THEN r ELSE @]

\* A conversation is busy while its active task has a process.
Busy(c) == active[c] # None /\ InMap(active[c])

----------------------------------------------------------------------------
\* dispatch().

QueueFull(c) == Len(queue[c]) >= QueueCap

\* Mutant: a busy conversation does not queue.
Call_NoQueue(d) ==
  /\ stage' = [stage EXCEPT ![d] = Started]
  /\ UNCHANGED queue

Call(d) ==
  LET c == conv[d] IN
  IF Busy(c) /\ ~QueueFull(c)
  THEN /\ stage' = [stage EXCEPT ![d] = "queued"]
       /\ queue' = [queue EXCEPT ![c] = Append(@, d)]
  ELSE /\ stage' = [stage EXCEPT ![d] = IF Busy(c) THEN "refused" ELSE Started]
       /\ UNCHANGED queue

Dispatch(d) ==
  /\ settling = {}
  /\ d = arrived + 1
  /\ arrived' = d
  /\ Call(d)
  /\ overlapped' = IF \E e \in 1..arrived : conv[e] = conv[d] /\ ~Answered(e)
                   THEN overlapped \union {conv[d]} ELSE overlapped
  /\ UNCHANGED <<conv, outcome, proc, killed, active, dequeued, settling, circuit>>

\* _resolveSession and prepareDispatchOptions are done (or timed out):
\* _registerTask and _spawnChild.  The spawn works; or the child will emit an
\* error; or buildCliArgs or spawn throws, and the dispatch rejects with its
\* task registered.
Register(d) ==
  /\ status' = [status EXCEPT ![d] = "running"]
  /\ active' = [active EXCEPT ![conv[d]] = d]

Prepared(d) ==
  /\ settling = {}
  /\ stage[d] = "preparing"
  /\ Register(d)
  /\ \/ /\ \E p \in {"alive"} \union (SpawnFaults \ {"threw"}) :
             proc' = [proc EXCEPT ![d] = p]
        /\ stage' = [stage EXCEPT ![d] = "started"]
        /\ UNCHANGED <<reply, settling>>
     \/ /\ "threw" \in SpawnFaults
        /\ stage' = [stage EXCEPT ![d] = "threw"]
        /\ reply' = [reply EXCEPT ![d] = "failed"]
        /\ settling' = Settled(d)
        /\ UNCHANGED proc
  /\ UNCHANGED <<calls, told, killed, queue, dequeued, circuit>>

\* The continuation in _dequeueNext of a dequeued dispatch: _dequeueNext again.
Continue(d) ==
  /\ d \in settling
  /\ UNCHANGED <<calls, outcome, proc, killed, active, circuit>>
  /\ IF active[conv[d]] # None
     THEN settling' = settling \ {d} /\ UNCHANGED <<stage, queue, dequeued>>
     ELSE DequeueNext(conv[d], settling \ {d})

----------------------------------------------------------------------------
\* Events of the child process.

\* Mutant: the result does not look at callbackEmitted.
Result_Always(d) ==
  /\ settling = {}
  /\ proc[d] = "alive"
  /\ \E ok \in BOOLEAN :
       /\ status' = [status EXCEPT ![d] = IF ok THEN "completed" ELSE "error"]
       /\ told' = [told EXCEPT ![d] = IF ok THEN "done" ELSE "error"]
  /\ UNCHANGED <<calls, stage, reply, proc, killed, queues, circuit>>

\* The terminal message of the CLI, also one that comes after a kill.
Result(d) ==
  /\ settling = {}
  /\ proc[d] = "alive" /\ told[d] = "none"
  /\ \E ok \in BOOLEAN :
       /\ status' = [status EXCEPT ![d] = IF ok THEN "completed" ELSE "error"]
       /\ told' = [told EXCEPT ![d] = IF ok THEN "done" ELSE "error"]
  /\ UNCHANGED <<calls, stage, reply, proc, killed, queues, circuit>>

\* The stdout buffer overflows: the task fails, its process lives on.
Overflow(d) ==
  /\ settling = {}
  /\ proc[d] = "alive" /\ status[d] = "running"
  /\ status' = [status EXCEPT ![d] = "error"]
  /\ told' = [told EXCEPT ![d] = "error"]
  /\ UNCHANGED <<calls, stage, reply, proc, killed, queues, circuit>>

\* The status of a task whose process closes: a running one is judged by its
\* exit code, unless it was killed.
Judged(d, ok) ==
  IF status[d] # "running" THEN status[d]
  ELSE IF d \in killed THEN "killed"
  ELSE IF ok THEN "completed" ELSE "error"

\* close: the process ran (or failed to spawn and is torn down).
Close(d) ==
  /\ settling = {}
  /\ proc[d] \in {"alive", "forced", "errored"}
  /\ proc' = [proc EXCEPT ![d] = "gone"]
  /\ killed' = killed \ {d}
  /\ failures' = 0 /\ UNCHANGED cooled
  /\ \E ok \in BOOLEAN :
       LET s == Judged(d, ok) IN
       /\ status' = [status EXCEPT ![d] = s]
       /\ told' = [told EXCEPT ![d] =
            IF status[d] # "running" \/ @ # "none" \/ s = "killed" THEN @
            ELSE IF s = "completed" THEN "done" ELSE "error"]
       /\ Reply(d, IF s = "completed" THEN "ok" ELSE "failed")
  /\ TaskFinished(d, Settled(d))
  /\ UNCHANGED calls

\* error: the child could not be spawned; close follows.
SpawnError(d) ==
  /\ settling = {}
  /\ proc[d] = "failed"
  /\ proc' = [proc EXCEPT ![d] = "errored"]
  /\ killed' = killed \ {d}
  /\ IF d \in killed
     THEN /\ status' = [status EXCEPT ![d] = "killed"]
          /\ UNCHANGED <<told, circuit>>
     ELSE /\ status' = [status EXCEPT ![d] = "error"]
          /\ told' = [told EXCEPT ![d] = IF @ = "none" THEN "error" ELSE @]
          /\ failures' = failures + 1
          /\ cooled' = IF failures' >= Threshold THEN FALSE ELSE cooled
  /\ Reply(d, "failed")
  /\ TaskFinished(d, Settled(d))
  /\ UNCHANGED calls

CooldownElapses ==
  /\ settling = {}
  /\ failures >= Threshold /\ ~cooled
  /\ cooled' = TRUE
  /\ UNCHANGED <<calls, stage, outcome, proc, killed, queues, failures>>

----------------------------------------------------------------------------
\* Timers and aborts.

\* _kill marks a running task.
KilledStatus(victims) ==
  [d \in Dispatches |-> IF d \in victims /\ status[d] = "running"
                        THEN "killed" ELSE status[d]]

\* The dispatch timeout, or the stall timer: a running task fails and is
\* answered; a task that is over but whose process lingers is killed, too.
TimesOut(d) ==
  /\ settling = {}
  /\ proc[d] = "alive" /\ d \notin killed
  /\ killed' = killed \union {d}
  /\ IF status[d] = "running"
     THEN /\ status' = [status EXCEPT ![d] = "error"]
          /\ told' = [told EXCEPT ![d] = "error"]
          /\ Reply(d, "failed")
          /\ settling' = Settled(d)
     ELSE UNCHANGED <<outcome, settling>>
  /\ UNCHANGED <<calls, stage, proc, active, queue, dequeued, circuit>>

\* ABORT_FORCE_KILL_DELAY_MS after a kill the process is still there.
ForceKill(d) ==
  /\ settling = {}
  /\ d \in killed /\ proc[d] = "alive"
  /\ proc' = [proc EXCEPT ![d] = "forced"]
  /\ killed' = killed \ {d}
  /\ UNCHANGED <<calls, outcome, circuit>>
  /\ TaskFinished(d, settling)

\* The entries of the queues of cs.
Waiting(cs) == {d \in Dispatches : stage[d] = "queued" /\ conv[d] \in cs}

\* Flush the queues of cs, rejecting every entry, then kill the victims.
Abort(cs, victims) ==
  /\ settling = {}
  /\ queue' = [c \in Convs |-> IF c \in cs THEN <<>> ELSE queue[c]]
  /\ stage' = [d \in Dispatches |-> IF d \in Waiting(cs) THEN "flushed" ELSE stage[d]]
  /\ reply' = [d \in Dispatches |-> IF d \in Waiting(cs) THEN "failed" ELSE reply[d]]
  /\ killed' = killed \union victims
  /\ status' = KilledStatus(victims)
  /\ UNCHANGED <<calls, told, proc, active, dequeued, settling, circuit>>

AbortConversation(c) ==
  Abort({c}, {d \in Dispatches : d = active[c] /\ InMap(d)})

AbortAll == Abort(Convs, {d \in Dispatches : InMap(d)})

----------------------------------------------------------------------------
Step(d) ==
  \/ Dispatch(d) \/ Prepared(d) \/ Continue(d)
  \/ Result(d) \/ Overflow(d) \/ Close(d) \/ SpawnError(d)
  \/ TimesOut(d) \/ ForceKill(d)

Next ==
  \/ \E d \in Dispatches : Step(d)
  \/ \E c \in Convs : AbortConversation(c)
  \/ AbortAll \/ CooldownElapses

Spec == Init /\ [][Next]_vars

\* Timers fire, awaits end (they are under timeouts), a child that could not be
\* spawned says so, and a process dies of SIGKILL.  A process need not end or
\* say anything by itself, nor obey SIGTERM.
FairSpec ==
  /\ Spec
  /\ \A d \in Dispatches :
       /\ WF_vars(Prepared(d)) /\ WF_vars(Continue(d)) /\ WF_vars(SpawnError(d))
       /\ WF_vars(TimesOut(d)) /\ WF_vars(ForceKill(d))
       /\ WF_vars(proc[d] = "forced" /\ Close(d))

----------------------------------------------------------------------------
(* Properties.                                                             *)

\* A conversation whose dispatches are called one after the other (each after
\* the previous one was answered, as ConversationChain does) never has two
\* dispatches being prepared or running in processes the plugin knows of: also
\* not when one was answered by its timeout before its process ended.
OneAtATime ==
  \A d, e \in Dispatches :
    /\ conv[d] = conv[e] /\ conv[d] \notin overlapped
    /\ stage[d] = "preparing" \/ InMap(d)
    /\ stage[e] = "preparing" \/ InMap(e)
    => d = e

\* No queue is forgotten: someone will call _dequeueNext for it, unless a spawn
\* of the conversation threw.
QueueHasDriver ==
  \A c \in Convs : queue[c] # <<>> =>
    \/ Busy(c)
    \/ \E d \in Dispatches :
         /\ conv[d] = c
         /\ stage[d] \in {"preparing", "threw"} \/ d \in settling

\* A task counts against the concurrency limit only while the plugin has a
\* process of it, unless its spawn threw.
SlotsHeld ==
  \A d \in Running : InMap(d) \/ stage[d] = "threw"

\* The callback and the promise of a dispatch never contradict each other, and
\* a killed task is told nothing: whatever the order of result, timeout, kill,
\* error and close.
VerdictsAgree ==
  \A d \in Dispatches :
    /\ told[d] = "done"  => reply[d] # "failed"
    /\ told[d] = "error" => reply[d] # "ok"
    /\ reply[d] = "ok"   => told[d] = "done"
    /\ status[d] = "killed" => told[d] = "none"

\* Every dispatch is answered, unless a spawn of its conversation threw.
EveryoneAnswered ==
  \A d \in Dispatches :
    stage[d] # "new" ~>
      \/ Answered(d)
      \/ \E e \in Dispatches : conv[e] = conv[d] /\ stage[e] = "threw"

(* What the comments of the code say.                                      *)

\* base-spawn-plugin.ts:1423 "Without this guard, a double-call would dequeue
\* two entries and dispatch them concurrently, violating the
\* single-dispatch-per-conversation invariant": no continuation starts an entry
\* beside one that is being prepared.
DequeuedAlone ==
  [][\A d, e \in Dispatches :
       Continue(d) /\ stage[e] = "queued" /\ stage'[e] = "preparing" =>
         \A x \in Dispatches : conv[x] = conv[e] => stage[x] # "preparing"]_vars
============================================================================
