--------------------------- MODULE OpenCodePlugin ---------------------------
(***************************************************************************)
(* OpenCodePlugin: dispatches share one server, started at the first need  *)
(* or found on the default port.  A dispatch awaits the server and, if its *)
(* conversation has none, a session, then registers its task and prompts.  *)
(* A dispatch that finds the task of its conversation running waits in the *)
(* conversation's queue, which _onTaskFinished and the continuation of     *)
(* every dispatch from the queue drain.  An error that looks like a dead   *)
(* server resets the server state, whichever server is current by then.    *)
(*                                                                         *)
(* Tasks and attempts to start a server are numbered.  `ready' and         *)
(* `settling' are microtasks: no other event comes before them.            *)
(***************************************************************************)
EXTENDS Integers, Sequences, FiniteSets

CONSTANTS
  Convs,
  MaxDispatches,   \* bound: calls of dispatch
  MaxConcurrency,  \* config.maxConcurrency
  QueueCap,        \* MAX_CONVERSATION_QUEUE_DEPTH
  MaxFaults,       \* bound: failed starts and sessions, servers that die
  MaxAborts        \* bound: aborts

ASSUME OpenCodeAssumption ==
  {MaxDispatches, MaxConcurrency, QueueCap, MaxFaults,
   MaxAborts} \subseteq Nat

VARIABLES
  arrived, conv,
  place,      \* where the call of a dispatch is
  status,     \* the status of its task
  notified,       \* the callback it invoked
  reply,      \* what its promise settled to
  at,         \* the server its request is sent to, 0 if there was none
  waits,      \* the start of a server it awaits
  elapsed,    \* dispatches whose task timer fired
  killed,     \* _killedTaskIds
  aborting,   \* tasks whose session.abort is under way
  aborts,     \* how many aborts came
  aborted,    \* history: tasks that were aborted while they ran
  active,     \* activeConversations
  queue,      \* conversationQueues
  dequeued,   \* dispatches that came from a queue
  settling,   \* those whose continuation is due
  session,    \* conversations with an entry in conversationSessions
  srv,        \* the state of the server
  faults

calls == <<arrived, conv>>
task  == <<status, notified, reply>>
timer == <<elapsed, killed, aborting, aborts, aborted>>
flow  == <<place, active, queue, dequeued, settling>>
openCodeVars == <<calls, task, timer, flow, at, waits, session, srv, faults>>

Tasks == 1..MaxDispatches
None == 0

Running == {d \in Tasks : status[d] = "running"}

\* client and server: the attempt they come from, or None; starting: the start
\* _serverStarting awaits; pending: starts under way; mine, up: servers that
\* were started here, that are alive; disowned: history, a reset came while a
\* start was under way.
NoServer == [client |-> None, server |-> None, starting |-> None, attempts |-> 0,
             pending |-> {}, mine |-> {}, up |-> {}, disowned |-> FALSE]

Server == [client : Nat, server : Nat, starting : Nat, attempts : Nat,
           pending : SUBSET Nat, mine : SUBSET Nat, up : SUBSET Nat,
           disowned : BOOLEAN]

OpenCodeTypeOK ==
  /\ arrived \in 0..MaxDispatches /\ conv \in [Tasks -> Convs]
  /\ place \in [Tasks -> {"new", "queued", "flushed", "starting", "ready",
                          "creating", "prompting", "over"}]
  /\ status \in [Tasks -> {"none", "running", "completed", "error", "killed"}]
  /\ notified \in [Tasks -> {"none", "done", "error"}]
  /\ reply \in [Tasks -> {"none", "ok", "failed"}]
  /\ at \in [Tasks -> 0..srv.attempts] /\ waits \in [Tasks -> 0..srv.attempts]
  /\ elapsed \subseteq Tasks /\ killed \subseteq Tasks
  /\ aborting \subseteq aborted /\ aborted \subseteq Tasks
  /\ active \in [Convs -> 0..MaxDispatches] /\ queue \in [Convs -> Seq(Tasks)]
  /\ \A c \in Convs : Len(queue[c]) <= QueueCap
  /\ dequeued \subseteq Tasks /\ settling \subseteq dequeued
  /\ session \subseteq Convs /\ faults \in 0..MaxFaults /\ aborts \in 0..MaxAborts
  /\ srv \in Server
  /\ {srv.client, srv.server, srv.starting} \subseteq 0..srv.attempts
  /\ srv.pending \cup srv.mine \cup srv.up \subseteq 1..srv.attempts

OpenCodeInit ==
  /\ arrived = 0 /\ conv \in [Tasks -> Convs]
  /\ place = [d \in Tasks |-> "new"] /\ status = [d \in Tasks |-> "none"]
  /\ notified = [d \in Tasks |-> "none"] /\ reply = [d \in Tasks |-> "none"]
  /\ at = [d \in Tasks |-> None] /\ waits = [d \in Tasks |-> None]
  /\ elapsed = {} /\ killed = {} /\ aborting = {} /\ aborts = 0 /\ aborted = {}
  /\ active = [c \in Convs |-> None] /\ queue = [c \in Convs |-> <<>>]
  /\ dequeued = {} /\ settling = {} /\ session = {}
  /\ srv = NoServer /\ faults = 0

Calm  == settling = {} /\ \A d \in Tasks : place[d] # "ready"
Fault == faults < MaxFaults /\ faults' = faults + 1

-----------------------------------------------------------------------------
\* The server state, as functions of it.

\* Mutant: the client is forgotten, the server is not closed.
Reset_KeepsServer(s) ==
  [s EXCEPT !.server = None, !.client = None, !.starting = None,
            !.disowned = @ \/ s.pending # {}]

\* _resetServerState.
Reset(s) ==
  [s EXCEPT !.up = @ \ {s.server}, !.server = None, !.client = None,
            !.starting = None, !.disowned = @ \/ s.pending # {}]

\* _ensureServer: without a client, join the start under way or begin one.
NeedsStart(s) == s.client = None /\ s.starting = None
Ensure(s) ==
  IF NeedsStart(s)
  THEN [s EXCEPT !.attempts = @ + 1, !.starting = s.attempts + 1,
                 !.pending = @ \cup {s.attempts + 1}]
  ELSE s

\* _startServer: a server was started, one was found on the default port, or
\* neither; the last assignment wins, whatever happened since the start began.
Outcome(s, k, how) ==
  LET t == [s EXCEPT !.pending = @ \ {k}] IN
  CASE how = "own"    -> [t EXCEPT !.client = k, !.server = k,
                                   !.mine = @ \cup {k}, !.up = @ \cup {k}]
    [] how = "joined" -> [t EXCEPT !.client = k, !.server = None, !.up = @ \cup {k}]
    [] how = "failed" -> [t EXCEPT !.client = None, !.server = None, !.starting = None]

-----------------------------------------------------------------------------
\* The queue.  `st' is place as the running handler has it, `s' the server.

\* _dispatchConversationTask up to its first await.
BeginTask(d, st, s) ==
  /\ srv' = Ensure(s)
  /\ place' = [st EXCEPT ![d] = IF s.client # None THEN "ready" ELSE "starting"]
  /\ waits' = IF s.client # None THEN waits ELSE [waits EXCEPT ![d] = Ensure(s).starting]

\* _drainQueue: nothing happens while a task is registered for the conversation.
Drain(c, holder, st, s, settled) ==
  /\ settling' = settled
  /\ IF holder # None \/ queue[c] = <<>>
     THEN srv' = s /\ place' = st /\ UNCHANGED <<queue, dequeued, waits>>
     ELSE /\ queue' = [queue EXCEPT ![c] = Tail(@)]
          /\ dequeued' = dequeued \cup {Head(queue[c])}
          /\ BeginTask(Head(queue[c]), st, s)

\* The task timer is cleared, _onTaskFinished, and the dispatch returns.
Finish(d, s) ==
  LET c   == conv[d]
      act == IF active[c] = d THEN [active EXCEPT ![c] = None] ELSE active
  IN  /\ active' = act
      /\ at' = [at EXCEPT ![d] = None] /\ elapsed' = elapsed \ {d}
      /\ Drain(c, act[c], [place EXCEPT ![d] = "over"], s,
               settling \cup ({d} \cap dequeued))

\* Tasks that return an error before a task was registered.
Refuse(ds) ==
  /\ notified' = [d \in Tasks |-> IF d \in ds THEN "error" ELSE notified[d]]
  /\ reply' = [d \in Tasks |-> IF d \in ds THEN "failed" ELSE reply[d]]
  /\ place' = [d \in Tasks |-> IF d \in ds THEN "over" ELSE place[d]]
  /\ settling' = settling \cup (ds \cap dequeued)

Continue(d) ==
  /\ d \in settling
  /\ Drain(conv[d], active[conv[d]], place, srv, settling \ {d})
  /\ UNCHANGED <<calls, task, timer, active, at, session, faults>>

-----------------------------------------------------------------------------
\* A dispatch.

Dispatch(d) ==
  LET c == conv[d]
      busy == active[c] # None /\ active[c] \in Running
  IN
  /\ Calm /\ d = arrived + 1 /\ d \in Tasks
  /\ arrived' = d
  /\ \/ /\ busy /\ Len(queue[c]) < QueueCap
        /\ queue' = [queue EXCEPT ![c] = Append(@, d)]
        /\ place' = [place EXCEPT ![d] = "queued"]
        /\ UNCHANGED <<task, settling, waits, srv>>
     \/ /\ busy /\ Len(queue[c]) >= QueueCap
        /\ Refuse({d}) /\ UNCHANGED <<status, queue, waits, srv>>
     \/ /\ ~busy
        /\ BeginTask(d, place, srv) /\ UNCHANGED <<task, queue, settling>>
  /\ UNCHANGED <<conv, timer, active, dequeued, at, session, faults>>

StartEnds(k, how) ==
  LET waiting == {d \in Tasks : place[d] = "starting" /\ waits[d] = k} IN
  /\ Calm /\ k \in srv.pending
  /\ srv' = Outcome(srv, k, how)
  /\ IF how = "failed"
     THEN Fault /\ Refuse(waiting)
     ELSE /\ place' = [d \in Tasks |-> IF d \in waiting THEN "ready" ELSE place[d]]
          /\ UNCHANGED <<notified, reply, settling, faults>>
  /\ waits' = [d \in Tasks |-> IF d \in waiting THEN None ELSE waits[d]]
  /\ UNCHANGED <<calls, status, timer, active, queue, dequeued, at, session>>

\* ENSURE_SERVER_TIMEOUT_MS: the dispatch goes, the start goes on.
EnsureTimesOut(d) ==
  /\ Calm /\ place[d] = "starting" /\ Fault
  /\ Refuse({d}) /\ waits' = [waits EXCEPT ![d] = None]
  /\ UNCHANGED <<calls, status, timer, active, queue, dequeued, at, session, srv>>

\* _handleCatchError.
CatchError(d, connection) ==
  LET wasKilled == d \in killed IN
  /\ killed' = killed \ {d}
  /\ status' = [status EXCEPT ![d] = IF @ # "running" THEN @
                                     ELSE IF wasKilled THEN "killed" ELSE "error"]
  /\ notified' = [notified EXCEPT ![d] = IF wasKilled THEN @ ELSE "error"]
  /\ reply' = [reply EXCEPT ![d] = "failed"]
  /\ Finish(d, IF connection /\ ~wasKilled THEN Reset(srv) ELSE srv)

\* The task is registered and the prompt sent; a client that is gone throws.
Run(d) ==
  IF srv.client # None
  THEN /\ status' = [status EXCEPT ![d] = "running"]
       /\ active' = [active EXCEPT ![conv[d]] = d]
       /\ place' = [place EXCEPT ![d] = "prompting"]
       /\ at' = [at EXCEPT ![d] = srv.client]
       /\ UNCHANGED <<notified, reply, killed, queue, dequeued, settling, waits, srv>>
  ELSE /\ status' = [status EXCEPT ![d] = "error"]
       /\ notified' = [notified EXCEPT ![d] = "error"]
       /\ reply' = [reply EXCEPT ![d] = "failed"]
       /\ active' = [active EXCEPT ![conv[d]] = None]
       /\ Drain(conv[d], None, [place EXCEPT ![d] = "over"], srv,
                settling \cup ({d} \cap dequeued))
       /\ at' = [at EXCEPT ![d] = None] /\ UNCHANGED killed

\* The server is there: the limit, then the session.
Proceed(d) ==
  /\ place[d] = "ready"
  /\ \/ /\ srv.client = None \/ Cardinality(Running) >= MaxConcurrency
        /\ Refuse({d})
        /\ UNCHANGED <<status, killed, active, queue, dequeued, at, waits, srv>>
     \/ /\ srv.client # None /\ Cardinality(Running) < MaxConcurrency
        /\ conv[d] \in session /\ Run(d)
     \/ /\ srv.client # None /\ Cardinality(Running) < MaxConcurrency
        /\ conv[d] \notin session
        /\ place' = [place EXCEPT ![d] = "creating"]
        /\ at' = [at EXCEPT ![d] = srv.client]
        /\ UNCHANGED <<task, killed, active, queue, dequeued, settling, waits, srv>>
  /\ UNCHANGED <<calls, elapsed, aborting, aborts, aborted, session, faults>>

Created(d) ==
  /\ Calm /\ place[d] = "creating" /\ at[d] \in srv.up
  /\ session' = session \cup {conv[d]}
  /\ Run(d)
  /\ UNCHANGED <<calls, elapsed, aborting, aborts, aborted, faults>>

\* session.create fails or times out.
CreateFails(d) ==
  /\ Calm /\ place[d] = "creating"
  /\ IF at[d] \in srv.up THEN Fault ELSE UNCHANGED faults
  /\ srv' = Reset(srv) /\ Refuse({d}) /\ at' = [at EXCEPT ![d] = None]
  /\ UNCHANGED <<calls, status, timer, active, queue, dequeued, waits, session>>

-----------------------------------------------------------------------------
\* The prompt.

\* It returns an answer, an error of the SDK or one of the provider.  A task
\* that is over meanwhile is notified nothing, but an SDK error is always notified.
PromptReturns(d, how) ==
  /\ Calm /\ place[d] = "prompting" /\ at[d] \in srv.up
  /\ LET over == status[d] # "running" /\ how # "sdkError" IN
     /\ status' = [status EXCEPT ![d] = IF over THEN @
                                        ELSE IF how = "answer" THEN "completed" ELSE "error"]
     /\ notified' = [notified EXCEPT ![d] = IF over THEN @
                                    ELSE IF how = "answer" THEN "done" ELSE "error"]
     /\ reply' = [reply EXCEPT ![d] = IF ~over /\ how = "answer" THEN "ok" ELSE "failed"]
  /\ Finish(d, srv)
  /\ UNCHANGED <<calls, killed, aborting, aborts, aborted, session, faults>>

\* The connection breaks when its server is gone.
PromptBreaks(d) ==
  /\ Calm /\ place[d] = "prompting" /\ at[d] \notin srv.up
  /\ CatchError(d, TRUE)
  /\ UNCHANGED <<calls, aborting, aborts, aborted, session, faults>>

\* Mutant: session.prompt is awaited without a timeout of its own.
PromptExpires_Unbounded(d) ==
  /\ Calm /\ place[d] = "prompting" /\ d \in elapsed /\ at[d] \notin srv.up
  /\ CatchError(d, FALSE)
  /\ UNCHANGED <<calls, aborting, aborts, aborted, session, faults>>

\* PROMPT_TIMEOUT_BUFFER_MS after the task timer.
PromptExpires(d) ==
  /\ Calm /\ place[d] = "prompting" /\ d \in elapsed
  /\ CatchError(d, FALSE)
  /\ UNCHANGED <<calls, aborting, aborts, aborted, session, faults>>

TaskTimesOut(d) ==
  /\ Calm /\ place[d] = "prompting" /\ d \notin elapsed
  /\ elapsed' = elapsed \cup {d}
  /\ status' = [status EXCEPT ![d] = IF @ = "running" THEN "error" ELSE @]
  /\ UNCHANGED <<calls, notified, reply, killed, aborting, aborts, aborted, flow, at,
                 waits, session, srv, faults>>

\* The process of the server dies.
ServerDies(k) ==
  /\ Calm /\ k \in srv.up /\ Fault
  /\ srv' = [srv EXCEPT !.up = @ \ {k}]
  /\ UNCHANGED <<calls, task, timer, flow, at, waits, session>>

-----------------------------------------------------------------------------
\* Aborts: the queues of cs are flushed, then the victims are notified to end.

Abort(cs, victims) ==
  LET waiting == {d \in Tasks : place[d] = "queued" /\ conv[d] \in cs} IN
  /\ Calm /\ aborts < MaxAborts /\ aborts' = aborts + 1
  /\ queue' = [c \in Convs |-> IF c \in cs THEN <<>> ELSE queue[c]]
  /\ place' = [d \in Tasks |-> IF d \in waiting THEN "flushed" ELSE place[d]]
  /\ reply' = [d \in Tasks |-> IF d \in waiting THEN "failed" ELSE reply[d]]
  /\ killed' = killed \cup victims
  /\ aborting' = aborting \cup victims
  /\ aborted' = aborted \cup victims
  /\ UNCHANGED <<calls, status, notified, elapsed, active, dequeued, settling, at, waits,
                 session, srv, faults>>

AbortConversation(c) == Abort({c}, {active[c]} \cap Tasks)

AbortAll == Abort(Convs, Running)

\* session.abort returned or timed out; only then the status changes.
AbortReturns(d) ==
  /\ Calm /\ d \in aborting
  /\ aborting' = aborting \ {d}
  /\ status' = [status EXCEPT ![d] = IF @ = "running" THEN "killed" ELSE @]
  /\ UNCHANGED <<calls, notified, reply, elapsed, killed, aborts, aborted, flow, at,
                 waits, session, srv, faults>>

Step(d) ==
  \/ Dispatch(d) \/ Continue(d) \/ Proceed(d) \/ EnsureTimesOut(d)
  \/ Created(d) \/ CreateFails(d) \/ PromptBreaks(d) \/ PromptExpires(d)
  \/ TaskTimesOut(d) \/ AbortReturns(d)
  \/ \E how \in {"answer", "sdkError", "providerError"} : PromptReturns(d, how)

OpenCodeNext ==
  \/ \E d \in Tasks : Step(d)
  \/ \E k \in srv.pending, how \in {"own", "joined", "failed"} : StartEnds(k, how)
  \/ \E k \in srv.up : ServerDies(k)
  \/ \E c \in Convs : AbortConversation(c)
  \/ AbortAll

OpenCodeSpec == OpenCodeInit /\ [][OpenCodeNext]_openCodeVars

\* Microtasks run, timers fire, and a start and the creation of a session end,
\* for both are under timeouts.  A prompt need not return.
FairOpenCodeSpec ==
  /\ OpenCodeSpec
  /\ \A d \in Tasks :
       /\ WF_openCodeVars(Continue(d)) /\ WF_openCodeVars(Proceed(d))
       /\ WF_openCodeVars(TaskTimesOut(d)) /\ WF_openCodeVars(PromptExpires(d))
       /\ WF_openCodeVars(Created(d) \/ CreateFails(d))
  /\ WF_openCodeVars(\E k \in srv.pending, how \in {"own", "joined", "failed"} :
                       StartEnds(k, how))

-----------------------------------------------------------------------------
\* A server that was started here and lives is the current one: every path that
\* drops a server closes it, unless a reset came while another start was under
\* way.
NoServerLost == srv.disowned \/ srv.mine \cap srv.up \subseteq {srv.server}

\* No queue is forgotten: a registered task or a dispatch from the queue will
\* drain it, whichever way they end and whichever dispatches ran beside them.
QueueHasDriver ==
  \A c \in Convs : queue[c] # <<>> =>
    \/ active[c] # None /\ place[active[c]] = "prompting"
    \/ \E d \in dequeued :
         conv[d] = c /\ (d \in settling \/ place[d] \in {"starting", "ready", "creating"})

\* Every dispatch is answered, though a prompt may never return.
EveryoneAnswered == \A d \in Tasks : place[d] # "new" ~> reply[d] # "none"

(* What the comments of the code say.                                      *)

\* opencode.plugin.ts:1378 "Suppress onError for intentional aborts".
AbortIsSilent == \A d \in aborted : notified[d] # "error"

\* opencode.plugin.ts:117 the task timer's message reaches the caller: a
\* dispatch that failed without an abort was notified so.
FailureIsTold ==
  \A d \in Tasks \ aborted :
    reply[d] = "failed" /\ place[d] # "flushed" => notified[d] = "error"

\* opencode.plugin.ts:1434 "no double-dequeue".
DequeuedAlone ==
  [][\A d, e \in Tasks :
       Continue(d) /\ place[e] = "queued" /\ place'[e] \in {"ready", "starting"} =>
         \A x \in Tasks :
           conv[x] = conv[e] => place[x] \notin {"ready", "starting", "creating"}]_openCodeVars

\* opencode.plugin.ts:1364: an error of a dead server clears the reference to
\* it, not the server that replaced it.
ResetSparesHeir ==
  [][\A d \in Tasks : PromptBreaks(d) /\ srv.server \in srv.up => srv' = srv]_openCodeVars
=============================================================================
