------------------------------ MODULE AgentLink ------------------------------
(***************************************************************************)
(* The channel between the daemon and the agent it supervises: the write   *)
(* queue of the daemon (IpcWriteQueue) with its backpressure, the agent    *)
(* that reads its stdin and answers requests for messages, the daemon's    *)
(* table of pending requests, and the end of the agent when the daemon     *)
(* asks for it or is gone.                                                 *)
(*                                                                         *)
(* Requests are numbered in the order of the calls.  A message is a        *)
(* request, Note (any other traffic) or Shutdown.                          *)
(***************************************************************************)
EXTENDS AgentSupervision, Sequences, SequencesExt

CONSTANTS
  QueueMax,     \* IPC_QUEUE_MAX_DEPTH
  DropCount,    \* a tenth of it: how many a full queue drops
  StreamMax,    \* messages the stream takes before write() returns false
  MaxRequests,  \* bound: calls of requestRecentMessages
  MaxNotes      \* bound: other messages

ASSUME LinkAssumption ==
  /\ QueueMax \in Nat \ {0} /\ DropCount \in 1..QueueMax
  /\ StreamMax \in Nat \ {0} /\ MaxRequests \in Nat /\ MaxNotes \in Nat

VARIABLES
  configured,  \* agentStdin and ipcQueue are set
  entries,     \* IpcWriteQueue.entries
  draining,    \* _drain waits for 'drain'
  stdin,       \* written to the child, not yet read by it
  reading,     \* requests the agent works on, concurrently
  stdout,      \* answers on their way to the daemon
  request,     \* the caller's view of a request
  asked, notes,
  lost,        \* history: requests that a full or stalled queue dropped
  daemon,      \* "up" or "gone"
  leaving      \* the agent's _shutdownInProgress

channel  == <<entries, draining, stdin, reading, stdout>>
linkVars == <<configured, channel, request, asked, notes, lost, daemon, leaving>>
vars     == <<agentVars, linkVars>>

Requests == 1..MaxRequests
Note     == 0
Shutdown == -1
Messages == Shutdown..MaxRequests

TypeOK ==
  /\ SupervisionTypeOK
  /\ configured \in BOOLEAN /\ draining \in BOOLEAN
  /\ entries \in Seq(Messages) /\ Len(entries) <= QueueMax
  /\ stdin \in Seq(Messages)
  /\ reading \in SUBSET Requests /\ stdout \in Seq(Requests)
  /\ request \in [Requests -> {"new", "pending", "messages", "empty"}]
  /\ asked \in 0..MaxRequests /\ notes \in 0..MaxNotes
  /\ lost \in SUBSET Requests
  /\ daemon \in {"up", "gone"} /\ leaving \in BOOLEAN
  /\ entries # <<>> => draining

Init ==
  /\ SupervisionInit
  /\ configured = FALSE /\ entries = <<>> /\ draining = FALSE
  /\ stdin = <<>> /\ reading = {} /\ stdout = <<>>
  /\ request = [r \in Requests |-> "new"] /\ asked = 0 /\ notes = 0 /\ lost = {}
  /\ daemon = "up" /\ leaving = FALSE

-----------------------------------------------------------------------------
(* Sending.                                                                *)

Dropped(s) == lost' = lost \cup (ToSet(s) \cap Requests)

\* _drain writes what is queued until the stream is full.
Flush(q) ==
  LET n == IF Len(q) = 0 THEN 0
           ELSE IF Len(stdin) >= StreamMax THEN 1      \* written, and not ok
           ELSE IF Len(q) < StreamMax - Len(stdin) THEN Len(q)
           ELSE StreamMax - Len(stdin)
  IN  /\ stdin' = stdin \o SubSeq(q, 1, n)
      /\ entries' = SubSeq(q, n + 1, Len(q))
      /\ draining' = (n > 0 /\ Len(stdin) + n >= StreamMax)

\* enqueue: at the limit the oldest go; a drain that waits is not disturbed.
Enqueue(m) ==
  LET full == Len(entries) >= QueueMax
      kept == IF full THEN SubSeq(entries, DropCount + 1, Len(entries)) ELSE entries
  IN  /\ Dropped(IF full THEN SubSeq(entries, 1, DropCount) ELSE <<>>)
      /\ IF draining THEN entries' = Append(kept, m) /\ UNCHANGED <<draining, stdin>>
         ELSE Flush(Append(kept, m))

\* sendDaemonToAgent: without an agent the message is gone.
Send(m) ==
  IF configured THEN Enqueue(m)
  ELSE UNCHANGED <<entries, draining, stdin>> /\ Dropped(<<>>)

SendNote ==
  /\ daemon = "up" /\ notes < MaxNotes /\ notes' = notes + 1
  /\ Send(Note)
  /\ UNCHANGED <<agentVars, configured, reading, stdout, request, asked, daemon,
                 leaving>>

RequestRecentMessages ==
  LET r == asked + 1 IN
  /\ daemon = "up" /\ r \in Requests /\ asked' = r
  /\ Send(r)
  /\ request' = [request EXCEPT ![r] = IF configured THEN "pending" ELSE "empty"]
  /\ UNCHANGED <<agentVars, configured, reading, stdout, notes, daemon, leaving>>

\* The agent has read so much that the stream emits 'drain'.
StreamDrains ==
  /\ draining /\ stdin = <<>>
  /\ Flush(entries)
  /\ UNCHANGED <<agentVars, configured, reading, stdout, request, asked, notes,
                 lost, daemon, leaving>>

\* DRAIN_TIMEOUT_MS: everything queued is discarded, the stream stays full.
DrainTimesOut ==
  /\ draining /\ daemon = "up"
  /\ Dropped(entries) /\ entries' = <<>> /\ draining' = FALSE
  /\ UNCHANGED <<agentVars, configured, stdin, reading, stdout, request, asked,
                 notes, daemon, leaving>>

RequestTimesOut(r) ==
  /\ request[r] = "pending" /\ daemon = "up"
  /\ request' = [request EXCEPT ![r] = "empty"]
  /\ UNCHANGED <<agentVars, configured, channel, asked, notes, lost, daemon, leaving>>

\* handleRecentMessagesResponse: an answer nobody waits for is ignored.
AnswerArrives ==
  /\ stdout # <<>> /\ daemon = "up" /\ stdout' = Tail(stdout)
  /\ request' = IF request[Head(stdout)] = "pending"
                THEN [request EXCEPT ![Head(stdout)] = "messages"] ELSE request
  /\ UNCHANGED <<agentVars, configured, entries, draining, stdin, reading, asked,
                 notes, lost, daemon, leaving>>

-----------------------------------------------------------------------------
(* The agent: it reads on while the commands before are still at work.     *)

AgentReads ==
  /\ Running /\ child # "killed" /\ stdin # <<>> /\ stdin' = Tail(stdin)
  /\ reading' = IF Head(stdin) \in Requests THEN reading \cup {Head(stdin)}
                ELSE reading
  /\ leaving' = (leaving \/ Head(stdin) = Shutdown)
  /\ UNCHANGED <<agentVars, configured, entries, draining, stdout, request, asked,
                 notes, lost, daemon>>

\* The messages, or an empty list after an error or the agent's own timeout.
AgentAnswers(r) ==
  /\ Running /\ child # "killed" /\ r \in reading
  /\ reading' = reading \ {r} /\ stdout' = Append(stdout, r)
  /\ UNCHANGED <<agentVars, configured, entries, draining, stdin, request, asked,
                 notes, lost, daemon, leaving>>

\* Mutant: the agent leaves only once its commands are done.
StdinEnds_AfterWork ==
  /\ Running /\ child # "killed" /\ daemon = "gone" /\ stdin = <<>> /\ ~leaving
  /\ reading = {} /\ leaving' = TRUE
  /\ UNCHANGED <<agentVars, configured, channel, request, asked, notes, lost, daemon>>

\* stdin ends when the daemon is gone.
StdinEnds ==
  /\ Running /\ child # "killed" /\ daemon = "gone" /\ stdin = <<>> /\ ~leaving
  /\ leaving' = TRUE
  /\ UNCHANGED <<agentVars, configured, channel, request, asked, notes, lost, daemon>>

-----------------------------------------------------------------------------
(* Supervision, with what each step does to the channel.                   *)

Cleared == /\ configured' = FALSE /\ entries' = <<>> /\ draining' = FALSE
           /\ stdin' = <<>> /\ reading' = {} /\ stdout' = <<>>

\* Mutant: pending requests are left to their timers.
ClearP2PSender_KeepsPending == Cleared /\ UNCHANGED request

\* clearP2PSender after destroyChildStreams: pending requests get nothing.
ClearP2PSender ==
  /\ Cleared
  /\ request' = [r \in Requests |-> IF request[r] = "pending" THEN "empty"
                                    ELSE request[r]]

\* configureP2PSender makes a new queue for the new child.
Configure ==
  IF child' = "starting"
  THEN /\ configured' = TRUE /\ leaving' = FALSE
       /\ entries' = <<>> /\ draining' = FALSE /\ stdin' = <<>>
       /\ reading' = {} /\ stdout' = <<>>
  ELSE UNCHANGED <<configured, channel, leaving>>

SpawnStep ==
  /\ daemon = "up"
  /\ SpawnFirst \/ RetryFires \/ RecoveryFires
  /\ Configure
  /\ UNCHANGED <<request, asked, notes, lost, daemon>>

TimerStep ==
  /\ daemon = "up"
  /\ StableFires \/ ReadyTimesOut \/ StartupTimesOut
  /\ UNCHANGED linkVars

ReadyStep == daemon = "up" /\ AgentReady /\ UNCHANGED linkVars

EndStep ==
  /\ daemon = "up"
  /\ SpawnFails \/ AgentExits
  /\ ClearP2PSender
  /\ UNCHANGED <<asked, notes, lost, daemon, leaving>>

\* shutdown(): no more restarts, then the message; the agent may be gone.
StopStep ==
  /\ daemon = "up" /\ answer # "pending" /\ Stop
  /\ Send(Shutdown)
  /\ UNCHANGED <<configured, reading, stdout, request, asked, notes, daemon, leaving>>

\* The daemon exits, in order or by its own watchdog; its streams close.
DaemonExits ==
  /\ daemon = "up" /\ stopped /\ daemon' = "gone"
  /\ UNCHANGED <<agentVars, configured, channel, request, asked, notes, lost, leaving>>

\* disconnectP2P ends or SHUTDOWN_TIMEOUT_MS fires: with the daemon up its exit
\* handler runs, otherwise the process just ends.
OrphanExits ==
  /\ daemon = "gone" /\ Running /\ (leaving \/ child = "killed")
  /\ child' = "none"
  /\ UNCHANGED <<first, initialReady, answer, retries, probed, timers, stopped, linkVars>>

Next ==
  \/ SendNote \/ RequestRecentMessages \/ StreamDrains \/ DrainTimesOut
  \/ AnswerArrives \/ AgentReads \/ StdinEnds
  \/ (\E r \in Requests : RequestTimesOut(r) \/ AgentAnswers(r))
  \/ SpawnStep \/ TimerStep \/ ReadyStep \/ EndStep \/ StopStep
  \/ DaemonExits \/ OrphanExits

Spec == Init /\ [][Next]_vars

\* Timers fire, and one attempt in many to start a process succeeds; the daemon's
\* shutdown ends; the agent's event loop turns, a process that leaves or is
\* killed ends.  Children may crash or hang at will.
FairSpec ==
  /\ Spec
  /\ SF_vars(SpawnStep /\ ~SpawnFirst /\ child' = "starting")
  /\ WF_vars(daemon = "up" /\ ReadyTimesOut /\ UNCHANGED linkVars)
  /\ WF_vars((leaving \/ child = "killed") /\ EndStep)
  /\ WF_vars(AgentReads) /\ WF_vars(StdinEnds)
  /\ WF_vars(DaemonExits) /\ WF_vars(OrphanExits)

-----------------------------------------------------------------------------
\* A request that waits for its answer is under way to the agent that runs now,
\* being answered by it, or on its way back, unless the write queue dropped it:
\* clearP2PSender settles the requests of an agent that is gone.
RequestTracked ==
  \A r \in Requests : daemon = "up" /\ request[r] = "pending" =>
    \/ Running /\ r \in ToSet(entries) \cup ToSet(stdin) \cup reading \cup ToSet(stdout)
    \/ r \in lost

\* An agent does not outlive its daemon, even if the shutdown message is lost
\* to a full queue or the daemon's exit comes first.
NoOrphan == daemon = "gone" ~> ~Running

\* "Auto-restart is handled by the 'exit' event which always follows 'error'"
\* (daemon/services.ts:283): a process that could not be started is followed by
\* its exit, and so by another attempt.
ExitFollowsError ==
  (child = "failed" /\ initialReady /\ ~stopped) ~> (child # "failed" \/ stopped)
=============================================================================
