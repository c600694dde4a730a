-------------------------- MODULE AgentSupervision --------------------------
(***************************************************************************)
(* How the daemon keeps its P2P agent running: spawnP2PSubAgent starts the *)
(* child and waits for its "ready" until a startup timer gives up; a child *)
(* that exits later is started again by P2PRestartManager, with a backoff  *)
(* for maxRetries attempts and a long cooldown after that; a restarted     *)
(* child that does not become ready in time is killed; a child that stays  *)
(* up for stableThresholdMs gives the attempts back; stop() ends all that. *)
(*                                                                         *)
(* A spawn may throw, may come back without stdio, or may fail later: then *)
(* Node emits "error" and, as the process never ran, no "exit".            *)
(***************************************************************************)
EXTENDS Integers

CONSTANT MaxRetries    \* P2PRestartConfig.maxRetries

ASSUME RetriesAssumption == MaxRetries \in Nat \ {0}

VARIABLES
  child,         \* currentChild; "killed" until its exit event, "failed" if
                 \* the process never ran
  first,         \* the child is the one spawnP2PSubAgent started
  initialReady,
  answer,        \* what spawnP2PSubAgent resolved with
  retries,       \* retryCount
  probed,        \* recoveryAttempts > 0
  retryTimer, recoveryTimer, stableTimer, readyTimer, startupTimer,
  stopped        \* stop() was called, which clears the timers for good, or
                 \* main() has failed

timers == <<retryTimer, recoveryTimer, stableTimer, readyTimer, startupTimer>>
agentVars == <<child, first, initialReady, answer, retries, probed, timers, stopped>>

Alive   == {"starting", "ready", "killed"}
Running == child \in Alive

SupervisionTypeOK ==
  /\ child \in Alive \cup {"none", "failed"}
  /\ first \in BOOLEAN /\ initialReady \in BOOLEAN
  /\ answer \in {"pending", "success", "failure"}
  /\ retries \in 0..MaxRetries /\ probed \in BOOLEAN
  /\ retryTimer \in BOOLEAN /\ recoveryTimer \in BOOLEAN
  /\ stableTimer \in BOOLEAN /\ readyTimer \in BOOLEAN
  /\ startupTimer \in BOOLEAN /\ stopped \in BOOLEAN

SupervisionInit ==
  /\ child = "none" /\ first = TRUE /\ initialReady = FALSE
  /\ answer = "pending" /\ retries = 0 /\ probed = FALSE
  /\ retryTimer = FALSE /\ recoveryTimer = FALSE /\ stableTimer = FALSE
  /\ readyTimer = FALSE /\ startupTimer = FALSE /\ stopped = FALSE

-----------------------------------------------------------------------------
(* P2PRestartManager.                                                      *)

Settle(a) == answer' = IF answer = "pending" THEN a ELSE answer

\* scheduleRestart with the retry count and the two timers as they are.
ScheduleRestart(n, retry, recovery) ==
  IF stopped THEN retries' = n /\ retryTimer' = retry /\ recoveryTimer' = recovery
  ELSE IF n >= MaxRetries
       THEN retries' = n /\ retryTimer' = retry /\ recoveryTimer' = TRUE
       ELSE retries' = n + 1 /\ retryTimer' = TRUE /\ recoveryTimer' = recovery

NoRestart(n, retry, recovery) ==
  retries' = n /\ retryTimer' = retry /\ recoveryTimer' = recovery

\* Mutant: stop() leaves the recovery probe armed.
Stop_KeepsProbe ==
  /\ ~stopped /\ stopped' = TRUE
  /\ retryTimer' = FALSE /\ stableTimer' = FALSE
  /\ UNCHANGED <<child, first, initialReady, answer, retries, probed,
                 recoveryTimer, readyTimer, startupTimer>>

Stop ==
  /\ ~stopped /\ stopped' = TRUE
  /\ retryTimer' = FALSE /\ recoveryTimer' = FALSE /\ stableTimer' = FALSE
  /\ UNCHANGED <<child, first, initialReady, answer, retries, probed, readyTimer,
                 startupTimer>>

\* The child stayed up: the budget of attempts is whole again.
StableFires ==
  /\ stableTimer /\ stableTimer' = FALSE
  /\ retries' = 0 /\ probed' = FALSE
  /\ UNCHANGED <<child, first, initialReady, answer, retryTimer, recoveryTimer,
                 readyTimer, startupTimer, stopped>>

-----------------------------------------------------------------------------
(* spawnChild, called at the start and by the two timers, with the retry   *)
(* count and the timers as they are then; the caller handles a throw.      *)

SpawnWorks(n, retry, recovery) ==
  /\ child' = "starting"
  /\ readyTimer' = initialReady
  /\ NoRestart(n, retry, recovery)
  /\ UNCHANGED answer

SpawnWithoutStdio(n, retry, recovery) ==
  /\ child' = "none"
  /\ readyTimer' = initialReady
  /\ IF initialReady THEN ScheduleRestart(n, retry, recovery) /\ UNCHANGED answer
     ELSE NoRestart(n, retry, recovery) /\ Settle("failure")

\* A throw rejects the promise that main() awaits, and the daemon is at its end.
SpawnFirst ==
  /\ child = "none" /\ answer = "pending" /\ ~startupTimer
  /\ \/ /\ \/ SpawnWorks(retries, retryTimer, recoveryTimer)
           \/ SpawnWithoutStdio(retries, retryTimer, recoveryTimer)
        /\ startupTimer' = TRUE /\ UNCHANGED stopped
     \/ /\ answer' = "failure" /\ stopped' = TRUE            \* spawn throws
        /\ UNCHANGED <<child, retries, timers>>
  /\ UNCHANGED <<first, initialReady, probed, stableTimer>>

RetryFires ==
  /\ retryTimer /\ first' = FALSE
  /\ \/ SpawnWorks(retries, FALSE, recoveryTimer)
     \/ SpawnWithoutStdio(retries, FALSE, recoveryTimer)
     \/ /\ ScheduleRestart(retries, FALSE, recoveryTimer)     \* spawn throws
        /\ UNCHANGED <<child, readyTimer, answer>>
  /\ UNCHANGED <<initialReady, probed, stableTimer, startupTimer, stopped>>

\* The probe resets the count; if spawning throws it is armed again.
RecoveryFires ==
  /\ recoveryTimer /\ probed' = TRUE /\ first' = FALSE
  /\ \/ SpawnWorks(0, retryTimer, FALSE)
     \/ SpawnWithoutStdio(0, retryTimer, FALSE)
     \/ /\ NoRestart(0, retryTimer, TRUE)
        /\ UNCHANGED <<child, readyTimer, answer>>
  /\ UNCHANGED <<initialReady, stableTimer, startupTimer, stopped>>

\* The event "error" of a process that never ran.
SpawnFails ==
  /\ child = "starting" /\ child' = "failed"
  /\ IF initialReady THEN UNCHANGED answer ELSE Settle("failure")
  /\ UNCHANGED <<first, initialReady, retries, probed, timers, stopped>>

\* The message "ready": resolveReady, then onReady.
AgentReady ==
  /\ child = "starting" /\ child' = "ready"
  /\ IF initialReady THEN readyTimer' = FALSE /\ UNCHANGED <<initialReady, answer>>
     ELSE initialReady' = TRUE /\ Settle("success") /\ UNCHANGED readyTimer
  /\ stableTimer' = ~stopped
  /\ UNCHANGED <<first, retries, probed, retryTimer, recoveryTimer, startupTimer,
                 stopped>>

\* Mutant: a hung child is given up but not killed.
ReadyTimesOut_NoKill ==
  /\ readyTimer /\ readyTimer' = FALSE /\ UNCHANGED child
  /\ UNCHANGED <<first, initialReady, answer, retries, probed, retryTimer,
                 recoveryTimer, stableTimer, startupTimer, stopped>>

\* reconnectReadyTimeoutMs: the hung child is killed, its exit does the rest.
ReadyTimesOut ==
  /\ readyTimer /\ readyTimer' = FALSE
  /\ child' = IF child \in Alive THEN "killed" ELSE child
  /\ UNCHANGED <<first, initialReady, answer, retries, probed, retryTimer,
                 recoveryTimer, stableTimer, startupTimer, stopped>>

\* P2P_READY_MS: the daemon goes on without the agent, which may come later.
StartupTimesOut ==
  /\ startupTimer /\ startupTimer' = FALSE
  /\ initialReady' = TRUE /\ Settle("failure")
  /\ UNCHANGED <<child, first, retries, probed, retryTimer, recoveryTimer,
                 stableTimer, readyTimer, stopped>>

AgentExits ==
  /\ child \in Alive /\ child' = "none"
  /\ readyTimer' = FALSE /\ stableTimer' = FALSE
  /\ IF initialReady THEN ScheduleRestart(retries, retryTimer, recoveryTimer)
                          /\ UNCHANGED answer
     ELSE UNCHANGED <<retries, retryTimer, recoveryTimer>> /\ Settle("failure")
  /\ UNCHANGED <<first, initialReady, probed, startupTimer, stopped>>

-----------------------------------------------------------------------------
\* At most one agent exists or is about to be started, and none is about to be
\* started once the manager is stopped: the timers of retry and recovery, both
\* armed from exit events, never overlap with each other or with a child.
OneAgent ==
  /\ ~(retryTimer /\ recoveryTimer)
  /\ Running => ~retryTimer /\ ~recoveryTimer
  /\ stopped => ~retryTimer /\ ~recoveryTimer /\ ~stableTimer

\* An agent that is gone has the timer of the next armed, and one that is being
\* restarted the timer that replaces it should it hang.
RestartIsArmed ==
  /\ answer = "success" /\ ~stopped /\ child = "none" => retryTimer \/ recoveryTimer
  /\ child = "starting" /\ ~first => readyTimer

\* After a successful start the daemon is never without an agent for good: one
\* that exits is followed by another, one that is restarted becomes ready or
\* is replaced, until the daemon stops or a process cannot be started at all.
AgentComesBack ==
  /\ (answer = "success" /\ ~stopped /\ child = "none")
       ~> (child # "none" \/ stopped)
  /\ (child = "starting" /\ ~first) ~> (child # "starting" \/ stopped)
=============================================================================
