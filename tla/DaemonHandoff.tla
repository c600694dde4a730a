--------------------------- MODULE DaemonHandoff ---------------------------
(***************************************************************************)
(* The life of a daemon and its replacement: main() writes the PID file,   *)
(* initialises, writes the ready file; performRestart() spawns a successor *)
(* and hands over once the ready file names it; shutdown() removes what    *)
(* the daemon owns; the command line starts and stops daemons by the PID   *)
(* file.  Everything meets in two files and in signals.                    *)
(*                                                                         *)
(* PIDs are given out in order and never reused; 0 is no PID.              *)
(***************************************************************************)
EXTENDS Integers, FiniteSets

CONSTANTS
  MaxDaemons,   \* bound: processes ever spawned
  MaxCommands,  \* bound: commands given to the command line
  MaxFaults     \* bound: crashes, hard kills and file operations that time out

ASSUME HandoffAssumption ==
  MaxDaemons \in Nat \ {0} /\ MaxCommands \in Nat /\ MaxFaults \in Nat

Pids == 1..MaxDaemons
Pid0 == 0..MaxDaemons

VARIABLES
  phase,      \* what a daemon is doing, see TypeOK
  successor,  \* the child of a restart in progress; 0: restartInProgress is unset
  pidFile, readyFile,
  cli,        \* the command line: where it is and the PID it read
  commands, faults,
  heirs,      \* history: daemons that were handed over to
  gaveUp,     \* history: a restart was given up
  harmed      \* history: a daemon in service was stopped, killed or crashed

history == <<heirs, gaveUp, harmed>>
vars    == <<phase, successor, pidFile, readyFile, cli, commands, faults, history>>

Starting == {"starting", "booting"}
Stopping == {"draining", "checking", "unlinking", "cleaning"}
Alive(d) == phase[d] \notin {"none", "gone"}

TypeOK ==
  /\ phase \in [Pids -> {"none", "gone", "ready"} \cup Starting \cup Stopping]
  /\ successor \in [Pids -> Pid0]
  /\ pidFile \in Pid0 /\ readyFile \in Pid0
  /\ cli \in [at : {"idle", "clean", "check", "health", "wait", "remove"}, pid : Pid0]
  /\ commands \in 0..MaxCommands /\ faults \in 0..MaxFaults
  /\ heirs \subseteq Pids /\ gaveUp \in BOOLEAN /\ harmed \in BOOLEAN

Init ==
  /\ phase = [d \in Pids |-> IF d = 1 THEN "ready" ELSE "none"]
  /\ successor = [d \in Pids |-> 0]
  /\ pidFile = 1 /\ readyFile = 1
  /\ cli = [at |-> "idle", pid |-> 0]
  /\ commands = 0 /\ faults = 0 /\ heirs = {} /\ gaveUp = FALSE /\ harmed = FALSE

Fault     == faults < MaxFaults /\ faults' = faults + 1
IsNext(d) == \A e \in Pids : phase[e] = "none" <=> e >= d
cliVars   == <<cli, commands>>

-----------------------------------------------------------------------------
(* main().                                                                 *)

\* writePidFileAsync; when it times out the daemon goes on without.
WritePid(d) ==
  /\ phase[d] = "starting" /\ phase' = [phase EXCEPT ![d] = "booting"]
  /\ \/ pidFile' = d /\ UNCHANGED faults
     \/ Fault /\ UNCHANGED pidFile
  /\ UNCHANGED <<successor, readyFile, cliVars, history>>

\* The ready file, then the signal handlers.
BecomeReady(d) ==
  /\ phase[d] = "booting" /\ phase' = [phase EXCEPT ![d] = "ready"]
  /\ \/ readyFile' = d /\ UNCHANGED faults
     \/ Fault /\ UNCHANGED readyFile
  /\ UNCHANGED <<successor, pidFile, cliVars, history>>

\* main().catch and the handler of uncaughtException remove the files of
\* whoever wrote them; a hard kill removes none.
Crash(d) ==
  /\ Alive(d) /\ Fault
  /\ phase' = [phase EXCEPT ![d] = "gone"]
  /\ \/ pidFile' = 0 /\ readyFile' = 0
     \/ UNCHANGED <<pidFile, readyFile>>
  /\ harmed' = (harmed \/ phase[d] = "ready")
  /\ UNCHANGED <<successor, cliVars, heirs, gaveUp>>

\* SIGTERM: shutdown() from where its handler is registered, death before.
Terminated(ph, d) ==
  IF ph[d] \in Starting THEN [ph EXCEPT ![d] = "gone"]
  ELSE IF ph[d] = "ready" THEN [ph EXCEPT ![d] = "draining"] ELSE ph

-----------------------------------------------------------------------------
(* performRestart.                                                         *)

\* A restart requested by the phone, the signal file, the watchdog or the
\* memory monitor; while one is in progress the request is ignored.  A daemon
\* whose predecessor still polls (every 250 ms) has a successor of its own only
\* if that poll is held up.
SpawnSuccessor(d) ==
  \E c \in Pids :
    /\ phase[d] = "ready" /\ successor[d] = 0 /\ IsNext(c)
    /\ IF \E e \in Pids : Alive(e) /\ successor[e] = d THEN Fault ELSE UNCHANGED faults
    /\ phase' = [phase EXCEPT ![c] = "starting"]
    /\ successor' = [successor EXCEPT ![d] = c]
    /\ UNCHANGED <<pidFile, readyFile, cliVars, history>>

\* Mutant: the handoff does not look at whose ready file it is.
HandOver_AnyReady(d) ==
  LET c == successor[d] IN
  /\ Alive(d) /\ c # 0 /\ readyFile # 0 /\ Alive(c)
  /\ successor' = [successor EXCEPT ![d] = 0]
  /\ phase' = IF phase[d] = "ready" THEN [phase EXCEPT ![d] = "draining"] ELSE phase
  /\ heirs' = heirs \cup {c}
  /\ UNCHANGED <<pidFile, readyFile, cliVars, faults, gaveUp, harmed>>

\* pollReady finds the ready file of its child: shutdown('restart-handoff').
HandOver(d) ==
  LET c == successor[d] IN
  /\ Alive(d) /\ c # 0 /\ readyFile = c /\ Alive(c)
  /\ successor' = [successor EXCEPT ![d] = 0]
  /\ phase' = IF phase[d] = "ready" THEN [phase EXCEPT ![d] = "draining"] ELSE phase
  /\ heirs' = heirs \cup {c}
  /\ UNCHANGED <<pidFile, readyFile, cliVars, faults, gaveUp, harmed>>

\* Mutant: the child that is late is left alone.
GiveUp_NoSignal(d) ==
  LET c == successor[d] IN
  /\ Alive(d) /\ c # 0 /\ ~(readyFile = c /\ Alive(c))
  /\ successor' = [successor EXCEPT ![d] = 0]
  /\ gaveUp' = TRUE
  /\ UNCHANGED <<phase, pidFile, readyFile, cliVars, faults, heirs, harmed>>

\* The deadline of 10 s, or an error: the child is terminated, this one stays.
GiveUp(d) ==
  LET c == successor[d] IN
  /\ Alive(d) /\ c # 0 /\ ~(readyFile = c /\ Alive(c))
  /\ successor' = [successor EXCEPT ![d] = 0]
  /\ phase' = Terminated(phase, c)
  /\ gaveUp' = TRUE
  /\ UNCHANGED <<pidFile, readyFile, cliVars, faults, heirs, harmed>>

-----------------------------------------------------------------------------
(* shutdown(), which other signals and restarts do not disturb.            *)

Advance(d, from, to) == phase[d] = from /\ phase' = [phase EXCEPT ![d] = to]

Drained(d) ==
  /\ Advance(d, "draining", "checking")
  /\ UNCHANGED <<successor, pidFile, readyFile, cliVars, faults, history>>

\* Mutant: the PID file is removed without a look at it.
CheckOwner_Skipped(d) ==
  /\ Advance(d, "checking", "unlinking")
  /\ UNCHANGED <<successor, pidFile, readyFile, cliVars, faults, history>>

\* removePidFileIfOwnedAsync: the read; an error leaves the file.
CheckOwner(d) ==
  /\ \/ Advance(d, "checking", IF pidFile = d THEN "unlinking" ELSE "cleaning")
        /\ UNCHANGED faults
     \/ Advance(d, "checking", "cleaning") /\ Fault
  /\ UNCHANGED <<successor, pidFile, readyFile, cliVars, history>>

UnlinkPid(d) ==
  /\ Advance(d, "unlinking", "cleaning")
  /\ \/ pidFile' = 0 /\ UNCHANGED faults
     \/ Fault /\ UNCHANGED pidFile
  /\ UNCHANGED <<successor, readyFile, cliVars, history>>

\* The ready file goes, whoever wrote it, and the process ends.
Exit(d) ==
  /\ Advance(d, "cleaning", "gone")
  /\ \/ readyFile' = 0 /\ UNCHANGED faults
     \/ Fault /\ UNCHANGED readyFile
  /\ UNCHANGED <<successor, pidFile, cliVars, history>>

\* armShutdownTimeout, when a phase of the shutdown hangs.
ShutdownTimesOut(d) ==
  /\ phase[d] \in Stopping /\ Fault
  /\ phase' = [phase EXCEPT ![d] = "gone"]
  /\ UNCHANGED <<successor, pidFile, readyFile, cliVars, history>>

-----------------------------------------------------------------------------
(* The command line: each step ends with a file operation or a sleep.      *)

PidAlive(p) == p # 0 /\ Alive(p)
CliAt(at)   == cli.at = at
CliGoes(at, p) == cli' = [at |-> at, pid |-> p]

\* handleStart: cleanStalePid reads the file ...
Start ==
  /\ CliAt("idle") /\ commands < MaxCommands /\ commands' = commands + 1
  /\ CliGoes(IF PidAlive(pidFile) THEN "check" ELSE "clean", 0)
  /\ UNCHANGED <<phase, successor, pidFile, readyFile, faults, history>>

\* ... and removes it if the process it named is gone.
CleanStale ==
  /\ CliAt("clean") /\ pidFile' = 0 /\ CliGoes("check", 0)
  /\ UNCHANGED <<phase, successor, readyFile, commands, faults, history>>

SpawnDaemon ==
  /\ CliAt("check")
  /\ IF PidAlive(pidFile) THEN CliGoes("idle", 0) /\ UNCHANGED phase
     ELSE \E d \in Pids : /\ IsNext(d) /\ phase' = [phase EXCEPT ![d] = "starting"]
                          /\ CliGoes("health", d)
  /\ UNCHANGED <<successor, pidFile, readyFile, commands, faults, history>>

\* STARTUP_HEALTHCHECK_DELAY_MS later.
HealthCheck ==
  /\ CliAt("health")
  /\ CliGoes(IF Alive(cli.pid) THEN "idle" ELSE "remove", 0)
  /\ UNCHANGED <<phase, successor, pidFile, readyFile, commands, faults, history>>

\* handleStop
Stop ==
  /\ CliAt("idle") /\ commands < MaxCommands /\ commands' = commands + 1
  /\ IF PidAlive(pidFile)
     THEN /\ phase' = Terminated(phase, pidFile)
          /\ harmed' = (harmed \/ phase[pidFile] = "ready")
          /\ CliGoes("wait", pidFile)
     ELSE CliGoes("remove", 0) /\ UNCHANGED <<phase, harmed>>
  /\ UNCHANGED <<successor, pidFile, readyFile, faults, heirs, gaveUp>>

\* The process is gone, or is killed after 5 s.
StopWaits ==
  /\ CliAt("wait") /\ CliGoes("remove", 0)
  /\ phase' = [phase EXCEPT ![cli.pid] = "gone"]
  /\ UNCHANGED <<successor, pidFile, readyFile, commands, faults, history>>

RemovePid ==
  /\ CliAt("remove") /\ CliGoes("idle", 0) /\ pidFile' = 0
  /\ UNCHANGED <<phase, successor, readyFile, commands, faults, history>>

-----------------------------------------------------------------------------

Daemon(d) ==
  \/ WritePid(d) \/ BecomeReady(d) \/ SpawnSuccessor(d) \/ HandOver(d) \/ GiveUp(d)
  \/ Drained(d) \/ CheckOwner(d) \/ UnlinkPid(d) \/ Exit(d)

Cli == Start \/ CleanStale \/ SpawnDaemon \/ HealthCheck \/ Stop \/ StopWaits
       \/ RemovePid

Next == (\E d \in Pids : Daemon(d) \/ Crash(d) \/ ShutdownTimesOut(d)) \/ Cli

Spec == Init /\ [][Next]_vars

\* A shutdown ends, if only by its watchdog, and a poll of the ready file sees
\* its child or reaches the deadline.  A daemon may boot for ever.
FairSpec ==
  Spec /\ \A d \in Pids :
    /\ WF_vars(HandOver(d) \/ GiveUp(d))
    /\ WF_vars(Drained(d) \/ CheckOwner(d) \/ UnlinkPid(d) \/ Exit(d))

-----------------------------------------------------------------------------
InService == {d \in Pids : phase[d] = "ready"}

\* "... so the user is never left with zero daemons": as long as no daemon in
\* service was stopped from outside or crashed, one is in service, through any
\* number of restarts that succeed, fail or come too late.
NeverZero == ~harmed => InService # {}

\* A daemon that took over stays known by the PID file while its predecessor
\* shuts down and it restarts itself: each removes only what it owns.
HeirIsKnown ==
  \A c \in heirs :
    phase[c] = "ready" /\ (\A d \in Pids : d > c => phase[d] = "none")
    /\ faults = 0 /\ commands = 0 /\ ~gaveUp => pidFile = c

\* A restart is given up only if its successor is not ready: the ready file, which
\* "the successor creates ... after full initialization" (daemon/index.ts:1786),
\* is still there to be seen.
ReadyIsSeen ==
  [][\A d \in Pids : gaveUp' /\ ~gaveUp /\ successor[d] # 0 /\ successor'[d] = 0
       /\ faults = 0 /\ commands = 0 => phase[successor[d]] # "ready"]_vars

\* Without the command line, restarts leave a single daemon: the predecessor
\* ends, or the successor that came too late does.
OneRemains ==
  (commands = 0 /\ Cardinality({d \in Pids : Alive(d)}) > 1)
    ~> (commands > 0 \/ faults > 0 \/ Cardinality({d \in Pids : Alive(d)}) <= 1)

\* A daemon in service is the one the PID file names, when nothing is under way:
\* otherwise it would be "running but invisible to `mia stop` / `mia status`"
\* (daemon/index.ts:1782).
Reachable ==
  (commands = 0 /\ faults = 0 /\ \A d \in Pids : phase[d] \in {"none", "gone", "ready"}
                                           /\ successor[d] = 0)
    => \A d \in InService : pidFile = d
=============================================================================
