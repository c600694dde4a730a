------------------------ MODULE DaemonHandoff_proofs ------------------------
(***************************************************************************)
(* Proofs about DaemonHandoff: its type invariant, that the user is never  *)
(* left with zero daemons, and that the PID file names the daemon that     *)
(* took over while its predecessors end.                                   *)
(***************************************************************************)
EXTENDS DaemonHandoff, TLAPS

\* The last child of d that d still waits for is a later process, and nobody
\* else's; a process that does not exist has no child; the ready file names a
\* process that got that far, and a process the command line waits for is ending.
Family ==
  /\ \A d \in Pids : phase[d] = "none" => successor[d] = 0
  /\ \A d \in Pids : successor[d] # 0 => successor[d] > d /\ phase[successor[d]] # "none"
  /\ \A d, e \in Pids : successor[d] # 0 /\ successor[d] = successor[e] => d = e
  /\ readyFile # 0 => phase[readyFile] \notin Starting \cup {"none"}
  /\ cli.at = "wait" => cli.pid \in Pids /\ phase[cli.pid] \in Stopping \cup {"gone"}

\* d is on trial: its predecessor is there and waits for it.
OnTrial(d) == \E e \in Pids : Alive(e) /\ successor[e] = d

\* A daemon in service that nobody may give up.
Settled(d) == phase[d] = "ready" /\ ~OnTrial(d)

\* There is one; and a daemon on trial that is shutting down already, because it
\* handed over itself, left a later one behind.
Succession ==
  /\ \E x \in Pids : Settled(x)
  /\ \A c \in Pids : phase[c] \in Stopping /\ OnTrial(c)
                       => \E x \in Pids : x > c /\ Settled(x)

HInv == TypeOK /\ Family /\ (~harmed => Succession)

-----------------------------------------------------------------------------
LEMMA PidFacts == /\ Pids \subseteq Nat \ {0} /\ 0 \in Pid0 /\ Pids \subseteq Pid0
                  /\ 1 \in Pids /\ \A p \in Pid0 : p # 0 => p \in Pids
  BY HandoffAssumption DEF Pids, Pid0

LEMMA TypeInit == Init => TypeOK
<1> SUFFICES ASSUME Init PROVE TypeOK
  OBVIOUS
<1>1. /\ phase \in [Pids -> {"none", "gone", "ready"} \cup Starting \cup Stopping]
      /\ successor \in [Pids -> Pid0]
  BY PidFacts DEF Init
<1>2. pidFile \in Pid0 /\ readyFile \in Pid0
  BY PidFacts DEF Init
<1>3. cli \in [at : {"idle", "clean", "check", "health", "wait", "remove"}, pid : Pid0]
  BY PidFacts DEF Init
<1>4. commands \in 0..MaxCommands /\ faults \in 0..MaxFaults
  BY HandoffAssumption DEF Init
<1>5. heirs \subseteq Pids /\ gaveUp \in BOOLEAN /\ harmed \in BOOLEAN
  BY DEF Init
<1> QED
  BY <1>1, <1>2, <1>3, <1>4, <1>5 DEF TypeOK

\* SIGTERM leads a process to an orderly shutdown, to its end or nowhere.
LEMMA TerminatedShape ==
  ASSUME TypeOK, NEW c \in Pids, phase' = Terminated(phase, c)
  PROVE  /\ phase' \in [Pids -> {"none", "gone", "ready"} \cup Starting \cup Stopping]
         /\ \A d \in Pids \ {c} : phase'[d] = phase[d]
         /\ phase'[c] = CASE phase[c] \in Starting -> "gone"
                          [] phase[c] = "ready" -> "draining"
                          [] OTHER -> phase[c]
  BY DEF Terminated, TypeOK, Starting, Stopping

LEMMA TypeStep == TypeOK /\ [Next]_vars => TypeOK'
<1> SUFFICES ASSUME TypeOK, [Next]_vars PROVE TypeOK'
  OBVIOUS
<1> USE PidFacts, HandoffAssumption DEF Starting, Stopping
<1>0. faults \in 0..MaxFaults /\ (Fault => faults' \in 0..MaxFaults)
  BY DEF TypeOK, Fault
<1>1. ASSUME NEW d \in Pids, WritePid(d) PROVE TypeOK'
  BY <1>0, <1>1 DEF WritePid, TypeOK, cliVars, history
<1>2. ASSUME NEW d \in Pids, BecomeReady(d) PROVE TypeOK'
  BY <1>0, <1>2 DEF BecomeReady, TypeOK, cliVars, history
<1>3. ASSUME NEW d \in Pids, Crash(d) PROVE TypeOK'
  BY <1>0, <1>3 DEF Crash, TypeOK, cliVars
<1>4. ASSUME NEW d \in Pids, SpawnSuccessor(d) PROVE TypeOK'
  <2>1. PICK c \in Pids :
          /\ faults' \in 0..MaxFaults
          /\ phase' = [phase EXCEPT ![c] = "starting"]
          /\ successor' = [successor EXCEPT ![d] = c]
          /\ UNCHANGED <<pidFile, readyFile, cliVars, history>>
    BY <1>0, <1>4 DEF SpawnSuccessor
  <2> QED BY <2>1 DEF TypeOK, cliVars, history
<1>5. ASSUME NEW d \in Pids, HandOver(d) PROVE TypeOK'
  BY <1>0, <1>5 DEF HandOver, TypeOK, cliVars
<1>6. ASSUME NEW d \in Pids, GiveUp(d) PROVE TypeOK'
  <2>1. successor[d] \in Pids /\ phase' = Terminated(phase, successor[d])
    BY <1>6 DEF GiveUp, TypeOK
  <2> QED BY <1>0, <1>6, <2>1, TerminatedShape DEF GiveUp, TypeOK, cliVars
<1>7. ASSUME NEW d \in Pids, Drained(d) PROVE TypeOK'
  BY <1>0, <1>7 DEF Drained, Advance, TypeOK, cliVars, history
<1>8. ASSUME NEW d \in Pids, CheckOwner(d) PROVE TypeOK'
  BY <1>0, <1>8 DEF CheckOwner, Advance, TypeOK, cliVars, history
<1>9. ASSUME NEW d \in Pids, UnlinkPid(d) PROVE TypeOK'
  BY <1>0, <1>9 DEF UnlinkPid, Advance, TypeOK, cliVars, history
<1>10. ASSUME NEW d \in Pids, Exit(d) PROVE TypeOK'
  BY <1>0, <1>10 DEF Exit, Advance, TypeOK, cliVars, history
<1>11. ASSUME NEW d \in Pids, ShutdownTimesOut(d) PROVE TypeOK'
  BY <1>0, <1>11 DEF ShutdownTimesOut, TypeOK, cliVars, history
<1>12. CASE Start
  BY <1>12 DEF Start, CliGoes, TypeOK, history
<1>13. CASE CleanStale
  BY <1>13 DEF CleanStale, CliGoes, TypeOK, history
<1>14. CASE SpawnDaemon
  BY <1>14 DEF SpawnDaemon, CliGoes, TypeOK, history
<1>15. CASE HealthCheck
  BY <1>15 DEF HealthCheck, CliGoes, TypeOK, history
<1>16. CASE Stop
  <2>1. CASE PidAlive(pidFile)
    <3>1. pidFile \in Pids /\ phase' = Terminated(phase, pidFile)
      BY <1>16, <2>1 DEF Stop, PidAlive, TypeOK
    <3> QED BY <1>16, <2>1, <3>1, TerminatedShape DEF Stop, CliGoes, TypeOK
  <2>2. CASE ~PidAlive(pidFile)
    BY <1>16, <2>2 DEF Stop, CliGoes, TypeOK
  <2> QED BY <2>1, <2>2
<1>17. CASE StopWaits
  BY <1>17 DEF StopWaits, CliGoes, TypeOK, history
<1>18. CASE RemovePid
  BY <1>18 DEF RemovePid, CliGoes, TypeOK, history
<1>19. CASE UNCHANGED vars
  BY <1>19 DEF vars, TypeOK, history
<1> QED
  BY <1>1, <1>2, <1>3, <1>4, <1>5, <1>6, <1>7, <1>8, <1>9, <1>10, <1>11, <1>12,
     <1>13, <1>14, <1>15, <1>16, <1>17, <1>18, <1>19 DEF Next, Daemon, Cli

\* The type invariant of DaemonHandoff.
THEOREM TypeCorrect == Spec => []TypeOK
<1>1. Init => TypeOK BY TypeInit
<1>2. TypeOK /\ [Next]_vars => TypeOK' BY TypeStep
<1> QED BY <1>1, <1>2, PTL DEF Spec

-----------------------------------------------------------------------------
(* Family.                                                                 *)

\* A step that spawns nobody, waits for nobody new and puts nobody new into the
\* ready file keeps the Family if every process only goes forward.
LEMMA FamilyKept ==
  ASSUME TypeOK, Family, TypeOK',
         \A d \in Pids : successor'[d] \in {0, successor[d]},
         readyFile' \in {0, readyFile},
         cli'.at = "wait" => cli' = cli,
         \A d \in Pids :
           /\ phase'[d] = "none" <=> phase[d] = "none"
           /\ phase[d] \notin Starting => phase'[d] \notin Starting
           /\ phase[d] \in Stopping \cup {"gone"} => phase'[d] \in Stopping \cup {"gone"}
  PROVE  Family'
<1> USE PidFacts DEF TypeOK
<1>1. \A d \in Pids : phase'[d] = "none" => successor'[d] = 0
  BY DEF Family
<1>2. ASSUME NEW d \in Pids, successor'[d] # 0
      PROVE  successor'[d] > d /\ phase'[successor'[d]] # "none"
  <2>1. successor'[d] = successor[d] /\ successor[d] \in Pids
    BY <1>2
  <2>2. successor[d] > d /\ phase[successor[d]] # "none"
    BY <2>1, <1>2 DEF Family
  <2> QED BY <2>1, <2>2
<1>3. ASSUME NEW d \in Pids, NEW e \in Pids, successor'[d] # 0,
             successor'[d] = successor'[e]
      PROVE  d = e
  <2>1. successor[d] # 0 /\ successor[d] = successor[e]
    BY <1>3
  <2>2. \A f, g \in Pids : successor[f] # 0 /\ successor[f] = successor[g] => f = g
    BY DEF Family
  <2> QED BY <2>1, <2>2
<1>4. readyFile' # 0 => phase'[readyFile'] \notin Starting \cup {"none"}
  BY DEF Family
<1>5. cli'.at = "wait" => cli'.pid \in Pids /\ phase'[cli'.pid] \in Stopping \cup {"gone"}
  BY DEF Family
<1> QED BY <1>1, <1>2, <1>3, <1>4, <1>5 DEF Family, Pids

\* A new process is later than every process there was, and has no child.
LEMMA Newcomer ==
  ASSUME TypeOK, Family, NEW c \in Pids, IsNext(c), phase' = [phase EXCEPT ![c] = "starting"]
  PROVE  /\ phase[c] = "none" /\ phase'[c] = "starting" /\ successor[c] = 0
         /\ \A d \in Pids \ {c} : phase'[d] = phase[d]
         /\ \A d \in Pids : phase[d] # "none" => d < c
         /\ \A d \in Pids : successor[d] # c
<1>1. c >= c /\ c \in Int /\ \A d \in Pids : d \in Int
  BY PidFacts
<1>2. phase[c] = "none"
  BY <1>1 DEF IsNext
<1>3. phase'[c] = "starting" /\ \A d \in Pids \ {c} : phase'[d] = phase[d]
  BY DEF TypeOK
<1>4. \A d \in Pids : phase[d] # "none" => d < c
  BY <1>1 DEF IsNext
<1>5. \A d \in Pids : successor[d] # c
  BY <1>2, PidFacts DEF Family
<1> QED BY <1>2, <1>3, <1>4, <1>5 DEF Family

LEMMA SpawnKeepsFamily ==
  ASSUME TypeOK, Family, NEW d \in Pids, SpawnSuccessor(d)
  PROVE  Family'
<1>1. PICK c \in Pids : /\ phase[d] = "ready" /\ successor[d] = 0 /\ IsNext(c)
                        /\ phase' = [phase EXCEPT ![c] = "starting"]
                        /\ successor' = [successor EXCEPT ![d] = c]
                        /\ UNCHANGED <<pidFile, readyFile, cliVars>>
  BY DEF SpawnSuccessor
<1>2. /\ phase[c] = "none" /\ phase'[c] = "starting" /\ successor[c] = 0
      /\ \A e \in Pids \ {c} : phase'[e] = phase[e]
      /\ \A e \in Pids : phase[e] # "none" => e < c
      /\ \A e \in Pids : successor[e] # c
  BY <1>1, Newcomer
<1>3. successor'[d] = c /\ \A e \in Pids \ {d} : successor'[e] = successor[e]
  BY <1>1 DEF TypeOK
<1>4. d < c /\ c > d /\ d \in Nat /\ c \in Nat
  BY <1>1, <1>2, PidFacts
<1> USE PidFacts DEF TypeOK
<1>5. \A e \in Pids : phase'[e] = "none" => successor'[e] = 0
  BY <1>1, <1>2, <1>3 DEF Family
<1>6. \A e \in Pids : successor'[e] # 0 => successor'[e] > e
                                           /\ phase'[successor'[e]] # "none"
  BY <1>1, <1>2, <1>3, <1>4 DEF Family
<1>7. \A e, g \in Pids : successor'[e] # 0 /\ successor'[e] = successor'[g] => e = g
  BY <1>1, <1>2, <1>3 DEF Family
<1>8. readyFile' # 0 => phase'[readyFile'] \notin Starting \cup {"none"}
  BY <1>1, <1>2 DEF Family
<1>9. cli'.at = "wait" => cli'.pid \in Pids /\ phase'[cli'.pid] \in Stopping \cup {"gone"}
  BY <1>1, <1>2 DEF Family, cliVars, Stopping
<1> QED BY <1>5, <1>6, <1>7, <1>8, <1>9 DEF Family, Pids

LEMMA FamilyStep == TypeOK /\ Family /\ [Next]_vars => Family'
<1> SUFFICES ASSUME TypeOK, Family, TypeOK', [Next]_vars PROVE Family'
  BY TypeStep
<1> USE DEF Starting, Stopping
<1>1. ASSUME NEW d \in Pids, WritePid(d) PROVE Family'
  BY <1>1, FamilyKept DEF WritePid, TypeOK, cliVars
<1>2. ASSUME NEW d \in Pids, BecomeReady(d) PROVE Family'
  <2>1. /\ phase[d] = "booting" /\ phase'[d] = "ready"
        /\ \A e \in Pids \ {d} : phase'[e] = phase[e]
        /\ UNCHANGED <<successor, cli>> /\ readyFile' \in {d, readyFile}
    BY <1>2 DEF BecomeReady, TypeOK, cliVars
  <2>2. CASE readyFile' = readyFile
    BY <2>1, <2>2, FamilyKept
  <2>3. CASE readyFile' = d
    <3>1. \A e \in Pids : successor[e] # 0 => successor[e] \in Pids
      BY PidFacts DEF TypeOK
    <3>2. /\ \A e \in Pids : phase'[e] = "none" => successor'[e] = 0
          /\ \A e \in Pids : successor'[e] # 0 => successor'[e] > e
                                                  /\ phase'[successor'[e]] # "none"
          /\ \A e, g \in Pids : successor'[e] # 0 /\ successor'[e] = successor'[g] => e = g
      BY <2>1, <3>1 DEF Family
    <3>3. readyFile' # 0 => phase'[readyFile'] \notin Starting \cup {"none"}
      BY <2>1, <2>3
    <3>4. cli'.at = "wait" => cli'.pid \in Pids
                              /\ phase'[cli'.pid] \in Stopping \cup {"gone"}
      BY <2>1 DEF Family
    <3> QED BY <3>2, <3>3, <3>4 DEF Family, Pids
  <2> QED BY <2>1, <2>2, <2>3
<1>3. ASSUME NEW d \in Pids, Crash(d) PROVE Family'
  BY <1>3, FamilyKept DEF Crash, Alive, TypeOK, cliVars
<1>4. ASSUME NEW d \in Pids, SpawnSuccessor(d) PROVE Family'
  BY <1>4, SpawnKeepsFamily
<1>5. ASSUME NEW d \in Pids, HandOver(d) PROVE Family'
  BY <1>5, FamilyKept DEF HandOver, TypeOK, cliVars
<1>6. ASSUME NEW d \in Pids, GiveUp(d) PROVE Family'
  <2>1. successor[d] \in Pids /\ phase' = Terminated(phase, successor[d])
    BY <1>6, PidFacts DEF GiveUp, TypeOK
  <2>2. /\ \A e \in Pids \ {successor[d]} : phase'[e] = phase[e]
        /\ LET c == successor[d] IN
             phase'[c] = CASE phase[c] \in Starting -> "gone"
                           [] phase[c] = "ready" -> "draining"
                           [] OTHER -> phase[c]
    BY <2>1, TerminatedShape
  <2> QED BY <1>6, <2>2, FamilyKept DEF GiveUp, TypeOK, cliVars
<1>7. ASSUME NEW d \in Pids, Drained(d) \/ CheckOwner(d) \/ UnlinkPid(d) \/ Exit(d)
                               \/ ShutdownTimesOut(d)
      PROVE  Family'
  <2>1. /\ phase[d] \in Stopping /\ phase'[d] \in Stopping \cup {"gone"}
        /\ \A e \in Pids \ {d} : phase'[e] = phase[e]
    BY <1>7 DEF Drained, CheckOwner, UnlinkPid, Exit, ShutdownTimesOut, Advance, TypeOK
  <2>2. UNCHANGED <<successor, cli>> /\ readyFile' \in {0, readyFile}
    BY <1>7 DEF Drained, CheckOwner, UnlinkPid, Exit, ShutdownTimesOut, cliVars
  <2> QED BY <2>1, <2>2, FamilyKept
<1>8. CASE Start
  BY <1>8, FamilyKept DEF Start, CliGoes
<1>9. CASE CleanStale
  BY <1>9, FamilyKept DEF CleanStale, CliGoes
<1>10. CASE SpawnDaemon
  <2>1. CASE PidAlive(pidFile)
    BY <1>10, <2>1, FamilyKept DEF SpawnDaemon, CliGoes
  <2>2. CASE ~PidAlive(pidFile)
    <3>1. PICK c \in Pids : /\ IsNext(c) /\ phase' = [phase EXCEPT ![c] = "starting"]
                            /\ cli'.at = "health" /\ UNCHANGED <<successor, readyFile>>
      BY <1>10, <2>2 DEF SpawnDaemon, CliGoes
    <3>2. /\ phase[c] = "none" /\ phase'[c] = "starting" /\ successor[c] = 0
          /\ \A e \in Pids \ {c} : phase'[e] = phase[e]
          /\ \A e \in Pids : successor[e] # c
      BY <3>1, Newcomer
    <3>3. \A e \in Pids : phase'[e] = "none" => successor'[e] = 0
      BY <3>1, <3>2 DEF Family
    <3>4. \A e \in Pids : successor'[e] # 0 => successor'[e] > e
                                               /\ phase'[successor'[e]] # "none"
      BY <3>1, <3>2, PidFacts DEF Family, TypeOK
    <3>5. \A e, g \in Pids : successor'[e] # 0 /\ successor'[e] = successor'[g] => e = g
      BY <3>1 DEF Family
    <3>6. readyFile' # 0 => phase'[readyFile'] \notin Starting \cup {"none"}
      BY <3>1, <3>2, PidFacts DEF Family, TypeOK
    <3> QED BY <3>1, <3>3, <3>4, <3>5, <3>6 DEF Family, Pids
  <2> QED BY <2>1, <2>2
<1>11. CASE HealthCheck
  BY <1>11, FamilyKept DEF HealthCheck, CliGoes
<1>12. CASE Stop
  <2>1. CASE ~PidAlive(pidFile)
    BY <1>12, <2>1, FamilyKept DEF Stop, CliGoes
  <2>2. CASE PidAlive(pidFile)
    <3>1. pidFile \in Pids /\ phase' = Terminated(phase, pidFile) /\ Alive(pidFile)
      BY <1>12, <2>2, PidFacts DEF Stop, PidAlive, TypeOK
    <3>2. /\ \A e \in Pids \ {pidFile} : phase'[e] = phase[e]
          /\ phase'[pidFile] \in Stopping \cup {"gone"} /\ phase[pidFile] # "none"
      BY <3>1, TerminatedShape DEF Alive, TypeOK
    <3>3. UNCHANGED <<successor, readyFile>> /\ cli'.at = "wait" /\ cli'.pid = pidFile
      BY <1>12, <2>2 DEF Stop, CliGoes
    <3>4. \A e \in Pids : phase'[e] = "none" => successor'[e] = 0
      BY <3>2, <3>3 DEF Family
    <3>5. \A e \in Pids : successor'[e] # 0 => successor'[e] > e
                                               /\ phase'[successor'[e]] # "none"
      BY <3>2, <3>3, PidFacts DEF Family, TypeOK
    <3>6. \A e, g \in Pids : successor'[e] # 0 /\ successor'[e] = successor'[g] => e = g
      BY <3>3 DEF Family
    <3>7. readyFile' # 0 => phase'[readyFile'] \notin Starting \cup {"none"}
      BY <3>2, <3>3, PidFacts DEF Family, TypeOK
    <3>8. cli'.pid \in Pids /\ phase'[cli'.pid] \in Stopping \cup {"gone"}
      BY <3>1, <3>2, <3>3
    <3> QED BY <3>4, <3>5, <3>6, <3>7, <3>8 DEF Family, Pids
  <2> QED BY <2>1, <2>2
<1>13. CASE StopWaits
  <2>1. cli.pid \in Pids /\ phase[cli.pid] \in Stopping \cup {"gone"}
    BY <1>13 DEF StopWaits, CliAt, Family
  <2>2. phase'[cli.pid] = "gone" /\ \A e \in Pids \ {cli.pid} : phase'[e] = phase[e]
    BY <1>13, <2>1 DEF StopWaits, TypeOK
  <2> QED BY <1>13, <2>1, <2>2, FamilyKept DEF StopWaits, CliGoes
<1>14. CASE RemovePid
  BY <1>14, FamilyKept DEF RemovePid, CliGoes
<1>15. CASE UNCHANGED vars
  BY <1>15, FamilyKept DEF vars, cliVars
<1> QED
  BY <1>1, <1>2, <1>3, <1>4, <1>5, <1>6, <1>7, <1>8, <1>9, <1>10, <1>11, <1>12,
     <1>13, <1>14, <1>15 DEF Next, Daemon, Cli

-----------------------------------------------------------------------------
(* Succession.                                                             *)

\* A step keeps the Succession if it takes no settled daemon out of service, puts
\* none on trial, and lets no daemon on trial begin to shut down.
LEMMA SuccessionKept ==
  ASSUME Succession,
         \A x \in Pids : Settled(x) => phase'[x] = "ready" /\ ~OnTrial(x)',
         \A c \in Pids : phase'[c] \in Stopping /\ OnTrial(c)'
                           => phase[c] \in Stopping /\ OnTrial(c)
  PROVE  Succession'
  BY DEF Succession, Settled, Pids

\* While nobody's child changes and the dead stay dead, nobody new is on trial.
LEMMA TrialKept ==
  ASSUME NEW c \in Pids, OnTrial(c)',
         \A e \in Pids : successor'[e] = c => successor[e] = c,
         \A e \in Pids : Alive(e)' /\ successor'[e] = c => Alive(e)
  PROVE  OnTrial(c)
  BY DEF OnTrial, Pids

LEMMA HandOverKeeps ==
  ASSUME TypeOK, Family, Succession, NEW d \in Pids, HandOver(d)
  PROVE  Succession'
<1> USE DEF Starting, Stopping
<1>c. PICK c : c = successor[d]
  OBVIOUS
<1>1. /\ c \in Pids /\ c # 0 /\ Alive(d) /\ Alive(c) /\ readyFile = c
      /\ c > d /\ phase[c] \in {"ready"} \cup Stopping
  BY <1>c, PidFacts DEF HandOver, Family, TypeOK, Alive
<1>2. /\ successor'[d] = 0 /\ \A e \in Pids \ {d} : successor'[e] = successor[e]
      /\ phase'[d] = IF phase[d] = "ready" THEN "draining" ELSE phase[d]
      /\ \A e \in Pids \ {d} : phase'[e] = phase[e]
      /\ \A e \in Pids : Alive(e)' <=> Alive(e)
  BY <1>1 DEF HandOver, TypeOK, Alive
<1>3. \A e \in Pids : OnTrial(e)' => OnTrial(e)
  BY <1>2, PidFacts DEF OnTrial, Pids
<1>4. ~OnTrial(c)' /\ OnTrial(c)
  BY <1>c, <1>1, <1>2 DEF OnTrial, Family, Pids
<1>5. d # c /\ d \in Nat /\ c \in Nat
  BY <1>1, PidFacts
<1>6. \A x \in Pids \ {d} : Settled(x) => Settled(x)'
  BY <1>2, <1>3 DEF Settled
\* The successor itself, or the one it left behind.
<1>7. \E x \in Pids : x > d /\ Settled(x)'
  <2>1. CASE phase[c] = "ready"
    BY <1>1, <1>2, <1>4, <1>5, <2>1 DEF Settled
  <2>2. CASE phase[c] \in Stopping
    <3>1. PICK x \in Pids : x > c /\ Settled(x)
      BY <1>1, <1>4, <2>2 DEF Succession
    <3>2. x > d /\ x # d
      BY <1>1, <1>5, <3>1, PidFacts
    <3> QED BY <1>6, <3>1, <3>2
  <2> QED BY <1>1, <2>1, <2>2
<1>8. ASSUME NEW g \in Pids, phase'[g] \in Stopping, OnTrial(g)'
      PROVE  \E x \in Pids : x > g /\ Settled(x)'
  <2>1. CASE g = d
    BY <1>7, <2>1
  <2>2. CASE g # d
    <3>1. PICK x \in Pids : x > g /\ Settled(x)
      BY <1>2, <1>3, <1>8, <2>2 DEF Succession
    <3>2. CASE x # d
      BY <1>6, <3>1, <3>2
    <3>3. CASE x = d
      <4>1. PICK y \in Pids : y > d /\ Settled(y)'
        BY <1>7
      <4> QED BY <3>1, <3>3, <4>1, PidFacts
    <3> QED BY <3>2, <3>3
  <2> QED BY <2>1, <2>2
<1> QED BY <1>7, <1>8 DEF Succession, Pids

LEMMA SuccessionStep ==
  ASSUME TypeOK, Family, Family', ~harmed => Succession, [Next]_vars, ~harmed'
  PROVE  Succession'
<1> USE DEF Starting, Stopping
<1>0. ~harmed /\ Succession
  <2>1. harmed => harmed'
    BY DEF Next, Daemon, Cli, WritePid, BecomeReady, SpawnSuccessor, HandOver, GiveUp,
           Drained, CheckOwner, UnlinkPid, Exit, Crash, ShutdownTimesOut, Start,
           CleanStale, SpawnDaemon, HealthCheck, Stop, StopWaits, RemovePid, vars, history
  <2> QED BY <2>1
<1>1. ASSUME NEW d \in Pids, WritePid(d) \/ BecomeReady(d) PROVE Succession'
  <2>1. /\ phase[d] \in Starting /\ phase'[d] \in {"booting", "ready"}
        /\ \A e \in Pids \ {d} : phase'[e] = phase[e]
        /\ successor' = successor
    BY <1>1 DEF WritePid, BecomeReady, TypeOK
  <2>2. \A e \in Pids : OnTrial(e)' <=> OnTrial(e)
    BY <2>1 DEF OnTrial, Alive, Pids
  <2> QED BY <1>0, <2>1, <2>2, SuccessionKept DEF Settled
<1>2. ASSUME NEW d \in Pids, Crash(d) PROVE Succession'
  <2>1. /\ phase[d] # "ready" /\ phase'[d] = "gone" /\ successor' = successor
        /\ \A e \in Pids \ {d} : phase'[e] = phase[e]
    BY <1>2 DEF Crash, TypeOK
  <2>2. \A e \in Pids : OnTrial(e)' => OnTrial(e)
    BY <2>1 DEF OnTrial, Alive, Pids
  <2> QED BY <1>0, <2>1, <2>2, SuccessionKept DEF Settled
<1>3. ASSUME NEW d \in Pids, SpawnSuccessor(d) PROVE Succession'
  <2>1. PICK c \in Pids : /\ IsNext(c) /\ phase' = [phase EXCEPT ![c] = "starting"]
                          /\ successor' = [successor EXCEPT ![d] = c]
    BY <1>3 DEF SpawnSuccessor
  <2>2. /\ phase[c] = "none" /\ phase'[c] = "starting" /\ successor[c] = 0
        /\ \A e \in Pids \ {c} : phase'[e] = phase[e]
    BY <2>1, Newcomer
  <2>3. successor'[d] = c /\ \A e \in Pids \ {d} : successor'[e] = successor[e]
    BY <2>1 DEF TypeOK
  <2>4. \A e \in Pids \ {c} : OnTrial(e)' => OnTrial(e)
    BY <2>2, <2>3, PidFacts DEF OnTrial, Alive, Pids
  <2> QED BY <1>0, <2>2, <2>4, SuccessionKept DEF Settled
<1>4. ASSUME NEW d \in Pids, HandOver(d) PROVE Succession'
  BY <1>0, <1>4, HandOverKeeps
<1>5. ASSUME NEW d \in Pids, GiveUp(d) PROVE Succession'
  <2>c. PICK c : c = successor[d]
    OBVIOUS
  <2>1. c \in Pids /\ c # 0 /\ Alive(d) /\ phase' = Terminated(phase, c)
    BY <1>5, <2>c, PidFacts DEF GiveUp, TypeOK
  <2>2. \A e \in Pids \ {c} : phase'[e] = phase[e]
    BY <2>1, TerminatedShape
  <2>3. /\ successor'[d] = 0 /\ \A e \in Pids \ {d} : successor'[e] = successor[e]
    BY <1>5 DEF GiveUp, TypeOK
  <2>4. \A e \in Pids : Alive(e)' => Alive(e)
    BY <2>1, <2>2, TerminatedShape DEF Alive
  <2>5. \A e \in Pids : OnTrial(e)' => OnTrial(e)
    BY <2>3, <2>4, PidFacts DEF OnTrial, Pids
  <2>6. OnTrial(c) /\ ~OnTrial(c)'
    BY <2>c, <2>1, <2>3 DEF OnTrial, Family, Pids
  <2> QED BY <1>0, <2>2, <2>5, <2>6, SuccessionKept DEF Settled
<1>6. ASSUME NEW d \in Pids, Drained(d) \/ CheckOwner(d) \/ UnlinkPid(d) \/ Exit(d)
                               \/ ShutdownTimesOut(d)
      PROVE  Succession'
  <2>1. /\ phase[d] \in Stopping /\ phase'[d] \in Stopping \cup {"gone"}
        /\ \A e \in Pids \ {d} : phase'[e] = phase[e]
        /\ successor' = successor
    BY <1>6 DEF Drained, CheckOwner, UnlinkPid, Exit, ShutdownTimesOut, Advance, TypeOK
  <2>2. \A e \in Pids : OnTrial(e)' => OnTrial(e)
    BY <2>1 DEF OnTrial, Alive, Pids
  <2> QED BY <1>0, <2>1, <2>2, SuccessionKept DEF Settled
<1>7. ASSUME UNCHANGED <<phase, successor>> PROVE Succession'
  BY <1>0, <1>7 DEF Succession, Settled, OnTrial, Alive, Pids
<1>8. CASE SpawnDaemon /\ ~PidAlive(pidFile)
  <2>1. PICK c \in Pids : /\ IsNext(c) /\ phase' = [phase EXCEPT ![c] = "starting"]
                          /\ successor' = successor
    BY <1>8 DEF SpawnDaemon
  <2>2. /\ phase[c] = "none" /\ phase'[c] = "starting" /\ successor[c] = 0
        /\ \A e \in Pids \ {c} : phase'[e] = phase[e]
    BY <2>1, Newcomer
  <2>3. \A e \in Pids \ {c} : OnTrial(e)' => OnTrial(e)
    BY <2>1, <2>2, PidFacts DEF OnTrial, Alive, Pids
  <2> QED BY <1>0, <2>2, <2>3, SuccessionKept DEF Settled
<1>9. CASE Stop /\ PidAlive(pidFile)
  <2>1. /\ pidFile \in Pids /\ phase' = Terminated(phase, pidFile)
        /\ phase[pidFile] # "ready" /\ successor' = successor
    BY <1>9, PidFacts DEF Stop, PidAlive, TypeOK
  <2>2. /\ \A e \in Pids \ {pidFile} : phase'[e] = phase[e]
        /\ phase'[pidFile] = phase[pidFile] \/ phase'[pidFile] = "gone"
    BY <2>1, TerminatedShape DEF TypeOK
  <2>3. \A e \in Pids : OnTrial(e)' => OnTrial(e)
    BY <2>1, <2>2 DEF OnTrial, Alive, Pids
  <2> QED BY <1>0, <2>1, <2>2, <2>3, SuccessionKept DEF Settled
<1>10. CASE StopWaits
  <2>1. cli.pid \in Pids /\ phase[cli.pid] \in Stopping \cup {"gone"}
    BY <1>10 DEF StopWaits, CliAt, Family
  <2>2. /\ phase'[cli.pid] = "gone" /\ successor' = successor
        /\ \A e \in Pids \ {cli.pid} : phase'[e] = phase[e]
    BY <1>10, <2>1 DEF StopWaits, TypeOK
  <2>3. \A e \in Pids : OnTrial(e)' => OnTrial(e)
    BY <2>2 DEF OnTrial, Alive, Pids
  <2> QED BY <1>0, <2>1, <2>2, <2>3, SuccessionKept DEF Settled
<1>11. CASE Cli
  <2>1. CASE Start \/ CleanStale \/ HealthCheck \/ RemovePid
    BY <1>7, <2>1 DEF Start, CleanStale, HealthCheck, RemovePid
  <2>2. CASE SpawnDaemon /\ PidAlive(pidFile)
    BY <1>7, <2>2 DEF SpawnDaemon
  <2>3. CASE Stop /\ ~PidAlive(pidFile)
    BY <1>7, <2>3 DEF Stop
  <2> QED BY <1>8, <1>9, <1>10, <1>11, <2>1, <2>2, <2>3 DEF Cli
<1>12. CASE UNCHANGED vars
  BY <1>7, <1>12 DEF vars
<1> QED
  BY <1>1, <1>2, <1>3, <1>4, <1>5, <1>6, <1>11, <1>12 DEF Next, Daemon

LEMMA HInvInit == Init => HInv
<1> SUFFICES ASSUME Init PROVE Family /\ Succession
  BY TypeInit DEF HInv
<1>1. /\ \A d \in Pids : phase[d] = IF d = 1 THEN "ready" ELSE "none"
      /\ \A d \in Pids : successor[d] = 0
      /\ readyFile = 1 /\ cli.at = "idle" /\ 1 \in Pids
  BY PidFacts DEF Init
<1>2. Family
  BY <1>1 DEF Family, Starting
<1>3. \A d \in Pids : ~OnTrial(d)
  BY <1>1, PidFacts DEF OnTrial
<1> QED BY <1>1, <1>2, <1>3 DEF Succession, Settled, Stopping

LEMMA HInvCorrect == Spec => []HInv
<1>1. Init => HInv BY HInvInit
<1>2. HInv /\ [Next]_vars => HInv'
  <2> SUFFICES ASSUME TypeOK, Family, ~harmed => Succession, [Next]_vars PROVE HInv'
    BY DEF HInv
  <2>1. TypeOK' BY TypeStep
  <2>2. Family' BY FamilyStep
  <2>3. ~harmed' => Succession' BY <2>2, SuccessionStep
  <2> QED BY <2>1, <2>2, <2>3 DEF HInv
<1> QED BY <1>1, <1>2, PTL DEF Spec

\* As long as no daemon in service was stopped from outside or crashed, one is in
\* service: no sequence of restarts leaves the user with zero daemons.
THEOREM NeverZeroCorrect == Spec => []NeverZero
<1>1. HInv => NeverZero BY DEF HInv, Succession, Settled, NeverZero, InService
<1> QED BY <1>1, HInvCorrect, PTL

-----------------------------------------------------------------------------
(* The heir is known.                                                      *)

\* Nobody intervened and nothing failed: restarts only, each of them taken over.
Undisturbed == faults = 0 /\ commands = 0 /\ ~gaveUp

Working(d) == phase[d] \in {"ready"} \cup Starting
Last(d)    == \A e \in Pids : e > d => phase[e] = "none"

\* Then the daemons form one line: what is not yet ending is the last process and
\* perhaps the one it is to replace, which alone has a successor.  And every process
\* that wrote the PID file finds a later PID in it when it checks whether to unlink it.
Line ==
  /\ cli.at = "idle"
  /\ \A d \in Pids : successor[d] # 0 => phase[d] = "ready" /\ Last(successor[d])
  /\ \A d, e \in Pids : d < e /\ Working(d) /\ phase[e] # "none" => successor[d] = e
  /\ \A d \in Pids : phase[d] \in Starting =>
       \E e \in Pids : phase[e] = "ready" /\ successor[e] = d
  /\ \A d \in Pids : phase[d] \in Stopping \cup {"gone"} => pidFile > d
  /\ \A d \in Pids : phase[d] \in {"booting", "ready"} => pidFile >= d
  /\ \A d \in Pids : phase[d] # "unlinking"
  /\ pidFile \in Pids /\ phase[pidFile] \notin {"none", "starting"}

LineInv == TypeOK /\ Family /\ (Undisturbed => Line)

LEMMA UndisturbedBefore ==
  ASSUME TypeOK, [Next]_vars, Undisturbed'
  PROVE  Undisturbed /\ UNCHANGED <<faults, commands>>
<1> USE HandoffAssumption DEF TypeOK, Undisturbed, Fault
<1>1. ASSUME NEW d \in Pids, Daemon(d)
      PROVE  Undisturbed /\ UNCHANGED <<faults, commands>>
  BY <1>1 DEF Daemon, WritePid, BecomeReady, SpawnSuccessor, HandOver, GiveUp, Drained,
              CheckOwner, UnlinkPid, Exit, cliVars, history
<1>2. ASSUME NEW d \in Pids, Crash(d) \/ ShutdownTimesOut(d) PROVE FALSE
  BY <1>2 DEF Crash, ShutdownTimesOut
<1>3. ASSUME Cli PROVE Undisturbed /\ UNCHANGED <<faults, commands>>
  BY <1>3 DEF Cli, Start, CleanStale, SpawnDaemon, HealthCheck, Stop, StopWaits,
              RemovePid, history
<1>4. CASE UNCHANGED vars
  BY <1>4 DEF vars, history
<1> QED BY <1>1, <1>2, <1>3, <1>4 DEF Next

LEMMA LineStep ==
  ASSUME TypeOK, Family, Undisturbed, Line, [Next]_vars, Undisturbed'
  PROVE  Line'
<1> USE DEF Starting, Stopping
<1>0. UNCHANGED <<faults, commands>> /\ ~Fault
  BY UndisturbedBefore, HandoffAssumption DEF Fault, TypeOK
<1>t. /\ \A d \in Pids : d \in Int /\ d # 0 /\ successor[d] \in Pid0
      /\ \A d \in Pids : successor[d] # 0 => successor[d] \in Pids
      /\ pidFile \in Pids
  <2>1. \A d \in Pids : d \in Int /\ d # 0 /\ successor[d] \in Pid0
    BY PidFacts DEF TypeOK
  <2>2. pidFile \in Pids
    BY DEF Line
  <2> QED BY <2>1, <2>2, PidFacts
<1>1. ASSUME NEW d \in Pids, WritePid(d) PROVE Line'
  <2>1. /\ phase[d] = "starting" /\ phase'[d] = "booting" /\ pidFile' = d
        /\ \A e \in Pids \ {d} : phase'[e] = phase[e]
        /\ UNCHANGED <<successor, cli>>
    BY <1>0, <1>1 DEF WritePid, TypeOK, cliVars
  <2>2. PICK p \in Pids : phase[p] = "ready" /\ successor[p] = d
    BY <2>1 DEF Line
  <2>3. Last(d) /\ \A e \in Pids : phase[e] # "none" => e <= d
    BY <1>t, <2>2 DEF Line, Last
  <2>4. \A e \in Pids : phase'[e] \in Stopping \cup {"gone"} => pidFile' > e
    <3> SUFFICES ASSUME NEW e \in Pids, phase'[e] \in Stopping \cup {"gone"}
                 PROVE  d > e
      BY <2>1
    <3> QED BY <1>t, <2>1, <2>3
  <2>5. \A e \in Pids : phase'[e] \in {"booting", "ready"} => pidFile' >= e
    BY <1>t, <2>1, <2>3
  <2>6. \A e \in Pids : phase'[e] = "none" <=> phase[e] = "none"
    BY <2>1
  <2>7. \A e \in Pids : /\ Working(e)' <=> Working(e)
                        /\ phase'[e] = "ready" <=> phase[e] = "ready"
                        /\ phase'[e] \in Starting <=> phase[e] \in Starting
    BY <2>1 DEF Working
  <2>8. \A e \in Pids : successor'[e] # 0 => phase'[e] = "ready" /\ Last(successor[e])'
    BY <1>t, <2>1, <2>6, <2>7 DEF Line, Last
  <2>9. \A c, e \in Pids : c < e /\ Working(c)' /\ phase'[e] # "none" => successor'[c] = e
    BY <2>1, <2>6, <2>7 DEF Line
  <2>10. \A c \in Pids : phase'[c] \in Starting =>
           \E e \in Pids : phase'[e] = "ready" /\ successor'[e] = c
    BY <2>1, <2>7 DEF Line
  <2> QED BY <2>1, <2>4, <2>5, <2>8, <2>9, <2>10 DEF Line
<1>2. ASSUME NEW d \in Pids, BecomeReady(d) PROVE Line'
  <2>1. /\ phase[d] = "booting" /\ phase'[d] = "ready"
        /\ \A e \in Pids \ {d} : phase'[e] = phase[e]
        /\ UNCHANGED <<successor, cli, pidFile>>
    BY <1>0, <1>2 DEF BecomeReady, TypeOK, cliVars
  <2>2. \A e \in Pids : /\ Working(e)' <=> Working(e)
                        /\ phase'[e] = "none" <=> phase[e] = "none"
                        /\ phase[e] = "ready" => phase'[e] = "ready"
    BY <2>1 DEF Working
  <2>3. \A e \in Pids : successor'[e] # 0 => phase'[e] = "ready" /\ Last(successor[e])'
    BY <1>t, <2>1, <2>2 DEF Line, Last
  <2>4. \A c \in Pids : phase'[c] \in Starting =>
          \E e \in Pids : phase'[e] = "ready" /\ successor'[e] = c
    BY <2>1, <2>2 DEF Line
  <2> QED BY <1>t, <2>1, <2>2, <2>3, <2>4 DEF Line
<1>3. ASSUME NEW d \in Pids, SpawnSuccessor(d) PROVE Line'
  <2>1. PICK c \in Pids : /\ phase[d] = "ready" /\ successor[d] = 0 /\ IsNext(c)
                          /\ ~OnTrial(d)
                          /\ phase' = [phase EXCEPT ![c] = "starting"]
                          /\ successor' = [successor EXCEPT ![d] = c]
                          /\ UNCHANGED <<pidFile, cli>>
    BY <1>0, <1>3 DEF SpawnSuccessor, OnTrial, cliVars
  <2>2. /\ phase[c] = "none" /\ phase'[c] = "starting" /\ successor[c] = 0
        /\ \A e \in Pids \ {c} : phase'[e] = phase[e]
        /\ \A e \in Pids : phase[e] # "none" => e < c
        /\ \A e \in Pids : successor[e] # c
    BY <2>1, Newcomer
  <2>3. successor'[d] = c /\ \A e \in Pids \ {d} : successor'[e] = successor[e]
    BY <2>1 DEF TypeOK
  <2>4. Last(c)'
    BY <1>t, <2>1, <2>2 DEF Last, IsNext, Pids
  \* d works alone: it has no child, and nobody before it waits for it.
  <2>5. \A e \in Pids : Working(e) => e = d
    <3> SUFFICES ASSUME NEW e \in Pids, Working(e), e # d PROVE FALSE
      OBVIOUS
    <3>1. CASE d < e
      BY <1>t, <2>1, <3>1 DEF Line, Working
    <3>2. CASE e < d
      <4>1. successor[e] = d
        BY <2>1, <3>2 DEF Line
      <4> QED BY <1>t, <2>1, <4>1 DEF Line, OnTrial, Alive
    <3> QED BY <1>t, <3>1, <3>2
  <2>6. \A e \in Pids : successor'[e] # 0 => e = d
    BY <2>3, <2>5 DEF Line, Working
  <2>7. \A e \in Pids : successor'[e] # 0 => phase'[e] = "ready" /\ Last(successor[e])'
    BY <2>1, <2>2, <2>3, <2>4, <2>6
  <2>8. \A b, e \in Pids : b < e /\ Working(b)' /\ phase'[e] # "none" => successor'[b] = e
    <3> SUFFICES ASSUME NEW b \in Pids, NEW e \in Pids, b < e, Working(b)',
                        phase'[e] # "none"
                 PROVE  successor'[b] = e
      OBVIOUS
    <3>1. CASE b = c
      BY <1>t, <2>2, <3>1
    <3>2. CASE b # c
      <4>1. b = d
        BY <2>2, <2>5, <3>2 DEF Working
      <4>2. CASE e = c
        BY <2>3, <4>1, <4>2
      <4>3. CASE e # c
        BY <1>t, <2>1, <2>2, <4>1, <4>3 DEF Line, Working
      <4> QED BY <4>2, <4>3
    <3> QED BY <3>1, <3>2
  <2>9. \A b \in Pids : phase'[b] \in Starting =>
          \E e \in Pids : phase'[e] = "ready" /\ successor'[e] = b
    <3> SUFFICES ASSUME NEW b \in Pids, phase'[b] \in Starting
                 PROVE  \E e \in Pids : phase'[e] = "ready" /\ successor'[e] = b
      OBVIOUS
    <3>1. b = c
      BY <2>1, <2>2, <2>5 DEF Working
    <3> QED BY <2>1, <2>2, <2>3, <3>1
  <2> QED BY <1>t, <2>1, <2>2, <2>7, <2>8, <2>9 DEF Line
<1>4. ASSUME NEW d \in Pids, HandOver(d) PROVE Line'
  <2>c. PICK c : c = successor[d]
    OBVIOUS
  <2>1. /\ c \in Pids /\ c # 0 /\ phase[d] = "ready" /\ Last(c) /\ readyFile = c
        /\ c > d /\ phase[c] \notin {"none", "gone", "starting", "booting"}
    BY <1>4, <1>t, <2>c DEF HandOver, Line, Family, Alive
  <2>2. /\ phase' = [phase EXCEPT ![d] = "draining"]
        /\ successor' = [successor EXCEPT ![d] = 0] /\ UNCHANGED <<pidFile, cli>>
    BY <1>4, <2>1 DEF HandOver, cliVars
  <2>3. /\ phase'[d] = "draining" /\ \A e \in Pids \ {d} : phase'[e] = phase[e]
        /\ successor'[d] = 0 /\ \A e \in Pids \ {d} : successor'[e] = successor[e]
    BY <2>2 DEF TypeOK
  <2>4. pidFile > d
    <3>1. phase[c] \in {"ready"} \cup Stopping
      BY <2>1 DEF TypeOK
    <3>2. pidFile >= c
      BY <1>t, <2>1, <3>1 DEF Line
    <3> QED BY <1>t, <2>1, <3>2
  <2>5. \A e \in Pids : phase'[e] = "none" <=> phase[e] = "none"
    BY <2>1, <2>3
  <2>6. \A e \in Pids : successor'[e] # 0 => phase'[e] = "ready" /\ Last(successor[e])'
    BY <1>t, <2>3, <2>5 DEF Line, Last
  <2>7. \A b, e \in Pids : b < e /\ Working(b)' /\ phase'[e] # "none" => successor'[b] = e
    BY <2>3, <2>5 DEF Line, Working
  <2>8. \A b \in Pids : phase'[b] \notin Starting
    <3> SUFFICES ASSUME NEW b \in Pids, phase'[b] \in Starting PROVE FALSE
      OBVIOUS
    <3>1. phase[b] \in Starting /\ b # d
      BY <2>3
    <3>2. CASE b < d
      BY <1>t, <2>1, <3>1, <3>2 DEF Line, Working
    <3>3. CASE d < b
      BY <2>1, <2>c, <3>1, <3>3 DEF Line, Working
    <3> QED BY <1>t, <3>1, <3>2, <3>3
  <2> QED BY <1>t, <2>1, <2>2, <2>3, <2>4, <2>6, <2>7, <2>8 DEF Line
<1>5. ASSUME NEW d \in Pids, GiveUp(d) PROVE Line'
  BY <1>5 DEF GiveUp, Undisturbed
<1>6. ASSUME NEW d \in Pids, Drained(d) \/ CheckOwner(d) \/ UnlinkPid(d) \/ Exit(d)
      PROVE  Line'
  <2>1. /\ phase[d] \in Stopping /\ phase'[d] \in {"checking", "cleaning", "gone"}
        /\ \A e \in Pids \ {d} : phase'[e] = phase[e]
        /\ UNCHANGED <<pidFile, successor, cli>>
    BY <1>0, <1>6, <1>t DEF Drained, CheckOwner, UnlinkPid, Exit, Advance, TypeOK, Line, cliVars
  <2>2. \A e \in Pids : /\ Working(e)' <=> Working(e)
                        /\ phase'[e] = "none" <=> phase[e] = "none"
                        /\ phase'[e] = "ready" <=> phase[e] = "ready"
                        /\ phase'[e] \in Starting <=> phase[e] \in Starting
    BY <2>1 DEF Working
  <2>3. \A e \in Pids : successor'[e] # 0 => phase'[e] = "ready" /\ Last(successor[e])'
    BY <1>t, <2>1, <2>2 DEF Line, Last
  <2>4. \A b \in Pids : phase'[b] \in Starting =>
          \E e \in Pids : phase'[e] = "ready" /\ successor'[e] = b
    BY <2>1, <2>2 DEF Line
  <2> QED BY <1>t, <2>1, <2>2, <2>3, <2>4 DEF Line
<1>7. ASSUME NEW d \in Pids, Crash(d) \/ ShutdownTimesOut(d) PROVE Line'
  BY <1>0, <1>7 DEF Crash, ShutdownTimesOut
<1>8. CASE Cli
  BY <1>0, <1>8, HandoffAssumption
     DEF Cli, Start, CleanStale, SpawnDaemon, HealthCheck, Stop, StopWaits, RemovePid,
         CliAt, Line, TypeOK
<1>9. CASE UNCHANGED vars
  BY <1>9 DEF vars, cliVars, Line, Working, Last, Pids
<1> QED
  BY <1>1, <1>2, <1>3, <1>4, <1>5, <1>6, <1>7, <1>8, <1>9 DEF Next, Daemon

LEMMA LineInit == Init => Line
<1> SUFFICES ASSUME Init PROVE Line
  OBVIOUS
<1>1. /\ \A d \in Pids : phase[d] = IF d = 1 THEN "ready" ELSE "none"
      /\ \A d \in Pids : successor[d] = 0
      /\ pidFile = 1 /\ cli.at = "idle" /\ 1 \in Pids
  BY PidFacts DEF Init
<1> QED BY <1>1, PidFacts DEF Line, Working, Starting, Stopping, Pids

\* As long as restarts succeed and nobody intervenes, the PID file names the daemon
\* that took over, while its predecessors end and it restarts itself.
THEOREM HeirIsKnownCorrect == Spec => []HeirIsKnown
<1>1. Init => LineInv
  BY HInvInit, LineInit DEF LineInv, HInv
<1>2. LineInv /\ [Next]_vars => LineInv'
  <2> SUFFICES ASSUME TypeOK, Family, Undisturbed => Line, [Next]_vars PROVE LineInv'
    BY DEF LineInv
  <2>1. TypeOK' BY TypeStep
  <2>2. Family' BY FamilyStep
  <2>3. Undisturbed' => Line' BY UndisturbedBefore, LineStep
  <2> QED BY <2>1, <2>2, <2>3 DEF LineInv
<1>3. LineInv => HeirIsKnown
  <2> SUFFICES ASSUME LineInv, NEW c \in heirs, phase[c] = "ready",
                      \A d \in Pids : d > c => phase[d] = "none", Undisturbed
               PROVE  pidFile = c
    BY DEF HeirIsKnown, Undisturbed
  <2>1. c \in Pids /\ pidFile \in Pids /\ pidFile >= c /\ phase[pidFile] # "none"
    BY DEF LineInv, Line, TypeOK
  <2> QED BY <2>1, PidFacts
<1> QED BY <1>1, <1>2, <1>3, PTL DEF Spec
=============================================================================
