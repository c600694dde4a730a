----------------------------- MODULE P2P_proofs -----------------------------
(***************************************************************************)
(* Proofs about the two sides of the P2P agent.  AgentLink, with the       *)
(* supervision it extends: at most one agent exists or is about to be      *)
(* started, the timer that starts the next or replaces one that hangs is   *)
(* armed, a request that waits is on its way to the agent that runs now or *)
(* on its way back, and the write queue keeps its depth.  PeerConnections: *)
(* which socket holds the entry of a key, what the end of a connection     *)
(* takes away and how often it is counted, for any keys, devices, sockets  *)
(* and bounds.                                                             *)
(***************************************************************************)
EXTENDS AgentLink, PeerConnections, FiniteSetTheorems, TLAPS

----------------------------------------------------------------------------
(* AgentLink and AgentSupervision.                                         *)

\* A restart is only ever scheduled, and a child stable, after the first start was
\* answered.
SupInv ==
  /\ SupervisionTypeOK /\ OneAgent
  /\ retryTimer \/ recoveryTimer => initialReady
  /\ initialReady \/ stableTimer => answer # "pending"

-----------------------------------------------------------------------------
LEMMA SupInit == SupervisionInit => SupInv
<1> SUFFICES ASSUME SupervisionInit PROVE SupInv
  OBVIOUS
<1>1. 0 \in 0..MaxRetries
  BY RetriesAssumption
<1>2. SupervisionTypeOK
  BY <1>1 DEF SupervisionInit, SupervisionTypeOK
<1>3. OneAgent
  BY DEF SupervisionInit, OneAgent
<1> QED
  BY <1>2, <1>3 DEF SupervisionInit, SupInv

\* scheduleRestart arms one of the two timers unless the manager is stopped.
LEMMA ScheduleShape ==
  ASSUME NEW n \in 0..MaxRetries, stopped \in BOOLEAN, ScheduleRestart(n, FALSE, FALSE)
  PROVE  /\ retries' \in 0..MaxRetries
         /\ retryTimer' \in BOOLEAN /\ recoveryTimer' \in BOOLEAN
         /\ ~(retryTimer' /\ recoveryTimer')
         /\ stopped => ~retryTimer' /\ ~recoveryTimer'
<1>1. CASE stopped
  BY <1>1 DEF ScheduleRestart
<1>2. CASE ~stopped /\ n >= MaxRetries
  BY <1>2 DEF ScheduleRestart
<1>3. CASE ~stopped /\ ~(n >= MaxRetries)
  <2>1. n + 1 \in 0..MaxRetries
    BY <1>3, RetriesAssumption
  <2> QED BY <1>3, <2>1 DEF ScheduleRestart
<1> QED BY <1>1, <1>2, <1>3

\* A spawn that does not throw, with no other timer armed.
LEMMA SpawnShape ==
  ASSUME SupInv, NEW n \in 0..MaxRetries,
         SpawnWorks(n, FALSE, FALSE) \/ SpawnWithoutStdio(n, FALSE, FALSE)
  PROVE  /\ (child' = "starting" /\ ~retryTimer' /\ ~recoveryTimer') \/ child' = "none"
         /\ retries' \in 0..MaxRetries /\ readyTimer' \in BOOLEAN
         /\ retryTimer' \in BOOLEAN /\ recoveryTimer' \in BOOLEAN
         /\ ~(retryTimer' /\ recoveryTimer')
         /\ stopped => ~retryTimer' /\ ~recoveryTimer'
         /\ retryTimer' \/ recoveryTimer' => initialReady
         /\ answer' \in {"pending", "success", "failure"}
         /\ answer # "pending" => answer' = answer
<1>1. CASE SpawnWorks(n, FALSE, FALSE)
  BY <1>1 DEF SpawnWorks, NoRestart, SupInv, SupervisionTypeOK
<1>2. CASE SpawnWithoutStdio(n, FALSE, FALSE)
  <2>1. CASE initialReady
    <3>1. /\ child' = "none" /\ readyTimer' = initialReady /\ answer' = answer
          /\ ScheduleRestart(n, FALSE, FALSE)
      BY <1>2, <2>1 DEF SpawnWithoutStdio
    <3> QED BY <2>1, <3>1, ScheduleShape DEF SupInv, SupervisionTypeOK
  <2>2. CASE ~initialReady
    BY <1>2, <2>2 DEF SpawnWithoutStdio, NoRestart, Settle, SupInv, SupervisionTypeOK
  <2> QED BY <2>1, <2>2
<1> QED BY <1>1, <1>2

LEMMA SpawnKeeps ==
  ASSUME SupInv, SpawnFirst \/ RetryFires \/ RecoveryFires
  PROVE  SupInv'
<1> USE DEF SupInv, SupervisionTypeOK, OneAgent, Running, Alive
<1>0. 0 \in 0..MaxRetries
  BY RetriesAssumption
<1>1. CASE SpawnFirst
  <2>1. ~retryTimer /\ ~recoveryTimer
    BY <1>1 DEF SpawnFirst
  <2>2. CASE /\ SpawnWorks(retries, FALSE, FALSE) \/ SpawnWithoutStdio(retries, FALSE, FALSE)
             /\ startupTimer' = TRUE /\ stopped' = stopped
    BY <1>1, <2>1, <2>2, SpawnShape DEF SpawnFirst
  <2>3. CASE answer' = "failure" /\ stopped' = TRUE /\ UNCHANGED <<child, retries, timers>>
    BY <1>1, <2>1, <2>3 DEF SpawnFirst, timers
  <2> QED BY <1>1, <2>1, <2>2, <2>3 DEF SpawnFirst
<1>2. CASE RetryFires
  <2>1. retryTimer /\ ~recoveryTimer /\ ~Running /\ ~stopped /\ initialReady
    BY <1>2 DEF RetryFires
  <2>2. CASE SpawnWorks(retries, FALSE, FALSE) \/ SpawnWithoutStdio(retries, FALSE, FALSE)
    BY <1>2, <2>1, <2>2, SpawnShape DEF RetryFires
  <2>3. CASE ScheduleRestart(retries, FALSE, FALSE) /\ UNCHANGED <<child, readyTimer, answer>>
    BY <1>2, <2>1, <2>3, ScheduleShape DEF RetryFires
  <2> QED BY <1>2, <2>1, <2>2, <2>3 DEF RetryFires
<1>3. CASE RecoveryFires
  <2>1. recoveryTimer /\ ~retryTimer /\ ~Running /\ ~stopped /\ initialReady
    BY <1>3 DEF RecoveryFires
  <2>2. CASE SpawnWorks(0, FALSE, FALSE) \/ SpawnWithoutStdio(0, FALSE, FALSE)
    BY <1>0, <1>3, <2>1, <2>2, SpawnShape DEF RecoveryFires
  <2>3. CASE NoRestart(0, FALSE, TRUE) /\ UNCHANGED <<child, readyTimer, answer>>
    BY <1>0, <1>3, <2>1, <2>3 DEF RecoveryFires, NoRestart
  <2> QED BY <1>3, <2>1, <2>2, <2>3 DEF RecoveryFires
<1> QED BY <1>1, <1>2, <1>3

LEMMA ExitKeeps == ASSUME SupInv, AgentExits PROVE SupInv'
<1> USE DEF SupInv, SupervisionTypeOK, OneAgent, Running, Alive
<1>1. ~retryTimer /\ ~recoveryTimer
  BY DEF AgentExits
<1>2. CASE initialReady
  <2>1. ScheduleRestart(retries, FALSE, FALSE) /\ answer' = answer
    BY <1>1, <1>2 DEF AgentExits
  <2> QED BY <1>2, <2>1, ScheduleShape DEF AgentExits
<1>3. CASE ~initialReady
  BY <1>1, <1>3 DEF AgentExits, Settle
<1> QED BY <1>2, <1>3

LEMMA SupStep == SupInv /\ [Next]_vars => SupInv'
<1> SUFFICES ASSUME SupInv, [Next]_vars PROVE SupInv'
  OBVIOUS
<1>0. 0 \in 0..MaxRetries
  BY RetriesAssumption
<1>1. CASE UNCHANGED agentVars
  BY <1>1 DEF agentVars, timers, SupInv, SupervisionTypeOK, OneAgent, Running, Alive
<1>2. CASE SpawnStep
  BY <1>2, SpawnKeeps DEF SpawnStep
<1>3. CASE TimerStep
  <2> USE DEF SupInv, SupervisionTypeOK, OneAgent, Running, Alive
  <2>1. CASE StableFires
    BY <1>0, <2>1 DEF StableFires
  <2>2. CASE ReadyTimesOut
    BY <2>2 DEF ReadyTimesOut
  <2>3. CASE StartupTimesOut
    BY <2>3 DEF StartupTimesOut, Settle
  <2> QED BY <1>3, <2>1, <2>2, <2>3 DEF TimerStep
<1>4. CASE ReadyStep
  BY <1>4 DEF ReadyStep, AgentReady, Settle, SupInv, SupervisionTypeOK, OneAgent, Running,
              Alive
<1>5. CASE EndStep
  <2>1. CASE SpawnFails
    BY <2>1 DEF SpawnFails, Settle, timers, SupInv, SupervisionTypeOK, OneAgent, Running,
                Alive
  <2> QED BY <1>5, <2>1, ExitKeeps DEF EndStep
<1>6. CASE StopStep
  BY <1>6 DEF StopStep, Stop, SupInv, SupervisionTypeOK, OneAgent, Running, Alive
<1>7. CASE OrphanExits
  BY <1>7 DEF OrphanExits, timers, SupInv, SupervisionTypeOK, OneAgent, Running, Alive
<1>8. CASE \/ SendNote \/ RequestRecentMessages \/ StreamDrains \/ DrainTimesOut
           \/ AnswerArrives \/ AgentReads \/ StdinEnds \/ DaemonExits
           \/ \E r \in Requests : RequestTimesOut(r) \/ AgentAnswers(r)
  BY <1>1, <1>8 DEF SendNote, RequestRecentMessages, StreamDrains, DrainTimesOut,
     AnswerArrives, AgentReads, StdinEnds, DaemonExits, RequestTimesOut, AgentAnswers
<1>9. CASE UNCHANGED vars
  BY <1>1, <1>9 DEF vars
<1> QED
  BY <1>2, <1>3, <1>4, <1>5, <1>6, <1>7, <1>8, <1>9 DEF Next

LEMMA SupCorrect == Spec => []SupInv
<1>1. Init => SupInv BY SupInit DEF Init
<1>2. SupInv /\ [Next]_vars => SupInv' BY SupStep
<1> QED BY <1>1, <1>2, PTL DEF Spec

\* At most one agent exists or is about to be started, and none is about to be
\* started once the manager is stopped.
THEOREM OneAgentCorrect == Spec => []OneAgent
<1>1. SupInv => OneAgent BY DEF SupInv
<1> QED BY <1>1, SupCorrect, PTL

-----------------------------------------------------------------------------
(* Requests.                                                               *)

\* What the operators on sequences do to the set of the elements.
LEMMA HeadTail ==
  ASSUME NEW S, NEW s \in Seq(S), s # <<>>
  PROVE  /\ Head(s) \in S /\ Tail(s) \in Seq(S)
         /\ ToSet(s) \subseteq {Head(s)} \cup ToSet(Tail(s))
<1>1. Len(s) \in Nat /\ Len(s) > 0 /\ DOMAIN s = 1..Len(s)
  OBVIOUS
<1>2. Head(s) = s[1] /\ Len(Tail(s)) = Len(s) - 1 /\ Tail(s) \in Seq(S)
      /\ \A i \in 1..(Len(s) - 1) : Tail(s)[i] = s[i + 1]
  BY <1>1
<1>3. ASSUME NEW i \in 1..Len(s), i # 1 PROVE s[i] \in ToSet(Tail(s))
  <2>1. i - 1 \in 1..(Len(s) - 1) /\ Tail(s)[i - 1] = s[i]
    BY <1>1, <1>2, <1>3
  <2>2. DOMAIN Tail(s) = 1..(Len(s) - 1)
    BY <1>1, <1>2
  <2> QED BY <2>1, <2>2 DEF ToSet
<1> QED BY <1>1, <1>2, <1>3 DEF ToSet

LEMMA AppendSet ==
  ASSUME NEW S, NEW s \in Seq(S), NEW m \in S
  PROVE  Append(s, m) \in Seq(S) /\ ToSet(Append(s, m)) = ToSet(s) \cup {m}
<1>1. Len(s) \in Nat /\ DOMAIN s = 1..Len(s)
  OBVIOUS
<1>2. /\ DOMAIN Append(s, m) = 1..(Len(s) + 1) /\ Append(s, m) \in Seq(S)
      /\ \A i \in 1..Len(s) : Append(s, m)[i] = s[i]
      /\ Append(s, m)[Len(s) + 1] = m
  BY <1>1
<1>3. \A i \in 1..(Len(s) + 1) : i \in 1..Len(s) \/ i = Len(s) + 1
  BY <1>1
<1>4. Len(s) + 1 \in 1..(Len(s) + 1) /\ \A i \in 1..Len(s) : i \in 1..(Len(s) + 1)
  BY <1>1
<1> QED BY <1>1, <1>2, <1>3, <1>4 DEF ToSet

LEMMA ConcatSet ==
  ASSUME NEW S, NEW s \in Seq(S), NEW t \in Seq(S)
  PROVE  s \o t \in Seq(S) /\ ToSet(s) \cup ToSet(t) \subseteq ToSet(s \o t)
<1>1. /\ Len(s) \in Nat /\ DOMAIN s = 1..Len(s)
      /\ Len(t) \in Nat /\ DOMAIN t = 1..Len(t)
  OBVIOUS
<1>2. /\ s \o t \in Seq(S) /\ Len(s \o t) = Len(s) + Len(t)
      /\ DOMAIN (s \o t) = 1..(Len(s) + Len(t))
      /\ \A i \in 1..(Len(s) + Len(t)) :
            (s \o t)[i] = IF i <= Len(s) THEN s[i] ELSE t[i - Len(s)]
  BY <1>1
<1>3. ASSUME NEW i \in 1..Len(s) PROVE s[i] \in ToSet(s \o t)
  <2>1. i \in 1..(Len(s) + Len(t)) /\ (s \o t)[i] = s[i]
    BY <1>1, <1>2
  <2> QED BY <1>2, <2>1 DEF ToSet
<1>4. ASSUME NEW i \in 1..Len(t) PROVE t[i] \in ToSet(s \o t)
  <2>1. i + Len(s) \in 1..(Len(s) + Len(t)) /\ (s \o t)[i + Len(s)] = t[i]
    BY <1>1, <1>2
  <2> QED BY <1>2, <2>1 DEF ToSet
<1> QED BY <1>1, <1>2, <1>3, <1>4 DEF ToSet

LEMMA SplitSet ==
  ASSUME NEW S, NEW s \in Seq(S), NEW n \in 0..Len(s)
  PROVE  /\ SubSeq(s, 1, n) \in Seq(S) /\ SubSeq(s, n + 1, Len(s)) \in Seq(S)
         /\ ToSet(s) \subseteq ToSet(SubSeq(s, 1, n)) \cup ToSet(SubSeq(s, n + 1, Len(s)))
<1>1. Len(s) \in Nat /\ DOMAIN s = 1..Len(s) /\ n \in Nat
  OBVIOUS
<1>2. /\ SubSeq(s, 1, n) \in Seq(S) /\ DOMAIN SubSeq(s, 1, n) = 1..n
      /\ \A i \in 1..n : SubSeq(s, 1, n)[i] = s[i]
  BY <1>1
<1>3. /\ SubSeq(s, n + 1, Len(s)) \in Seq(S)
      /\ DOMAIN SubSeq(s, n + 1, Len(s)) = 1..(Len(s) - n)
      /\ \A i \in 1..(Len(s) - n) : SubSeq(s, n + 1, Len(s))[i] = s[i + n]
  BY <1>1
<1>4. ASSUME NEW i \in 1..Len(s), ~(i <= n) PROVE s[i] \in ToSet(SubSeq(s, n + 1, Len(s)))
  <2>1. i - n \in 1..(Len(s) - n) /\ (i - n) + n = i
    BY <1>1, <1>4
  <2>2. SubSeq(s, n + 1, Len(s))[i - n] = s[i]
    BY <1>3, <2>1
  <2> QED BY <1>3, <2>1, <2>2 DEF ToSet
<1>5. ASSUME NEW i \in 1..Len(s), i <= n PROVE s[i] \in ToSet(SubSeq(s, 1, n))
  BY <1>1, <1>2, <1>5 DEF ToSet
<1> QED BY <1>1, <1>2, <1>3, <1>4, <1>5 DEF ToSet

-----------------------------------------------------------------------------
LinkTypeOK ==
  /\ entries \in Seq(Messages) /\ stdin \in Seq(Messages)
  /\ reading \in SUBSET Requests /\ stdout \in Seq(Requests)
  /\ request \in [Requests -> {"new", "pending", "messages", "empty"}]
  /\ lost \in SUBSET Requests
  /\ configured \in BOOLEAN

\* Where a request can be on its way.
InTransit == ToSet(entries) \cup ToSet(stdin) \cup reading \cup ToSet(stdout)

LInv ==
  /\ SupInv /\ LinkTypeOK
  /\ daemon = "up" /\ configured => Running
  /\ RequestTracked

LEMMA MessageFacts ==
  /\ Requests \subseteq Messages /\ Note \in Messages /\ Shutdown \in Messages
  /\ Note \notin Requests /\ Shutdown \notin Requests
  BY LinkAssumption DEF Requests, Messages, Note, Shutdown

\* Whatever is in q is written or stays queued.
LEMMA FlushShape ==
  ASSUME LinkTypeOK, NEW q \in Seq(Messages), Flush(q)
  PROVE  /\ entries' \in Seq(Messages) /\ stdin' \in Seq(Messages)
         /\ ToSet(q) \cup ToSet(stdin) \subseteq ToSet(entries') \cup ToSet(stdin')
<1>1. PICK n \in 0..Len(q) : /\ stdin' = stdin \o SubSeq(q, 1, n)
                             /\ entries' = SubSeq(q, n + 1, Len(q))
  <2>1. Len(q) \in Nat /\ Len(stdin) \in Nat
    BY DEF LinkTypeOK
  <2>2. StreamMax \in Nat \ {0}
    BY LinkAssumption
  <2> DEFINE n == IF Len(q) = 0 THEN 0
                  ELSE IF Len(stdin) >= StreamMax THEN 1
                  ELSE IF Len(q) < StreamMax - Len(stdin) THEN Len(q)
                  ELSE StreamMax - Len(stdin)
  <2>3. n \in 0..Len(q)
    BY <2>1, <2>2
  <2>4. stdin' = stdin \o SubSeq(q, 1, n) /\ entries' = SubSeq(q, n + 1, Len(q))
    BY DEF Flush
  <2> HIDE DEF n
  <2> QED BY <2>3, <2>4
<1>2. /\ SubSeq(q, 1, n) \in Seq(Messages) /\ entries' \in Seq(Messages)
      /\ ToSet(q) \subseteq ToSet(SubSeq(q, 1, n)) \cup ToSet(entries')
  BY <1>1, SplitSet
<1>3. /\ stdin' \in Seq(Messages)
      /\ ToSet(stdin) \cup ToSet(SubSeq(q, 1, n)) \subseteq ToSet(stdin')
  BY <1>1, <1>2, ConcatSet DEF LinkTypeOK
<1> QED BY <1>2, <1>3

\* enqueue: what is not dropped stays, and the new message is there.
LEMMA EnqueueShape ==
  ASSUME LinkTypeOK, NEW m \in Messages, Enqueue(m)
  PROVE  /\ entries' \in Seq(Messages) /\ stdin' \in Seq(Messages)
         /\ lost \subseteq lost' /\ lost' \in SUBSET Requests
         /\ m \in ToSet(entries') \cup ToSet(stdin')
         /\ \A r \in Requests : r \in ToSet(entries) \cup ToSet(stdin)
              => r \in ToSet(entries') \cup ToSet(stdin') \cup lost'
<1> DEFINE full == Len(entries) >= QueueMax
           kept == IF full THEN SubSeq(entries, DropCount + 1, Len(entries)) ELSE entries
           gone == IF full THEN SubSeq(entries, 1, DropCount) ELSE <<>>
<1>1. lost' = lost \cup (ToSet(gone) \cap Requests)
  BY DEF Enqueue, Dropped
<1>2. kept \in Seq(Messages) /\ ToSet(entries) \subseteq ToSet(kept) \cup ToSet(gone)
  <2>1. CASE full
    <3>1. DropCount \in 0..Len(entries)
      BY <2>1, LinkAssumption DEF LinkTypeOK
    <3> QED BY <2>1, <3>1, SplitSet DEF LinkTypeOK
  <2>2. CASE ~full
    BY <2>2 DEF LinkTypeOK
  <2> QED BY <2>1, <2>2
<1>3. Append(kept, m) \in Seq(Messages) /\ ToSet(Append(kept, m)) = ToSet(kept) \cup {m}
  <2>1. \A s \in Seq(Messages) : /\ Append(s, m) \in Seq(Messages)
                                 /\ ToSet(Append(s, m)) = ToSet(s) \cup {m}
    BY AppendSet
  <2> HIDE DEF kept
  <2> QED BY <1>2, <2>1
<1>4. IF draining THEN entries' = Append(kept, m) /\ stdin' = stdin
      ELSE Flush(Append(kept, m))
  BY DEF Enqueue
<1> HIDE DEF kept, gone, full
<1>5. CASE draining
  BY <1>1, <1>2, <1>3, <1>4, <1>5 DEF LinkTypeOK
<1>6. CASE ~draining
  <2>1. /\ entries' \in Seq(Messages) /\ stdin' \in Seq(Messages)
        /\ ToSet(Append(kept, m)) \cup ToSet(stdin) \subseteq ToSet(entries') \cup ToSet(stdin')
    BY <1>3, <1>4, <1>6, FlushShape
  <2> QED BY <1>1, <1>2, <1>3, <2>1 DEF LinkTypeOK
<1> QED BY <1>5, <1>6

\* A call of sendDaemonToAgent.
LEMMA SendShape ==
  ASSUME LinkTypeOK, NEW m \in Messages, Send(m)
  PROVE  /\ entries' \in Seq(Messages) /\ stdin' \in Seq(Messages)
         /\ lost \subseteq lost' /\ lost' \in SUBSET Requests
         /\ configured => m \in ToSet(entries') \cup ToSet(stdin')
         /\ \A r \in Requests : r \in ToSet(entries) \cup ToSet(stdin)
              => r \in ToSet(entries') \cup ToSet(stdin') \cup lost'
<1>1. CASE configured
  BY <1>1, EnqueueShape DEF Send
<1>2. CASE ~configured
  <2>1. UNCHANGED <<entries, stdin>> /\ lost' = lost \cup (ToSet(<<>>) \cap Requests)
    BY <1>2 DEF Send, Dropped
  <2> QED BY <1>2, <2>1 DEF LinkTypeOK
<1> QED BY <1>1, <1>2 DEF LinkTypeOK

\* A step that neither starts nor ends an agent keeps requests tracked if what is
\* in transit stays so, is lost, or is settled.
LEMMA TrackedKept ==
  ASSUME RequestTracked, Running => Running', daemon' = "up" => daemon = "up",
         \A r \in Requests : request'[r] = "pending" =>
            \/ request[r] = "pending"
            \/ Running' /\ r \in InTransit',
         \A r \in Requests : request'[r] = "pending" /\ r \in InTransit => r \in InTransit' \cup lost',
         lost \subseteq lost'
  PROVE  RequestTracked'
<1> SUFFICES ASSUME NEW r \in Requests, daemon' = "up", request'[r] = "pending"
             PROVE  (Running' /\ r \in InTransit') \/ r \in lost'
  BY DEF RequestTracked, InTransit, Requests
<1>1. CASE request[r] = "pending"
  <2>1. (Running /\ r \in InTransit) \/ r \in lost
    BY <1>1 DEF RequestTracked, InTransit
  <2> QED BY <2>1
<1> QED BY <1>1

\* One step of the daemon or of the agent.
LEMMA TrackedStep ==
  ASSUME LInv, SupInv', LinkTypeOK', [Next]_vars
  PROVE  RequestTracked' /\ (daemon' = "up" /\ configured' => Running')
<1> USE DEF LInv
<1>1. CASE SendNote
  <2>1. \A r \in Requests : r \in InTransit => r \in InTransit' \cup lost'
    BY <1>1, SendShape, MessageFacts DEF SendNote, InTransit
  <2>2. lost \subseteq lost'
    BY <1>1, SendShape, MessageFacts DEF SendNote
  <2>3. /\ Running' <=> Running
        /\ request' = request /\ daemon' = daemon /\ configured' = configured
    BY <1>1 DEF SendNote, agentVars, Running
  <2> QED BY <2>1, <2>2, <2>3, TrackedKept
<1>2. CASE RequestRecentMessages
  <2>1. PICK r \in Requests : /\ Send(r) /\ request' = [request EXCEPT ![r] =
                                    IF configured THEN "pending" ELSE "empty"]
    BY <1>2 DEF RequestRecentMessages
  <2>2. /\ lost \subseteq lost'
        /\ configured => r \in ToSet(entries') \cup ToSet(stdin')
        /\ \A q \in Requests : q \in ToSet(entries) \cup ToSet(stdin)
              => q \in ToSet(entries') \cup ToSet(stdin') \cup lost'
    BY <2>1, SendShape, MessageFacts
  <2>3. /\ Running' <=> Running
        /\ daemon = "up" /\ daemon' = daemon /\ configured' = configured
        /\ reading' = reading /\ stdout' = stdout
    BY <1>2 DEF RequestRecentMessages, agentVars, Running
  <2>4. \A q \in Requests : q \in InTransit => q \in InTransit' \cup lost'
    BY <2>2, <2>3 DEF InTransit
  <2>5. ASSUME NEW q \in Requests, request'[q] = "pending"
        PROVE  request[q] = "pending" \/ (Running' /\ q \in InTransit')
    <3>1. CASE q = r
      <4>1. configured
        BY <2>1, <2>5, <3>1 DEF LinkTypeOK
      <4> QED BY <2>2, <2>3, <3>1, <4>1 DEF InTransit
    <3>2. CASE q # r
      <4>1. request'[q] = request[q]
        BY <2>1, <3>2 DEF LinkTypeOK
      <4> QED BY <2>5, <4>1
    <3> QED BY <3>1, <3>2
  <2> QED BY <2>2, <2>3, <2>4, <2>5, TrackedKept
<1>3. CASE StreamDrains
  <2>1. entries \in Seq(Messages) /\ Flush(entries)
    BY <1>3 DEF StreamDrains, LinkTypeOK
  <2>2. ToSet(entries) \cup ToSet(stdin) \subseteq ToSet(entries') \cup ToSet(stdin')
    BY <2>1, FlushShape
  <2>3. /\ Running' <=> Running
        /\ UNCHANGED <<request, daemon, configured, reading, stdout, lost>>
    BY <1>3 DEF StreamDrains, agentVars, Running
  <2>4. \A q \in Requests : q \in InTransit => q \in InTransit' \cup lost'
    BY <2>2, <2>3 DEF InTransit
  <2> QED BY <2>3, <2>4, TrackedKept
<1>4. CASE DrainTimesOut
  <2>1. /\ Running' <=> Running
        /\ UNCHANGED <<request, daemon, configured, reading, stdout, stdin>>
        /\ lost' = lost \cup (ToSet(entries) \cap Requests)
    BY <1>4 DEF DrainTimesOut, Dropped, agentVars, Running
  <2>2. \A q \in Requests : q \in InTransit => q \in InTransit' \cup lost'
    BY <2>1 DEF InTransit
  <2> QED BY <2>1, <2>2, TrackedKept
<1>5. CASE AnswerArrives
  <2>1. /\ (Running' <=> Running) /\ stdout # <<>> /\ stdout' = Tail(stdout)
        /\ UNCHANGED <<entries, daemon, configured, reading, stdin, lost>>
        /\ request' = IF request[Head(stdout)] = "pending"
                      THEN [request EXCEPT ![Head(stdout)] = "messages"] ELSE request
    BY <1>5 DEF AnswerArrives, agentVars, Running
  <2>2. Head(stdout) \in Requests /\ ToSet(stdout) \subseteq {Head(stdout)} \cup ToSet(stdout')
    <3>1. stdout \in Seq(Requests) BY DEF LinkTypeOK
    <3>2. /\ Head(stdout) \in Requests
          /\ ToSet(stdout) \subseteq {Head(stdout)} \cup ToSet(Tail(stdout))
      BY <2>1, <3>1, HeadTail
    <3> QED BY <2>1, <3>2
  <2>3. \A q \in Requests : request'[q] = "pending"
           => request[q] = "pending" /\ q # Head(stdout)
    BY <2>1, <2>2 DEF LinkTypeOK
  <2>4. \A q \in Requests : request'[q] = "pending" /\ q \in InTransit => q \in InTransit' \cup lost'
    BY <2>1, <2>2, <2>3 DEF InTransit
  <2> QED BY <2>1, <2>3, <2>4, TrackedKept
<1>6. CASE AgentReads
  <2>1. /\ (Running' <=> Running) /\ stdin # <<>> /\ stdin' = Tail(stdin)
        /\ UNCHANGED <<entries, daemon, configured, stdout, request, lost>>
        /\ reading' = IF Head(stdin) \in Requests THEN reading \cup {Head(stdin)}
                      ELSE reading
    BY <1>6 DEF AgentReads, agentVars, Running
  <2>2. ToSet(stdin) \subseteq {Head(stdin)} \cup ToSet(stdin')
    <3>1. stdin \in Seq(Messages) BY DEF LinkTypeOK
    <3>2. ToSet(stdin) \subseteq {Head(stdin)} \cup ToSet(Tail(stdin))
      BY <2>1, <3>1, HeadTail
    <3> QED BY <2>1, <3>2
  <2>3. \A q \in Requests : q \in InTransit => q \in InTransit' \cup lost'
    BY <2>1, <2>2 DEF InTransit
  <2> QED BY <2>1, <2>3, TrackedKept
<1>7. ASSUME NEW r \in Requests, AgentAnswers(r)
      PROVE  RequestTracked' /\ (daemon' = "up" /\ configured' => Running')
  <2>1. /\ (Running' <=> Running) /\ stdout' = Append(stdout, r) /\ reading' = reading \ {r}
        /\ UNCHANGED <<entries, daemon, configured, stdin, request, lost>>
    BY <1>7 DEF AgentAnswers, agentVars, Running
  <2>2. ToSet(stdout') = ToSet(stdout) \cup {r}
    <3>1. stdout \in Seq(Requests) BY DEF LinkTypeOK
    <3>2. ToSet(Append(stdout, r)) = ToSet(stdout) \cup {r}
      BY <3>1, AppendSet
    <3> QED BY <2>1, <3>2
  <2>3. \A q \in Requests : q \in InTransit => q \in InTransit' \cup lost'
    BY <2>1, <2>2 DEF InTransit
  <2> QED BY <2>1, <2>3, TrackedKept
<1>8. ASSUME NEW r \in Requests, RequestTimesOut(r)
      PROVE  RequestTracked' /\ (daemon' = "up" /\ configured' => Running')
  <2>1. /\ Running' <=> Running
        /\ UNCHANGED <<entries, daemon, configured, stdin, stdout, reading, lost>>
        /\ request' = [request EXCEPT ![r] = "empty"]
    BY <1>8 DEF RequestTimesOut, channel, agentVars, Running
  <2>2. \A q \in Requests : request'[q] = "pending" => request[q] = "pending"
    BY <2>1 DEF LinkTypeOK
  <2>3. \A q \in Requests : q \in InTransit => q \in InTransit' \cup lost'
    BY <2>1 DEF InTransit
  <2> QED BY <2>1, <2>2, <2>3, TrackedKept
\* No agent ran before a spawn, so every request that waits was dropped.
<1>9. CASE SpawnStep
  <2>1. ~Running
    BY <1>9 DEF SpawnStep, SpawnFirst, RetryFires, RecoveryFires, SupInv, OneAgent,
                Running, Alive
  <2>2. UNCHANGED <<request, lost, daemon>> /\ daemon = "up"
    BY <1>9 DEF SpawnStep
  <2>3. \A q \in Requests : request'[q] = "pending" => q \in lost'
    BY <2>1, <2>2 DEF RequestTracked
  <2>4. child' = "starting" \/ configured' = configured
    BY <1>9 DEF SpawnStep, Configure
  <2>5. configured' => Running'
    BY <2>1, <2>2, <2>4 DEF Running, Alive
  <2> QED BY <2>3, <2>5 DEF RequestTracked, Requests
<1>10. CASE TimerStep
  <2>1. (Running' <=> Running) /\ UNCHANGED linkVars
    BY <1>10 DEF TimerStep, StableFires, ReadyTimesOut, StartupTimesOut, Running, Alive
  <2> QED BY <2>1, TrackedKept DEF linkVars, channel, InTransit
<1>11. CASE ReadyStep
  <2>1. (Running' <=> Running) /\ UNCHANGED linkVars
    BY <1>11 DEF ReadyStep, AgentReady, Running, Alive
  <2> QED BY <2>1, TrackedKept DEF linkVars, channel, InTransit
<1>12. CASE EndStep
  <2>1. \A q \in Requests : request'[q] # "pending"
    BY <1>12 DEF EndStep, ClearP2PSender, LinkTypeOK
  <2>2. ~configured'
    BY <1>12 DEF EndStep, ClearP2PSender, Cleared
  <2> QED BY <2>1, <2>2 DEF RequestTracked, Requests
<1>13. CASE StopStep
  <2>1. /\ \A r \in Requests : r \in InTransit => r \in InTransit' \cup lost'
        /\ lost \subseteq lost'
    BY <1>13, SendShape, MessageFacts DEF StopStep, InTransit
  <2>2. /\ Running' <=> Running
        /\ request' = request /\ daemon' = daemon /\ configured' = configured
    BY <1>13 DEF StopStep, Stop, Running
  <2> QED BY <2>1, <2>2, TrackedKept
<1>14. CASE DaemonExits \/ OrphanExits
  <2>1. daemon' = "gone"
    BY <1>14 DEF DaemonExits, OrphanExits, linkVars
  <2> QED BY <2>1 DEF RequestTracked
<1>15. CASE StdinEnds
  <2>1. daemon' = "gone"
    BY <1>15 DEF StdinEnds
  <2> QED BY <2>1 DEF RequestTracked
<1>16. CASE UNCHANGED vars
  BY <1>16, TrackedKept DEF vars, agentVars, linkVars, channel, InTransit, Running
<1> QED
  BY <1>1, <1>2, <1>3, <1>4, <1>5, <1>6, <1>7, <1>8, <1>9, <1>10, <1>11, <1>12, <1>13,
     <1>14, <1>15, <1>16 DEF Next

LEMMA LinkTypeStep ==
  ASSUME SupInv, LinkTypeOK, [Next]_vars
  PROVE  LinkTypeOK'
<1> USE MessageFacts
<1>0. /\ entries \in Seq(Messages) /\ stdin \in Seq(Messages) /\ stdout \in Seq(Requests)
      /\ <<>> \in Seq(Messages) /\ <<>> \in Seq(Requests)
  BY DEF LinkTypeOK
<1>1. CASE SendNote
  BY <1>1, SendShape DEF SendNote, LinkTypeOK
<1>2. CASE RequestRecentMessages
  <2>1. PICK r \in Requests : /\ Send(r) /\ request' = [request EXCEPT ![r] =
                                    IF configured THEN "pending" ELSE "empty"]
    BY <1>2 DEF RequestRecentMessages
  <2>2. /\ entries' \in Seq(Messages) /\ stdin' \in Seq(Messages)
        /\ lost' \in SUBSET Requests
    BY <2>1, SendShape
  <2> QED BY <1>2, <2>1, <2>2 DEF RequestRecentMessages, LinkTypeOK
<1>3. CASE StreamDrains
  <2>1. entries \in Seq(Messages) /\ Flush(entries)
    BY <1>3 DEF StreamDrains, LinkTypeOK
  <2> QED BY <1>3, <2>1, FlushShape DEF StreamDrains, LinkTypeOK
<1>4. CASE DrainTimesOut
  BY <1>4 DEF DrainTimesOut, Dropped, LinkTypeOK
<1>5. CASE AnswerArrives
  <2>1. Head(stdout) \in Requests /\ stdout' \in Seq(Requests)
    BY <1>5, HeadTail DEF AnswerArrives, LinkTypeOK
  <2> QED BY <1>5, <2>1 DEF AnswerArrives, LinkTypeOK
<1>6. CASE AgentReads
  <2>1. stdin' \in Seq(Messages)
    BY <1>6, HeadTail DEF AgentReads, LinkTypeOK
  <2> QED BY <1>6, <2>1 DEF AgentReads, LinkTypeOK
<1>7. ASSUME NEW r \in Requests, AgentAnswers(r) PROVE LinkTypeOK'
  <2>1. stdout' \in Seq(Requests)
    BY <1>7, AppendSet DEF AgentAnswers, LinkTypeOK
  <2> QED BY <1>7, <2>1 DEF AgentAnswers, LinkTypeOK
<1>8. ASSUME NEW r \in Requests, RequestTimesOut(r) PROVE LinkTypeOK'
  BY <1>8 DEF RequestTimesOut, channel, LinkTypeOK
<1>9. CASE SpawnStep
  <2>1. CASE child' = "starting"
    BY <1>0, <1>9, <2>1 DEF SpawnStep, Configure, LinkTypeOK
  <2>2. CASE child' # "starting"
    BY <1>9, <2>2 DEF SpawnStep, Configure, channel, LinkTypeOK
  <2> QED BY <2>1, <2>2
<1>10. CASE TimerStep \/ ReadyStep \/ OrphanExits
  BY <1>10 DEF TimerStep, ReadyStep, OrphanExits, linkVars, channel, LinkTypeOK
<1>11. CASE EndStep
  BY <1>0, <1>11 DEF EndStep, ClearP2PSender, Cleared, LinkTypeOK
<1>12. CASE StopStep
  BY <1>12, SendShape DEF StopStep, LinkTypeOK
<1>13. CASE DaemonExits \/ StdinEnds
  BY <1>13 DEF DaemonExits, StdinEnds, channel, LinkTypeOK
<1>14. CASE UNCHANGED vars
  BY <1>14 DEF vars, linkVars, channel, LinkTypeOK
<1> QED
  BY <1>1, <1>2, <1>3, <1>4, <1>5, <1>6, <1>7, <1>8, <1>9, <1>10, <1>11, <1>12, <1>13,
     <1>14 DEF Next

LEMMA LInvCorrect == Spec => []LInv
<1>1. Init => LInv
  <2> SUFFICES ASSUME Init PROVE LInv
    OBVIOUS
  <2>1. <<>> \in Seq(Messages) /\ <<>> \in Seq(Requests)
    OBVIOUS
  <2>2. LinkTypeOK
    BY <2>1 DEF Init, LinkTypeOK
  <2>3. RequestTracked
    BY DEF Init, RequestTracked
  <2> QED BY <2>2, <2>3, SupInit DEF Init, LInv
<1>2. LInv /\ [Next]_vars => LInv'
  <2> SUFFICES ASSUME LInv, [Next]_vars PROVE LInv'
    OBVIOUS
  <2>1. SupInv'
    BY SupStep DEF LInv
  <2>2. LinkTypeOK'
    BY LinkTypeStep DEF LInv
  <2>3. RequestTracked' /\ (daemon' = "up" /\ configured' => Running')
    BY <2>1, <2>2, TrackedStep
  <2> QED BY <2>1, <2>2, <2>3 DEF LInv
<1> QED BY <1>1, <1>2, PTL DEF Spec

\* A request that waits for its answer is in the channel of the agent that runs
\* now, unless the write queue dropped it.
THEOREM RequestTrackedCorrect == Spec => []RequestTracked
<1>1. LInv => RequestTracked BY DEF LInv
<1> QED BY <1>1, LInvCorrect, PTL

-----------------------------------------------------------------------------
(* Restarts.                                                               *)

ArmedInv ==
  /\ RestartIsArmed
  /\ answer = "success" \/ ~first => initialReady
  /\ daemon = "gone" => stopped

LEMMA ArmedStep == SupInv /\ ArmedInv /\ [Next]_vars => ArmedInv'
<1> SUFFICES ASSUME SupInv, ArmedInv, [Next]_vars PROVE ArmedInv'
  OBVIOUS
<1> USE DEF SupInv, SupervisionTypeOK, ArmedInv, RestartIsArmed
<1>1. CASE UNCHANGED <<agentVars, daemon>>
  BY <1>1 DEF agentVars, timers
<1>2. CASE SpawnStep
  <2>1. daemon' = daemon
    BY <1>2 DEF SpawnStep
  <2>2. CASE SpawnFirst
    <3>1. ~initialReady /\ first
      BY <2>2 DEF SpawnFirst
    <3>2. answer' # "success" /\ UNCHANGED <<first, initialReady>> /\ (stopped => stopped')
      BY <2>2, <3>1 DEF SpawnFirst, SpawnWorks, SpawnWithoutStdio, Settle, timers
    <3>3. QED BY <2>1, <3>1, <3>2
  <2>3. CASE RetryFires
    <3>1. initialReady /\ UNCHANGED <<initialReady, stopped>>
      BY <2>3 DEF RetryFires
    <3>2. /\ child' = "starting" => readyTimer' \/ (UNCHANGED <<child, readyTimer>> /\ retryTimer)
          /\ child' = "none" /\ ~stopped => retryTimer' \/ recoveryTimer'
      BY <2>3, <3>1 DEF RetryFires, SpawnWorks, SpawnWithoutStdio, ScheduleRestart
    <3>3. child' = "starting" => readyTimer'
      BY <2>3, <3>2 DEF OneAgent, Running, Alive
    <3>4. QED BY <2>1, <3>1, <3>2, <3>3
  <2>4. CASE RecoveryFires
    <3>1. initialReady /\ UNCHANGED <<initialReady, stopped>>
      BY <2>4 DEF RecoveryFires
    <3>2. /\ child' = "starting" => readyTimer' \/ (UNCHANGED <<child, readyTimer>> /\ recoveryTimer)
          /\ child' = "none" /\ ~stopped => retryTimer' \/ recoveryTimer'
      BY <2>4, <3>1 DEF RecoveryFires, SpawnWorks, SpawnWithoutStdio, ScheduleRestart, NoRestart
    <3>3. child' = "starting" => readyTimer'
      BY <2>4, <3>2 DEF OneAgent, Running, Alive
    <3>4. QED BY <2>1, <3>1, <3>2, <3>3
  <2>5. QED BY <1>2, <2>2, <2>3, <2>4 DEF SpawnStep
<1>3. CASE TimerStep
  <2>1. daemon' = daemon
    BY <1>3 DEF TimerStep, linkVars
  <2>2. CASE StableFires
    BY <2>1, <2>2 DEF StableFires
  <2>3. CASE ReadyTimesOut
    BY <2>1, <2>3 DEF ReadyTimesOut, Alive
  <2>4. CASE StartupTimesOut
    BY <2>1, <2>4 DEF StartupTimesOut, Settle
  <2>5. QED BY <1>3, <2>2, <2>3, <2>4 DEF TimerStep
<1>4. CASE ReadyStep
  BY <1>4 DEF ReadyStep, AgentReady, Settle, linkVars
<1>5. CASE EndStep
  <2>1. CASE SpawnFails
    BY <1>5, <2>1 DEF EndStep, SpawnFails, Settle, timers
  <2>2. CASE AgentExits
    <3>1. UNCHANGED <<first, initialReady, stopped, daemon>> /\ child' = "none"
      BY <1>5, <2>2 DEF EndStep, AgentExits
    <3>2. CASE initialReady
      BY <2>2, <3>1, <3>2 DEF AgentExits, ScheduleRestart
    <3>3. CASE ~initialReady
      BY <2>2, <3>1, <3>3 DEF AgentExits, Settle
    <3>4. QED BY <3>2, <3>3
  <2>3. QED BY <1>5, <2>1, <2>2 DEF EndStep
<1>6. CASE StopStep
  BY <1>6 DEF StopStep, Stop
<1>7. CASE OrphanExits \/ DaemonExits
  BY <1>7 DEF OrphanExits, DaemonExits, timers, agentVars, linkVars
<1>8. CASE \/ SendNote \/ RequestRecentMessages \/ StreamDrains \/ DrainTimesOut
           \/ AnswerArrives \/ AgentReads \/ StdinEnds
           \/ \E r \in Requests : RequestTimesOut(r) \/ AgentAnswers(r)
  BY <1>1, <1>8 DEF SendNote, RequestRecentMessages, StreamDrains, DrainTimesOut,
     AnswerArrives, AgentReads, StdinEnds, RequestTimesOut, AgentAnswers
<1>9. CASE UNCHANGED vars
  BY <1>1, <1>9 DEF vars, linkVars
<1>10. QED BY <1>2, <1>3, <1>4, <1>5, <1>6, <1>7, <1>8, <1>9 DEF Next

\* An agent that is gone has the timer of the next armed, until the manager is
\* stopped, and one that is being restarted the timer that replaces it.
THEOREM RestartIsArmedCorrect == Spec => []RestartIsArmed
<1>1. Init => ArmedInv
  BY DEF Init, SupervisionInit, ArmedInv, RestartIsArmed
<1>2. ArmedInv => RestartIsArmed
  BY DEF ArmedInv
<1>3. QED BY <1>1, <1>2, ArmedStep, SupCorrect, PTL DEF Spec

-----------------------------------------------------------------------------
(* The write queue and its bounds.                                         *)

QueueInv ==
  /\ draining \in BOOLEAN /\ Len(entries) <= QueueMax /\ (entries # <<>> => draining)
  /\ asked \in 0..MaxRequests /\ notes \in 0..MaxNotes
  /\ daemon \in {"up", "gone"} /\ leaving \in BOOLEAN

\* A flush leaves something only in a stream that is full.
LEMMA FlushBounds ==
  ASSUME LinkTypeOK, NEW q \in Seq(Messages), Flush(q), Len(q) <= QueueMax
  PROVE  Len(entries') <= QueueMax /\ draining' \in BOOLEAN /\ (entries' # <<>> => draining')
<1>1. Len(q) \in Nat /\ Len(stdin) \in Nat /\ StreamMax \in Nat \ {0} /\ QueueMax \in Nat
  BY LinkAssumption DEF LinkTypeOK
<1> DEFINE n == IF Len(q) = 0 THEN 0
                ELSE IF Len(stdin) >= StreamMax THEN 1
                ELSE IF Len(q) < StreamMax - Len(stdin) THEN Len(q)
                ELSE StreamMax - Len(stdin)
<1>2. /\ entries' = SubSeq(q, n + 1, Len(q))
      /\ draining' = (n > 0 /\ Len(stdin) + n >= StreamMax)
  BY DEF Flush
<1>3. n \in 0..Len(q) /\ (n # Len(q) => n > 0 /\ Len(stdin) + n >= StreamMax)
  BY <1>1
<1> HIDE DEF n
<1>4. Len(entries') = Len(q) - n /\ entries' \in Seq(Messages)
  BY <1>1, <1>2, <1>3
<1>5. n = Len(q) => entries' = <<>>
  BY <1>1, <1>4
<1>6. draining' \in BOOLEAN /\ (n # Len(q) => draining')
  BY <1>2, <1>3
<1>7. Len(entries') <= QueueMax
  BY <1>1, <1>3, <1>4
<1>8. QED BY <1>5, <1>6, <1>7

LEMMA SendBounds ==
  ASSUME LinkTypeOK, QueueInv, NEW m \in Messages, Send(m)
  PROVE  Len(entries') <= QueueMax /\ draining' \in BOOLEAN /\ (entries' # <<>> => draining')
<1> DEFINE full == Len(entries) >= QueueMax
           kept == IF full THEN SubSeq(entries, DropCount + 1, Len(entries)) ELSE entries
<1>1. /\ entries \in Seq(Messages) /\ Len(entries) \in Nat /\ Len(entries) <= QueueMax
      /\ QueueMax \in Nat \ {0} /\ DropCount \in 1..QueueMax
  BY LinkAssumption DEF LinkTypeOK, QueueInv
<1>2. kept \in Seq(Messages) /\ Len(kept) + 1 <= QueueMax
  BY <1>1
<1>3. CASE ~configured
  BY <1>3 DEF Send, QueueInv
<1>4. CASE configured
  <2>1. IF draining THEN entries' = Append(kept, m) /\ UNCHANGED draining
        ELSE Flush(Append(kept, m))
    BY <1>4 DEF Send, Enqueue
  <2> HIDE DEF kept
  <2>2. Append(kept, m) \in Seq(Messages) /\ Len(Append(kept, m)) <= QueueMax
    BY <1>1, <1>2
  <2>3. QED BY <2>1, <2>2, FlushBounds DEF QueueInv
<1>5. QED BY <1>3, <1>4

LEMMA QueueStep == LinkTypeOK /\ QueueInv /\ [Next]_vars => QueueInv'
<1> SUFFICES ASSUME LinkTypeOK, QueueInv, [Next]_vars PROVE QueueInv'
  OBVIOUS
<1> DEFINE Bounded == Len(entries') <= QueueMax /\ draining' \in BOOLEAN /\ (entries' # <<>> => draining')
<1>0. Len(<<>>) <= QueueMax /\ MaxRequests \in Nat /\ MaxNotes \in Nat
  BY LinkAssumption
<1>1. CASE SendNote \/ RequestRecentMessages
  <2>1. Bounded
    BY <1>1, SendBounds, MessageFacts DEF SendNote, RequestRecentMessages
  <2>2. asked' \in 0..MaxRequests /\ notes' \in 0..MaxNotes
    BY <1>0, <1>1 DEF SendNote, RequestRecentMessages, QueueInv, Requests
  <2>3. QED BY <1>1, <2>1, <2>2 DEF SendNote, RequestRecentMessages, QueueInv
<1>2. CASE StreamDrains
  <2>1. Bounded
    BY <1>2, FlushBounds DEF StreamDrains, LinkTypeOK, QueueInv
  <2>2. QED BY <1>2, <2>1 DEF StreamDrains, QueueInv
<1>3. CASE DrainTimesOut
  BY <1>0, <1>3 DEF DrainTimesOut, QueueInv
<1>4. CASE AnswerArrives \/ AgentReads \/ StdinEnds
  BY <1>4 DEF AnswerArrives, AgentReads, StdinEnds, QueueInv, channel
<1>5. CASE \E r \in Requests : RequestTimesOut(r) \/ AgentAnswers(r)
  BY <1>5 DEF RequestTimesOut, AgentAnswers, QueueInv, channel
<1>6. CASE SpawnStep
  BY <1>0, <1>6 DEF SpawnStep, Configure, QueueInv, channel
<1>7. CASE TimerStep \/ ReadyStep \/ OrphanExits
  BY <1>7 DEF TimerStep, ReadyStep, OrphanExits, linkVars, channel, QueueInv
<1>8. CASE EndStep
  BY <1>0, <1>8 DEF EndStep, ClearP2PSender, Cleared, QueueInv
<1>9. CASE StopStep
  BY <1>9, SendBounds, MessageFacts DEF StopStep, QueueInv
<1>10. CASE DaemonExits
  BY <1>10 DEF DaemonExits, channel, QueueInv
<1>11. CASE UNCHANGED vars
  BY <1>11 DEF vars, linkVars, channel, QueueInv
<1>12. QED BY <1>1, <1>2, <1>3, <1>4, <1>5, <1>6, <1>7, <1>8, <1>9, <1>10, <1>11 DEF Next

\* Every variable keeps its type; the write queue never exceeds its depth and
\* never holds a message that no drain will write.
THEOREM LinkTypeCorrect == Spec => []TypeOK
<1>1. Init => QueueInv
  <2>1. Len(<<>>) = 0 /\ 0 <= QueueMax /\ 0 \in 0..MaxRequests /\ 0 \in 0..MaxNotes
    BY LinkAssumption
  <2>2. QED BY <2>1 DEF Init, QueueInv
<1>2. LInv /\ QueueInv /\ [Next]_vars => QueueInv'
  BY QueueStep DEF LInv
<1>3. LInv /\ QueueInv => TypeOK
  BY DEF LInv, QueueInv, SupInv, LinkTypeOK, TypeOK
<1>4. QED BY <1>1, <1>2, <1>3, LInvCorrect, PTL DEF Spec

----------------------------------------------------------------------------
(* PeerConnections: the invariant, as a predicate of a state n of the      *)
(* sockets and maps and of the connections made, mk.                       *)

\* The entry of a key is a socket of that key, which is listened to.
Entries(n) ==
  \A k \in Keys : n.active[k] # None =>
    /\ n.sock[n.active[k]].key = k /\ n.sock[n.active[k]].listening
    /\ n.sock[n.active[k]].queue # -1

\* The timers, waits and listeners of a socket end in this order; what has a key
\* has a device.
Orderly(s) ==
  /\ s.waiting => s.listening
  /\ s.listening => s.state \in {"open", "destroyed"}
  /\ ~s.listening => s.missed = -1 /\ ~s.timers
  /\ s.keyed => s.key # None /\ s.device # None
  /\ s.listening => s.key # None /\ s.device # None

\* The key of an identified device is that of its tracked connection.
Identified(n) ==
  \A c \in Sockets :
    Active(n, c) /\ n.sock[c].known => n.keyOf[n.sock[c].device] = n.sock[c].key

\* With a key of its own, a socket loses its entry with its queue and its life.
Alone(n) ==
  \A c \in Sockets :
    /\ ~Active(n, c) => n.sock[c].queue = -1
    /\ n.sock[c].key \in Sockets => n.sock[c].key = c
    /\ n.sock[c].state = "open" /\ n.sock[c].listening => Active(n, c)

Counted(n, mk) ==
  \A k \in PeerKeys : mk[k] = n.attempts[k] + (IF n.active[k] # None THEN 1 ELSE 0)

PeersInv(n, mk) ==
  /\ n \in Net /\ mk \in [PeerKeys -> Nat]
  /\ Entries(n) /\ (\A c \in Sockets : Orderly(n.sock[c])) /\ Identified(n)
  /\ ~SameMillisecond => Alone(n)
  /\ Counted(n, mk)

\* Keys, sockets and devices are told from None, peers' keys from anonymous ones.
LEMMA KeysDiffer ==
  /\ None \notin Sockets /\ None \notin Keys /\ None \notin PeerKeys /\ None \notin Devices
  /\ PeerKeys \cap Sockets = {} /\ Sockets \subseteq Keys /\ PeerKeys \subseteq Keys
  /\ None = 0 /\ None \in 0..MaxSockets
BY PeersAssumption DEF None, Sockets, Keys

\* The entry of a key is the active socket of the key, and there is no other.
LEMMA EntryIsActive ==
  ASSUME NEW n \in Net, Entries(n)
  PROVE  /\ \A k \in Keys : n.active[k] # None =>
              n.active[k] \in Sockets /\ Active(n, n.active[k])
         /\ \A c \in Sockets : Active(n, c) =>
              /\ n.sock[c].key \in Keys /\ n.active[n.sock[c].key] = c
              /\ n.sock[c].listening /\ n.sock[c].queue # -1
BY KeysDiffer DEF Net, Entries, Active, SocketStates

\* What a step that changes sockets in place may do: neither key nor device nor
\* listeners change, a queue stays a queue, only what is listened to waits.
Touched(n, t) ==
  /\ t \in Net
  /\ t.active = n.active /\ t.keyOf = n.keyOf /\ t.attempts = n.attempts
  /\ \A c \in Sockets :
       /\ t.sock[c].key = n.sock[c].key /\ t.sock[c].keyed = n.sock[c].keyed
       /\ t.sock[c].device = n.sock[c].device /\ t.sock[c].known = n.sock[c].known
       /\ t.sock[c].listening = n.sock[c].listening
       /\ t.sock[c].queue = -1 <=> n.sock[c].queue = -1
       /\ \/ t.sock[c].state = n.sock[c].state
          \/ n.sock[c].state = "open" /\ t.sock[c].state = "destroyed"
       /\ Orderly(t.sock[c])

LEMMA TouchedHolds ==
  ASSUME NEW n, NEW mk, PeersInv(n, mk), NEW t, Touched(n, t)
  PROVE  PeersInv(t, mk)
<1>1. \A c \in Sockets : Active(t, c) <=> Active(n, c)
  BY DEF Touched, Active
<1>2. Entries(t)
  BY KeysDiffer DEF Touched, Entries, PeersInv, Net
<1>3. Identified(t)
  BY <1>1 DEF Touched, Identified, PeersInv
<1>4. ~SameMillisecond => Alone(t)
  BY <1>1 DEF Touched, Alone, PeersInv
<1>5. Counted(t, mk)
  BY DEF Touched, Counted, PeersInv
<1>6. QED BY <1>2, <1>3, <1>4, <1>5 DEF Touched, PeersInv

\* What a step does that takes the sockets cs out of the maps: the entries that
\* they hold go and count as disconnects, with the queues; a device loses its
\* key only with the socket that has it; nothing is open to be listened to.
Taken(n, t, cs) ==
  /\ t \in Net /\ cs \subseteq Sockets
  /\ t.active = [k \in Keys |-> IF k \in KeysHeld(cs, n) THEN None ELSE n.active[k]]
  /\ t.attempts = [k \in PeerKeys |-> IF k \in KeysHeld(cs, n) THEN n.attempts[k] + 1
                                      ELSE n.attempts[k]]
  /\ \A d \in Devices :
       \/ t.keyOf[d] = n.keyOf[d]
       \/ \E c \in cs : Active(n, c) /\ n.sock[c].device = d /\ n.sock[c].key = n.keyOf[d]
  /\ \A c \in Sockets \ cs : t.sock[c] = n.sock[c]
  /\ \A c \in cs :
       /\ t.sock[c].key = n.sock[c].key
       /\ Active(n, c) \/ n.sock[c].queue = -1 => t.sock[c].queue = -1
       /\ t.sock[c].state = "open" => ~t.sock[c].listening

Left(n, t, cs) == Taken(n, t, cs) /\ \A c \in cs : Orderly(t.sock[c])

LEMMA LeftHolds ==
  ASSUME NEW n, NEW mk, PeersInv(n, mk), NEW t, NEW cs, Left(n, t, cs)
  PROVE  PeersInv(t, mk)
<1>1. n \in Net /\ Entries(n)
  BY DEF PeersInv
<1>2. t \in Net /\ cs \subseteq Sockets /\ \A c \in Sockets : t.sock[c].key = n.sock[c].key
  BY DEF Left, Taken
<1>3. \A c \in Sockets : Active(t, c) <=> Active(n, c) /\ c \notin cs
  <2> TAKE c \in Sockets
  <2>1. ASSUME Active(n, c), c \notin cs PROVE Active(t, c)
    <3>1. n.sock[c].key \in Keys /\ n.active[n.sock[c].key] = c
      BY <1>1, <2>1, EntryIsActive
    <3>2. n.sock[c].key \notin KeysHeld(cs, n)
      BY <2>1, <3>1 DEF KeysHeld, Active
    <3>3. t.active[n.sock[c].key] = c
      BY <3>1, <3>2 DEF Left, Taken
    <3>4. QED BY <1>2, <2>1, <3>3 DEF Active
  <2>2. ASSUME Active(t, c) PROVE Active(n, c) /\ c \notin cs
    <3>1. n.sock[c].key \in Keys /\ n.sock[c].key # None /\ t.active[n.sock[c].key] = c
      BY <1>1, <1>2, <2>2 DEF Active, Net, SocketStates
    <3>2. n.sock[c].key \notin KeysHeld(cs, n) /\ n.active[n.sock[c].key] = c
      BY <3>1, KeysDiffer DEF Left, Taken
    <3>3. Active(n, c)
      BY <3>1, <3>2 DEF Active
    <3>4. c \notin cs
      BY <3>2, <3>3 DEF KeysHeld
    <3>5. QED BY <3>3, <3>4
  <2>3. QED BY <2>1, <2>2
<1>4. Entries(t)
  <2> SUFFICES ASSUME NEW k \in Keys, t.active[k] # None
               PROVE  /\ t.sock[t.active[k]].key = k /\ t.sock[t.active[k]].listening
                      /\ t.sock[t.active[k]].queue # -1
    BY DEF Entries
  <2> DEFINE c == t.active[k]
  <2>1. k \notin KeysHeld(cs, n) /\ n.active[k] = c
    BY DEF Left, Taken
  <2>2. /\ c \in Sockets /\ Active(n, c) /\ n.sock[c].key = k
        /\ n.sock[c].listening /\ n.sock[c].queue # -1
    BY <1>1, <2>1, EntryIsActive DEF Entries
  <2>3. c \notin cs
    BY <2>1, <2>2 DEF KeysHeld
  <2>4. t.sock[c] = n.sock[c]
    BY <2>2, <2>3 DEF Left, Taken
  <2>5. QED BY <2>2, <2>4
<1>5. \A c \in Sockets : Orderly(t.sock[c])
  BY DEF Left, Taken, PeersInv
<1>6. Identified(t)
  <2> SUFFICES ASSUME NEW c \in Sockets, Active(t, c), t.sock[c].known
               PROVE  t.keyOf[t.sock[c].device] = t.sock[c].key
    BY DEF Identified
  <2>1. Active(n, c) /\ c \notin cs /\ t.sock[c] = n.sock[c]
    BY <1>3 DEF Left, Taken
  <2>2. n.keyOf[n.sock[c].device] = n.sock[c].key
    BY <2>1 DEF PeersInv, Identified
  <2>3. n.sock[c].device \in Devices
    <3>1. n.sock[c].device # None
      BY <1>1, <2>1, EntryIsActive DEF PeersInv, Orderly
    <3>2. QED BY <1>1, <3>1 DEF Net, SocketStates
  <2>4. ASSUME NEW b \in cs, Active(n, b), n.sock[b].key = n.sock[c].key PROVE FALSE
    BY <2>1, <2>4 DEF Active
  <2>5. t.keyOf[n.sock[c].device] = n.keyOf[n.sock[c].device]
    BY <2>2, <2>3, <2>4 DEF Left, Taken
  <2>6. QED BY <2>1, <2>2, <2>5
<1>7. ~SameMillisecond => Alone(t)
  <2> SUFFICES ASSUME ~SameMillisecond, NEW c \in Sockets
               PROVE  /\ ~Active(t, c) => t.sock[c].queue = -1
                      /\ t.sock[c].key \in Sockets => t.sock[c].key = c
                      /\ t.sock[c].state = "open" /\ t.sock[c].listening => Active(t, c)
    BY DEF Alone
  <2>1. /\ ~Active(n, c) => n.sock[c].queue = -1
        /\ n.sock[c].key \in Sockets => n.sock[c].key = c
        /\ n.sock[c].state = "open" /\ n.sock[c].listening => Active(n, c)
    BY DEF PeersInv, Alone
  <2>2. CASE c \in cs
    BY <1>2, <1>3, <2>1, <2>2 DEF Left, Taken
  <2>3. CASE c \notin cs
    BY <1>3, <2>1, <2>3 DEF Left, Taken
  <2>4. QED BY <2>2, <2>3
<1>8. Counted(t, mk)
  <2> SUFFICES ASSUME NEW k \in PeerKeys
               PROVE  mk[k] = t.attempts[k] + (IF t.active[k] # None THEN 1 ELSE 0)
    BY DEF Counted
  <2>1. k \in Keys /\ n.attempts[k] \in Nat
    BY <1>1, KeysDiffer DEF Net
  <2>2. mk[k] = n.attempts[k] + (IF n.active[k] # None THEN 1 ELSE 0)
    BY DEF PeersInv, Counted
  <2>3. k \in KeysHeld(cs, n) => n.active[k] # None
    BY <1>2, KeysDiffer DEF KeysHeld, Active
  <2>4. QED BY <2>1, <2>2, <2>3 DEF Left, Taken
<1>9. QED BY <1>2, <1>4, <1>5, <1>6, <1>7, <1>8 DEF PeersInv

----------------------------------------------------------------------------
(* The helpers.                                                            *)

\* What the helpers make of a socket.
LEMMA EvictedSocket ==
  ASSUME NEW s \in SocketStates
  PROVE  /\ Destroyed(s) \in SocketStates /\ Destroyed(s).state # "open"
         /\ Evicted(s) \in SocketStates /\ Evicted(s).state # "open"
         /\ Evicted(s).key = s.key /\ Evicted(s).queue = -1
         /\ Orderly(s) => Orderly(Evicted(s)) /\ Orderly(Destroyed(s))
         /\ Destroyed(s) = [s EXCEPT !.state = Destroyed(s).state]
<1>1. /\ Destroyed(s) \in SocketStates /\ Destroyed(s).state # "open"
      /\ Destroyed(s).state = IF s.state = "open" THEN "destroyed" ELSE s.state
      /\ Destroyed(s) = [s EXCEPT !.state = Destroyed(s).state]
  BY DEF Destroyed, SocketStates
<1> DEFINE q == Destroyed(s).state
<1>2. q \in {"new", "open", "destroyed", "closed"} /\ q # "open"
      /\ q = IF s.state = "open" THEN "destroyed" ELSE s.state
  BY <1>1 DEF SocketStates
<1>3. /\ Destroyed(s) = [s EXCEPT !.state = q]
      /\ Evicted(s) = [s EXCEPT !.state = q, !.missed = -1, !.queue = -1]
  BY <1>1 DEF Evicted, SocketStates
<1> HIDE DEF q
<1>4. Orderly(s) => Orderly([s EXCEPT !.state = q])
  BY <1>2 DEF Orderly, SocketStates
<1>5. Orderly(s) => Orderly([s EXCEPT !.state = q, !.missed = -1, !.queue = -1])
  BY <1>2 DEF Orderly, SocketStates
<1>6. /\ Evicted(s) \in SocketStates /\ Evicted(s).state # "open"
      /\ Evicted(s).key = s.key /\ Evicted(s).queue = -1
  BY <1>2, <1>3 DEF SocketStates
<1>7. QED BY <1>1, <1>3, <1>4, <1>5, <1>6

LEMMA StrippedSocket ==
  ASSUME NEW s \in SocketStates
  PROVE  /\ Silenced(s) \in SocketStates /\ ~Silenced(s).listening
         /\ Silenced(s).key = s.key /\ Silenced(s).queue = s.queue
         /\ Silenced(s).missed = -1 /\ ~Silenced(s).timers
         /\ Orderly(s) /\ ~s.waiting => Orderly(Silenced(s))
         /\ Stripped(s) \in SocketStates /\ ~Stripped(s).listening
         /\ Stripped(s).key = s.key /\ Stripped(s).queue = -1
         /\ Orderly(Stripped(s))
BY DEF Silenced, Stripped, SocketStates, Orderly

\* An eviction takes the sockets out.
LEMMA EvictLeaves ==
  ASSUME NEW n, NEW mk, PeersInv(n, mk), NEW cs \in SUBSET Sockets
  PROVE  Left(n, Evict(cs, n), cs)
<1> DEFINE t == Evict(cs, n)
           a == [k \in Keys |-> IF k \in KeysHeld(cs, n) THEN None ELSE n.active[k]]
           g == [k \in PeerKeys |-> IF k \in KeysHeld(cs, n) THEN n.attempts[k] + 1
                                   ELSE n.attempts[k]]
           z == [c \in Sockets |-> IF c \in cs THEN Evicted(n.sock[c]) ELSE n.sock[c]]
<1>1. n \in Net
  BY DEF PeersInv
<1>2. \A c \in Sockets : n.sock[c] \in SocketStates /\ Orderly(n.sock[c])
  BY DEF PeersInv, Net
<1>3. /\ a \in [Keys -> Sockets \cup {None}] /\ g \in [PeerKeys -> Nat]
      /\ z \in [Sockets -> SocketStates]
  <2>1. z \in [Sockets -> SocketStates]
    BY <1>2, EvictedSocket
  <2>2. a \in [Keys -> Sockets \cup {None}] /\ g \in [PeerKeys -> Nat]
    BY <1>1 DEF Net
  <2>3. QED BY <2>1, <2>2
<1>4. t = [n EXCEPT !.active = a, !.sock = z, !.attempts = g]
  BY DEF Evict, EvictedOf, Delete, RecordDisconnect
<1>5. /\ \A c \in cs : z[c] = Evicted(n.sock[c])
      /\ \A c \in Sockets \ cs : z[c] = n.sock[c]
  OBVIOUS
<1> HIDE DEF a, g, z, t
<1>6. /\ t \in Net /\ t.active = a /\ t.attempts = g /\ t.keyOf = n.keyOf /\ t.sock = z
  BY <1>1, <1>3, <1>4 DEF Net
<1>7. Left(n, t, cs)
  BY <1>2, <1>5, <1>6, EvictedSocket DEF Left, Taken, a, g
<1>8. QED BY <1>7 DEF t

\* So do a teardown, and a drop.
LEMMA TeardownTakes ==
  ASSUME NEW n, NEW mk, PeersInv(n, mk), NEW cs \in SUBSET Sockets
  PROVE  /\ Taken(n, Teardown(cs, n), cs)
         /\ \A c \in cs :
              /\ Active(n, c) => Teardown(cs, n).sock[c] = Stripped(n.sock[c])
              /\ ~Active(n, c) => Teardown(cs, n).sock[c] = Silenced(n.sock[c])
<1> DEFINE t == Teardown(cs, n)
           loses(d) == \E c \in cs : /\ Active(n, c) /\ n.sock[c].known
                                     /\ n.sock[c].device = d /\ n.sock[c].key = n.keyOf[d]
           a == [k \in Keys |-> IF k \in KeysHeld(cs, n) THEN None ELSE n.active[k]]
           g == [k \in PeerKeys |-> IF k \in KeysHeld(cs, n) THEN n.attempts[k] + 1
                                   ELSE n.attempts[k]]
           y == [d \in Devices |-> IF loses(d) THEN None ELSE n.keyOf[d]]
           z == [c \in Sockets |-> IF c \notin cs THEN n.sock[c]
                                  ELSE IF Active(n, c) THEN Stripped(n.sock[c])
                                  ELSE Silenced(n.sock[c])]
<1>1. n \in Net
  BY DEF PeersInv
<1>2. \A c \in Sockets : n.sock[c] \in SocketStates
  BY <1>1 DEF Net
<1>3. /\ a \in [Keys -> Sockets \cup {None}] /\ g \in [PeerKeys -> Nat]
      /\ y \in [Devices -> Keys \cup {None}] /\ z \in [Sockets -> SocketStates]
  <2>1. z \in [Sockets -> SocketStates]
    BY <1>2, StrippedSocket
  <2>2. a \in [Keys -> Sockets \cup {None}] /\ g \in [PeerKeys -> Nat]
    BY <1>1 DEF Net
  <2>3. y \in [Devices -> Keys \cup {None}]
    <3> HIDE DEF loses
    <3>1. QED BY <1>1 DEF Net
  <2>4. QED BY <2>1, <2>2, <2>3
<1>4. t = [n EXCEPT !.active = a, !.attempts = g, !.sock = z, !.keyOf = y]
  BY DEF Teardown, Delete, RecordDisconnect
<1>5. /\ \A c \in cs : /\ Active(n, c) => z[c] = Stripped(n.sock[c])
                       /\ ~Active(n, c) => z[c] = Silenced(n.sock[c])
      /\ \A c \in Sockets \ cs : z[c] = n.sock[c]
      /\ \A d \in Devices : y[d] = n.keyOf[d] \/ loses(d)
  OBVIOUS
<1> HIDE DEF a, g, y, z, t
<1>6. t \in Net /\ t.active = a /\ t.attempts = g /\ t.keyOf = y /\ t.sock = z
  BY <1>1, <1>3, <1>4 DEF Net
<1>7. \A c \in cs :
        /\ t.sock[c].key = n.sock[c].key /\ ~t.sock[c].listening
        /\ Active(n, c) \/ n.sock[c].queue = -1 => t.sock[c].queue = -1
  <2> TAKE c \in cs
  <2>1. n.sock[c] \in SocketStates
    BY <1>2
  <2>2. CASE Active(n, c)
    <3>1. t.sock[c] = Stripped(n.sock[c])
      BY <1>5, <1>6, <2>2
    <3>2. /\ Stripped(n.sock[c]).key = n.sock[c].key /\ ~Stripped(n.sock[c]).listening
          /\ Stripped(n.sock[c]).queue = -1
      BY <2>1, StrippedSocket
    <3>3. QED BY <3>1, <3>2
  <2>3. CASE ~Active(n, c)
    BY <1>5, <1>6, <2>1, <2>3, StrippedSocket
  <2>4. QED BY <2>2, <2>3
<1>8. Taken(n, t, cs)
  BY <1>5, <1>6, <1>7 DEF Taken, a, g
<1>9. QED BY <1>5, <1>6, <1>8 DEF t

LEMMA DropLeaves ==
  ASSUME NEW n, NEW mk, PeersInv(n, mk), NEW cs \in SUBSET Tracked(n)
  PROVE  Left(n, ForceDrop(cs, n), cs)
<1> DEFINE m == Teardown(cs, n)
           t == ForceDrop(cs, n)
<1>1. cs \subseteq Sockets /\ \A c \in cs : Active(n, c)
  BY DEF Tracked
<1>2. Left(n, m, cs)
  <2>1. Taken(n, m, cs) /\ \A c \in cs : m.sock[c] = Stripped(n.sock[c])
    BY <1>1, TeardownTakes
  <2>2. \A c \in cs : n.sock[c] \in SocketStates
    BY <1>1 DEF PeersInv, Net
  <2>3. QED BY <2>1, <2>2, StrippedSocket DEF Left
<1>3. n \in Net /\ m \in Net
  BY <1>2 DEF PeersInv, Left, Taken
<1> HIDE DEF m
<1>4. /\ t.active = m.active /\ t.attempts = m.attempts /\ t.keyOf = m.keyOf
      /\ t.sock = [c \in Sockets |-> IF c \in cs THEN Destroyed(m.sock[c]) ELSE m.sock[c]]
      /\ t = [sock |-> t.sock, active |-> t.active, keyOf |-> t.keyOf, attempts |-> t.attempts]
  BY <1>3 DEF ForceDrop, m, Net
<1> HIDE DEF t
<1>5. \A c \in Sockets : m.sock[c] \in SocketStates
  BY <1>3 DEF Net
<1>6. t \in Net
  <2>1. t.sock \in [Sockets -> SocketStates]
    BY <1>4, <1>5, EvictedSocket
  <2>2. QED BY <1>3, <1>4, <2>1 DEF Net
<1>7. \A c \in cs :
                     /\ t.sock[c].state # "open" /\ Orderly(t.sock[c])
                     /\ t.sock[c].key = m.sock[c].key /\ t.sock[c].queue = m.sock[c].queue
  <2> TAKE c \in cs
  <2>1. t.sock[c] = Destroyed(m.sock[c]) /\ m.sock[c] \in SocketStates /\ Orderly(m.sock[c])
    BY <1>1, <1>2, <1>4, <1>5 DEF Left, Taken
  <2>2. /\ Destroyed(m.sock[c]).key = m.sock[c].key
        /\ Destroyed(m.sock[c]).queue = m.sock[c].queue
    BY <2>1 DEF Destroyed, SocketStates
  <2>3. QED BY <2>1, <2>2, EvictedSocket
<1>8. \A c \in Sockets \ cs : t.sock[c] = m.sock[c]
  BY <1>4
<1>9. \A c \in cs :
        /\ t.sock[c].key = n.sock[c].key
        /\ Active(n, c) \/ n.sock[c].queue = -1 => t.sock[c].queue = -1
  BY <1>2, <1>7 DEF Left, Taken
<1>10. Taken(n, t, cs)
  <2>1. /\ t.active = [k \in Keys |-> IF k \in KeysHeld(cs, n) THEN None ELSE n.active[k]]
        /\ t.attempts = [k \in PeerKeys |-> IF k \in KeysHeld(cs, n) THEN n.attempts[k] + 1
                                            ELSE n.attempts[k]]
    BY <1>2, <1>4 DEF Left, Taken
  <2>2. \A d \in Devices :
          \/ t.keyOf[d] = n.keyOf[d]
          \/ \E c \in cs : Active(n, c) /\ n.sock[c].device = d /\ n.sock[c].key = n.keyOf[d]
    BY <1>2, <1>4 DEF Left, Taken
  <2>3. \A c \in Sockets \ cs : t.sock[c] = n.sock[c]
    BY <1>2, <1>8 DEF Left, Taken
  <2>4. QED BY <1>1, <1>6, <1>7, <1>9, <2>1, <2>2, <2>3 DEF Taken
<1>11. Left(n, t, cs)
  BY <1>7, <1>10 DEF Left
<1>12. QED BY <1>11 DEF t

\* The cut of anonymous entries: it records nothing, nor would the backoff.
LEMMA CutLeaves ==
  ASSUME NEW n, NEW mk, PeersInv(n, mk), NEW ks \in SUBSET Sockets
  PROVE  Left(n, CutAnonymous(ks, n), {c \in Sockets : \E k \in ks : n.active[k] = c})
<1> DEFINE t == CutAnonymous(ks, n)
           cs == {c \in Sockets : \E k \in ks : n.active[k] = c}
<1>1. n \in Net /\ Entries(n)
  BY DEF PeersInv
<1>2. \A k \in Keys : k \in KeysHeld(cs, n) <=> k \in ks /\ n.active[k] # None
  <2> TAKE k \in Keys
  <2>1. ASSUME k \in ks, n.active[k] # None PROVE k \in KeysHeld(cs, n)
    BY <1>1, <2>1, EntryIsActive DEF KeysHeld, Entries
  <2>2. ASSUME k \in KeysHeld(cs, n) PROVE k \in ks /\ n.active[k] # None
    <3>1. PICK c \in cs : Active(n, c) /\ k = n.sock[c].key
      BY <2>2 DEF KeysHeld
    <3>2. PICK j \in ks : n.active[j] = c
      BY <3>1
    <3>3. n.active[k] = c /\ c # None /\ n.sock[c].key = j
      BY <1>1, <3>1, <3>2, KeysDiffer, EntryIsActive DEF Entries
    <3>4. QED BY <3>1, <3>2, <3>3
  <2>3. QED BY <2>1, <2>2
<1> DEFINE a == [k \in Keys |-> IF k \in ks THEN None ELSE n.active[k]]
           z == [c \in Sockets |-> IF c \in cs THEN Evicted(n.sock[c]) ELSE n.sock[c]]
<1>3. t = [n EXCEPT !.active = a, !.sock = z]
  BY DEF CutAnonymous, EvictedOf, Delete
<1>4. \A c \in Sockets : n.sock[c] \in SocketStates /\ Orderly(n.sock[c])
  BY DEF PeersInv, Net
<1>5. a \in [Keys -> Sockets \cup {None}] /\ z \in [Sockets -> SocketStates]
  <2> HIDE DEF cs
  <2>1. z \in [Sockets -> SocketStates]
    BY <1>4, EvictedSocket
  <2>2. a \in [Keys -> Sockets \cup {None}]
    BY <1>1 DEF Net
  <2>3. QED BY <2>1, <2>2
<1>6. cs \subseteq Sockets
  OBVIOUS
<1> HIDE DEF cs, t
<1>7. a = [k \in Keys |-> IF k \in KeysHeld(cs, n) THEN None ELSE n.active[k]]
  <2>1. \A k \in Keys : (IF k \in ks THEN None ELSE n.active[k])
                        = (IF k \in KeysHeld(cs, n) THEN None ELSE n.active[k])
    BY <1>2
  <2>2. QED BY <2>1
<1>8. n.attempts = [k \in PeerKeys |-> IF k \in KeysHeld(cs, n) THEN n.attempts[k] + 1
                                      ELSE n.attempts[k]]
  <2>1. \A k \in PeerKeys : k \notin KeysHeld(cs, n)
    BY <1>2, KeysDiffer
  <2>2. n.attempts = [k \in PeerKeys |-> n.attempts[k]]
    BY <1>1 DEF Net
  <2>3. QED BY <2>1, <2>2
<1>9. /\ \A c \in cs : z[c] = Evicted(n.sock[c])
      /\ \A c \in Sockets \ cs : z[c] = n.sock[c]
  BY <1>6
<1> HIDE DEF a, z
<1>10. /\ t \in Net /\ t.active = a /\ t.sock = z
       /\ t.keyOf = n.keyOf /\ t.attempts = n.attempts
  BY <1>1, <1>3, <1>5 DEF Net
<1>11. Left(n, t, cs)
  BY <1>4, <1>6, <1>7, <1>8, <1>9, <1>10, EvictedSocket DEF Left, Taken
<1>12. QED BY <1>11 DEF t, cs

\* One socket changes in place.
LEMMA SocketSet ==
  ASSUME NEW n \in Net, NEW c \in Sockets, NEW s \in SocketStates
  PROVE  LET t == [n EXCEPT !.sock[c] = s] IN
         /\ t \in Net /\ t.active = n.active /\ t.keyOf = n.keyOf
         /\ t.attempts = n.attempts /\ t.sock[c] = s
         /\ t.sock = [n.sock EXCEPT ![c] = s]
         /\ \A b \in Sockets \ {c} : t.sock[b] = n.sock[b]
BY DEF Net

LEMMA TouchHolds ==
  ASSUME NEW n, NEW mk, PeersInv(n, mk), NEW c \in Sockets, NEW s \in SocketStates,
         s.key = n.sock[c].key, s.keyed = n.sock[c].keyed,
         s.device = n.sock[c].device, s.known = n.sock[c].known,
         s.listening = n.sock[c].listening, s.queue = -1 <=> n.sock[c].queue = -1,
         s.state = n.sock[c].state \/ (n.sock[c].state = "open" /\ s.state = "destroyed"),
         Orderly(s)
  PROVE  PeersInv([n EXCEPT !.sock[c] = s], mk)
<1> DEFINE t == [n EXCEPT !.sock[c] = s]
<1>1. n \in Net /\ \A b \in Sockets : Orderly(n.sock[b])
  BY DEF PeersInv
<1>2. /\ t \in Net /\ t.active = n.active /\ t.keyOf = n.keyOf
      /\ t.attempts = n.attempts /\ t.sock[c] = s
      /\ \A b \in Sockets \ {c} : t.sock[b] = n.sock[b]
  BY <1>1, SocketSet
<1> HIDE DEF t
<1>3. Touched(n, t)
  BY <1>1, <1>2 DEF Touched
<1>4. PeersInv(t, mk)
  BY <1>3, TouchedHolds
<1>5. QED BY <1>4 DEF t

\* A write to a socket that is listened to.
LEMMA WritesHold ==
  ASSUME NEW n, NEW mk, PeersInv(n, mk), NEW c \in Sockets, n.sock[c].listening,
         NEW t \in Writes(c, n)
  PROVE  PeersInv(t, mk)
<1> DEFINE s == n.sock[c]
<1>1. n \in Net /\ s \in SocketStates /\ Orderly(s) /\ n.sock \in [Sockets -> SocketStates]
  BY DEF PeersInv, Net
<1>2. CASE s.queue = -1
  <2>1. t = n
    BY <1>2 DEF Writes
  <2>2. QED BY <2>1
<1>3. CASE s.queue = QueueDepth
  <2>1. QueueDepth # -1
    BY PeersAssumption
  <2>2. t = Evict({c}, n)
    BY <1>3, <2>1 DEF Writes
  <2>3. QED BY <2>2, EvictLeaves, LeftHolds
<1>4. CASE s.queue # -1 /\ s.queue # QueueDepth
  <2>1. s.queue + 1 \in 0..QueueDepth /\ s.queue + 1 # -1 /\ 0 \in 0..QueueDepth
    BY <1>1, <1>4, PeersAssumption DEF SocketStates
  <2>2. \/ t = [n EXCEPT !.sock[c].queue = @ + 1]
        \/ t = [n EXCEPT !.sock[c].queue = 0]
        \/ t = [n EXCEPT !.sock[c].queue = 0, !.sock[c].waiting = TRUE]
    BY <1>4 DEF Writes
  <2>3. \/ t = [n EXCEPT !.sock[c] = [s EXCEPT !.queue = s.queue + 1]]
        \/ t = [n EXCEPT !.sock[c] = [s EXCEPT !.queue = 0]]
        \/ t = [n EXCEPT !.sock[c] = [s EXCEPT !.queue = 0, !.waiting = TRUE]]
    BY <1>1, <2>2 DEF Net
  <2>4. ASSUME NEW q \in 0..QueueDepth, NEW w \in BOOLEAN,
               t = [n EXCEPT !.sock[c] = [s EXCEPT !.queue = q, !.waiting = w]]
        PROVE  PeersInv(t, mk)
    <3> DEFINE z == [s EXCEPT !.queue = q, !.waiting = w]
    <3>1. /\ z \in SocketStates /\ z.key = s.key /\ z.keyed = s.keyed
          /\ z.device = s.device /\ z.known = s.known /\ z.listening = s.listening
          /\ z.state = s.state /\ z.queue # -1 /\ Orderly(z)
      <4>1. /\ z \in SocketStates /\ z.key = s.key /\ z.keyed = s.keyed
            /\ z.device = s.device /\ z.known = s.known /\ z.listening = s.listening
            /\ z.state = s.state /\ z.queue = q
            /\ z.missed = s.missed /\ z.timers = s.timers
        BY <1>1 DEF SocketStates
      <4> HIDE DEF z
      <4>2. QED BY <1>1, <4>1 DEF Orderly
    <3> HIDE DEF z
    <3>2. t = [n EXCEPT !.sock[c] = z]
      BY <2>4 DEF z
    <3>3. QED BY <1>4, <3>1, <3>2, TouchHolds
  <2>5. /\ [s EXCEPT !.queue = s.queue + 1] =
               [s EXCEPT !.queue = s.queue + 1, !.waiting = s.waiting]
        /\ [s EXCEPT !.queue = 0] = [s EXCEPT !.queue = 0, !.waiting = s.waiting]
        /\ s.waiting \in BOOLEAN
    BY <1>1 DEF SocketStates
  <2>6. CASE t = [n EXCEPT !.sock[c] = [s EXCEPT !.queue = s.queue + 1]]
    BY <2>1, <2>4, <2>5, <2>6
  <2>7. CASE t = [n EXCEPT !.sock[c] = [s EXCEPT !.queue = 0]]
    BY <2>1, <2>4, <2>5, <2>7
  <2>8. CASE t = [n EXCEPT !.sock[c] = [s EXCEPT !.queue = 0, !.waiting = TRUE]]
    BY <2>1, <2>4, <2>8
  <2>9. QED BY <2>3, <2>6, <2>7, <2>8
<1>5. QED BY <1>2, <1>3, <1>4

\* A new connection.
LEMMA AcceptedHolds ==
  ASSUME NEW n, NEW mk, PeersInv(n, mk), NEW c \in Sockets, n.sock[c].state = "new",
         NEW k \in Keys, NEW d \in Devices, NEW mk2,
         \/ k \in PeerKeys /\ n.active[k] = None /\ mk2 = [mk EXCEPT ![k] = @ + 1]
         \/ k \in Sockets /\ mk2 = mk /\ (k = c \/ SameMillisecond)
  PROVE  PeersInv(Accepted(c, k, d, n), mk2)
<1> DEFINE t == Accepted(c, k, d, n)
           z == [Fresh EXCEPT !.state = "open", !.key = k, !.keyed = TRUE,
                   !.device = d, !.listening = TRUE, !.queue = 0,
                   !.missed = 0, !.timers = TRUE]
<1>1. n \in Net /\ Entries(n)
  BY DEF PeersInv
<1>2. /\ z \in SocketStates /\ Orderly(z) /\ z.key = k /\ ~z.known
      /\ z.listening /\ z.queue # -1
  <2>1. Fresh \in SocketStates /\ ~Fresh.waiting /\ ~Fresh.known
    BY PeersAssumption DEF Fresh, SocketStates, None
  <2>2. 0 \in 0..QueueDepth /\ 0 \in 0..MaxMissed /\ k # None /\ d # None
    BY PeersAssumption, KeysDiffer
  <2>3. /\ z \in SocketStates /\ z.state = "open" /\ z.key = k /\ z.keyed /\ z.device = d
        /\ z.listening /\ z.queue = 0 /\ z.known = Fresh.known
    BY <2>1, <2>2 DEF SocketStates
  <2> HIDE DEF z
  <2>4. QED BY <2>1, <2>2, <2>3 DEF Orderly
<1> HIDE DEF z
<1>3. /\ t \in Net /\ t.keyOf = n.keyOf /\ t.attempts = n.attempts
      /\ t.active = [n.active EXCEPT ![k] = c] /\ t.sock = [n.sock EXCEPT ![c] = z]
  <2>1. t = [n EXCEPT !.active = [n.active EXCEPT ![k] = c],
                      !.sock = [n.sock EXCEPT ![c] = z]]
    BY <1>1 DEF Accepted, z, Net
  <2> DEFINE a == [n.active EXCEPT ![k] = c]
             y == [n.sock EXCEPT ![c] = z]
  <2>2. a \in [Keys -> Sockets \cup {None}] /\ y \in [Sockets -> SocketStates]
    BY <1>1, <1>2 DEF Net
  <2>3. t = [n EXCEPT !.active = a, !.sock = y]
    BY <2>1
  <2> HIDE DEF a, y, t
  <2>4. /\ t \in Net /\ t.keyOf = n.keyOf /\ t.attempts = n.attempts
        /\ t.active = a /\ t.sock = y
    BY <1>1, <2>2, <2>3 DEF Net
  <2>5. QED BY <2>4 DEF a, y
<1> HIDE DEF t
<1>4. /\ t.active[k] = c /\ t.sock[c] = z
      /\ \A j \in Keys \ {k} : t.active[j] = n.active[j]
      /\ \A b \in Sockets \ {c} : t.sock[b] = n.sock[b]
  BY <1>1, <1>3 DEF Net
<1>5. ~n.sock[c].listening
  BY DEF PeersInv, Orderly
<1>6. \A j \in Keys : n.active[j] # c
  BY <1>1, <1>5, KeysDiffer DEF Entries
<1>7. Entries(t)
  <2> SUFFICES ASSUME NEW j \in Keys, t.active[j] # None
               PROVE  /\ t.sock[t.active[j]].key = j /\ t.sock[t.active[j]].listening
                      /\ t.sock[t.active[j]].queue # -1
    BY DEF Entries
  <2>1. CASE j = k
    BY <1>2, <1>4, <2>1
  <2>2. CASE j # k
    <3>1. t.active[j] = n.active[j] /\ n.active[j] # c /\ n.active[j] \in Sockets
      BY <1>1, <1>4, <1>6, <2>2 DEF Net
    <3>2. t.sock[t.active[j]] = n.sock[n.active[j]]
      BY <1>4, <3>1
    <3>3. QED BY <1>1, <3>1, <3>2 DEF Entries
  <2>3. QED BY <2>1, <2>2
<1>8. \A b \in Sockets : Orderly(t.sock[b])
  BY <1>2, <1>4 DEF PeersInv
<1>9. \A b \in Sockets \ {c} : /\ Active(t, b) => Active(n, b)
                               /\ Active(n, b) /\ n.sock[b].key # k => Active(t, b)
  <2> TAKE b \in Sockets \ {c}
  <2>1. t.sock[b] = n.sock[b] /\ n.sock[b].key \in Keys \cup {None}
    BY <1>1, <1>4 DEF Net, SocketStates
  <2>2. QED BY <1>4, <2>1 DEF Active
<1>10. Active(t, c)
  BY <1>2, <1>4, KeysDiffer DEF Active
<1>11. Identified(t)
  <2> SUFFICES ASSUME NEW b \in Sockets, Active(t, b), t.sock[b].known
               PROVE  t.keyOf[t.sock[b].device] = t.sock[b].key
    BY DEF Identified
  <2>1. b # c
    BY <1>2, <1>4
  <2>2. QED BY <1>3, <1>4, <1>9, <2>1 DEF PeersInv, Identified
<1>12. ~SameMillisecond => Alone(t)
  <2> SUFFICES ASSUME ~SameMillisecond, NEW b \in Sockets
               PROVE  /\ ~Active(t, b) => t.sock[b].queue = -1
                      /\ t.sock[b].key \in Sockets => t.sock[b].key = b
                      /\ t.sock[b].state = "open" /\ t.sock[b].listening => Active(t, b)
    BY DEF Alone
  <2>1. CASE b = c
    BY <1>2, <1>4, <1>10, <2>1, KeysDiffer
  <2>2. CASE b # c
    <3>1. /\ ~Active(n, b) => n.sock[b].queue = -1
          /\ n.sock[b].key \in Sockets => n.sock[b].key = b
          /\ n.sock[b].state = "open" /\ n.sock[b].listening => Active(n, b)
      BY DEF PeersInv, Alone
    <3>2. Active(n, b) => n.sock[b].key # k
      <4>1. CASE k \in PeerKeys /\ n.active[k] = None
        BY <4>1, KeysDiffer DEF Active
      <4>2. CASE k = c
        BY <2>2, <3>1, <4>2
      <4>3. QED BY <4>1, <4>2
    <3>3. t.sock[b] = n.sock[b]
      BY <1>4, <2>2
    <3>4. QED BY <1>9, <2>2, <3>1, <3>2, <3>3
  <2>3. QED BY <2>1, <2>2
<1>13. mk2 \in [PeerKeys -> Nat] /\ Counted(t, mk2)
  <2>1. mk \in [PeerKeys -> Nat] /\ Counted(n, mk) /\ n.attempts \in [PeerKeys -> Nat]
    BY DEF PeersInv, Net
  <2>2. CASE k \in PeerKeys /\ n.active[k] = None /\ mk2 = [mk EXCEPT ![k] = @ + 1]
    <3>1. mk2 = [mk EXCEPT ![k] = mk[k] + 1] /\ mk[k] = n.attempts[k] /\ mk[k] \in Nat
      BY <2>1, <2>2 DEF Counted
    <3>2. mk2 \in [PeerKeys -> Nat]
      <4>1. mk[k] + 1 \in Nat
        BY <3>1
      <4>2. QED BY <2>1, <3>1, <4>1
    <3>3. \A j \in PeerKeys : mk2[j] = t.attempts[j] + (IF t.active[j] # None THEN 1 ELSE 0)
      BY <1>3, <1>4, <2>1, <2>2, <3>1, KeysDiffer DEF Counted
    <3>4. QED BY <3>2, <3>3 DEF Counted
  <2>3. CASE k \in Sockets /\ mk2 = mk
    BY <1>3, <1>4, <2>1, <2>3, KeysDiffer DEF Counted
  <2>4. QED BY <2>2, <2>3
<1>14. PeersInv(t, mk2)
  BY <1>3, <1>7, <1>8, <1>11, <1>12, <1>13 DEF PeersInv
<1>15. QED BY <1>14 DEF t

----------------------------------------------------------------------------
(* The steps.                                                              *)

PeersIInv == PeersInv(net, made) /\ hello \subseteq Sockets

LEMMA InitPeers == PeersInit => PeersIInv
<1> SUFFICES ASSUME PeersInit PROVE PeersIInv
  OBVIOUS
<1>1. Fresh \in SocketStates /\ Orderly(Fresh) /\ Fresh.key = None /\ Fresh.queue = -1
      /\ ~Fresh.known /\ ~Fresh.listening
  BY PeersAssumption DEF Fresh, SocketStates, Orderly, None
<1>2. /\ net.sock = [c \in Sockets |-> Fresh] /\ net.active = [k \in Keys |-> None]
      /\ net.attempts = [k \in PeerKeys |-> 0] /\ made = [k \in PeerKeys |-> 0]
      /\ net \in Net /\ hello = {}
  BY <1>1 DEF PeersInit, Net
<1>3. Entries(net) /\ Counted(net, made)
  BY <1>2, KeysDiffer DEF Entries, Counted
<1>4. Identified(net) /\ Alone(net)
  BY <1>1, <1>2, KeysDiffer DEF Identified, Alone, Active
<1>5. QED BY <1>1, <1>2, <1>3, <1>4 DEF PeersIInv, PeersInv

\* The cancelled waits evict.
LEMMA EvictionsHold ==
  ASSUME NEW n, NEW mk, PeersInv(n, mk) PROVE PeersInv(Evictions(n), mk)
<1> DEFINE cs == {c \in Sockets : net.sock[c].waiting /\ ~n.sock[c].waiting}
<1>1. cs \in SUBSET Sockets /\ Evictions(n) = Evict(cs, n)
  BY DEF Evictions
<1>2. QED BY <1>1, EvictLeaves, LeftHolds

LEMMA ConnectPeerStep ==
  ASSUME PeersIInv, NEW c \in Sockets, NEW k \in PeerKeys, ConnectPeer(c, k)
  PROVE  PeersInv(net', made')
<1> DEFINE n == IF net.active[k] # None THEN ForceDrop({net.active[k]}, net) ELSE net
           m == Accepted(c, k, Owner[k], n)
<1>1. k \in Keys /\ Owner[k] \in Devices
  BY PeersAssumption, KeysDiffer
<1>2. PeersInv(net, made) /\ net \in Net /\ Entries(net) /\ net.sock[c].state = "new"
  BY PeersAssumption DEF PeersIInv, PeersInv, ConnectPeer, IsNext, Sockets
<1>3. PeersInv(n, made) /\ n.active[k] = None /\ n.sock[c].state = "new"
  <2>1. CASE net.active[k] = None
    BY <1>2, <2>1
  <2>2. CASE net.active[k] # None
    <3> DEFINE b == net.active[k]
    <3>1. /\ b \in Sockets /\ Active(net, b) /\ net.sock[b].key = k /\ net.sock[b].listening
      BY <1>1, <1>2, <2>2, EntryIsActive DEF Entries
    <3>2. Left(net, n, {b})
      BY <1>2, <2>2, <3>1, DropLeaves DEF Tracked
    <3>3. PeersInv(n, made)
      BY <1>2, <3>2, LeftHolds
    <3>4. b # c
      BY <1>2, <3>1 DEF PeersInv, Orderly
    <3>5. k \in KeysHeld({b}, net)
      BY <3>1 DEF KeysHeld
    <3> HIDE DEF n
    <3>6. QED BY <1>1, <1>2, <3>2, <3>3, <3>4, <3>5 DEF Left, Taken
  <2>3. QED BY <2>1, <2>2
<1>4. net' = Evictions(m) /\ made' = [made EXCEPT ![k] = @ + 1]
  BY DEF ConnectPeer
<1> HIDE DEF n
<1>5. PeersInv(m, [made EXCEPT ![k] = @ + 1])
  BY <1>1, <1>3, AcceptedHolds
<1> HIDE DEF m
<1>6. QED BY <1>4, <1>5, EvictionsHold

LEMMA ConnectAnonymousStep ==
  ASSUME PeersIInv, NEW c \in Sockets, NEW d \in Devices, ConnectAnonymous(c, d)
  PROVE  PeersInv(net', made')
<1>1. PeersInv(net, made) /\ net.sock[c].state = "new" /\ made' = made
  BY PeersAssumption DEF PeersIInv, ConnectAnonymous, IsNext, Sockets
<1>2. PICK k \in Sockets :
        /\ k = c \/ (SameMillisecond /\ k < c /\ net.sock[k].key = k)
        /\ net' = CutAnonymous(OverCap(Accepted(c, k, d, net)), Accepted(c, k, d, net))
  BY DEF ConnectAnonymous
<1> DEFINE m == Accepted(c, k, d, net)
<1>3. PeersInv(m, made)
  BY <1>1, <1>2, KeysDiffer, AcceptedHolds
<1> HIDE DEF m
<1>4. OverCap(m) \in SUBSET Sockets
  BY DEF OverCap, Anonymous
<1>5. net' = CutAnonymous(OverCap(m), m)
  BY <1>2 DEF m
<1>6. QED BY <1>1, <1>3, <1>4, <1>5, CutLeaves, LeftHolds

\* A close ends the wait of the socket, and takes it out if it still listens.
LEMMA CloseStep ==
  ASSUME PeersIInv, NEW c \in Sockets, Close(c)
  PROVE  PeersInv(net', made')
<1> DEFINE s == net.sock[c]
           n == IF s.listening THEN Teardown({c}, net) ELSE net
           m == [n EXCEPT !.sock[c].state = "closed", !.sock[c].waiting = @ /\ ~s.listening]
<1>1. PeersInv(net, made) /\ net \in Net /\ s \in SocketStates /\ Orderly(s)
  BY DEF PeersIInv, PeersInv, Net
<1>2. net' = Evictions(m) /\ made' = made
  BY DEF Close
<1>3. /\ Taken(net, n, {c}) /\ n.sock[c] \in SocketStates /\ ~n.sock[c].listening
      /\ n.sock[c].missed = -1 /\ ~n.sock[c].timers
      /\ n.sock[c].keyed => n.sock[c].key # None /\ n.sock[c].device # None
      /\ ~s.listening => ~n.sock[c].waiting
  <2>1. CASE s.listening
    <3>1. Taken(net, n, {c}) /\ n.sock[c] \in {Stripped(s), Silenced(s)}
      BY <1>1, <2>1, TeardownTakes
    <3>2. QED
      BY <1>1, <2>1, <3>1 DEF Stripped, Silenced, SocketStates, Orderly
  <2>2. CASE ~s.listening
    <3>1. ~Active(net, c)
      BY <1>1, <2>2, EntryIsActive DEF PeersInv
    <3>2. KeysHeld({c}, net) = {}
      BY <3>1 DEF KeysHeld
    <3>3. Taken(net, net, {c})
      BY <1>1, <2>2, <3>1, <3>2 DEF Taken, Net
    <3>4. QED BY <1>1, <2>2, <3>3 DEF Orderly
  <2>3. QED BY <2>1, <2>2
<1>4. n \in Net
  BY <1>3 DEF Taken
<1> DEFINE z == [n.sock[c] EXCEPT !.state = "closed", !.waiting = @ /\ ~s.listening]
<1>5. m = [n EXCEPT !.sock[c] = z]
  BY <1>4 DEF Net
<1>6. /\ z \in SocketStates /\ z.key = n.sock[c].key /\ z.queue = n.sock[c].queue
      /\ z.state = "closed" /\ ~z.listening /\ Orderly(z)
  <2>1. (n.sock[c].waiting /\ ~s.listening) = FALSE
    BY <1>3
  <2>2. z = [n.sock[c] EXCEPT !.state = "closed", !.waiting = FALSE]
    BY <1>3, <2>1 DEF SocketStates
  <2> HIDE DEF z, n
  <2>3. QED BY <1>3, <2>2 DEF SocketStates, Orderly
<1> HIDE DEF n, z, m
<1>7. /\ m \in Net /\ m.active = n.active /\ m.keyOf = n.keyOf /\ m.attempts = n.attempts
      /\ m.sock[c] = z /\ \A b \in Sockets \ {c} : m.sock[b] = n.sock[b]
  BY <1>4, <1>5, <1>6, SocketSet
<1>8. Left(net, m, {c})
  BY <1>3, <1>6, <1>7 DEF Left, Taken
<1>9. QED BY <1>1, <1>2, <1>8, LeftHolds, EvictionsHold

\* A step that changes one socket in place.
LEMMA DrainStep ==
  ASSUME PeersIInv, NEW c \in Sockets, Drain(c)
  PROVE  PeersInv(net', made')
<1> DEFINE s == net.sock[c]
<1>1. PeersInv(net, made) /\ net \in Net /\ s \in SocketStates /\ Orderly(s) /\ made' = made
  BY DEF PeersIInv, PeersInv, Net, Drain
<1>2. CASE net' = [net EXCEPT !.sock[c].waiting = FALSE,
                              !.sock[c].queue = IF @ = -1 THEN -1 ELSE 0]
  <2> DEFINE q == IF s.queue = -1 THEN -1 ELSE 0
             z == [s EXCEPT !.waiting = FALSE, !.queue = q]
  <2>1. q \in {-1} \cup 0..QueueDepth /\ (q = -1 <=> s.queue = -1)
    BY PeersAssumption
  <2>2. net' = [net EXCEPT !.sock[c] = z]
    BY <1>1, <1>2 DEF Net, SocketStates
  <2> HIDE DEF q
  <2>3. /\ z \in SocketStates /\ z.key = s.key /\ z.keyed = s.keyed
        /\ z.device = s.device /\ z.known = s.known /\ z.listening = s.listening
        /\ z.state = s.state /\ z.queue = q /\ Orderly(z)
    BY <1>1, <2>1 DEF SocketStates, Orderly
  <2> HIDE DEF z
  <2>4. QED BY <1>1, <2>1, <2>2, <2>3, TouchHolds
<1>3. CASE s.queue > 0 /\ net' = [net EXCEPT !.sock[c].queue = @ - 1]
  <2> DEFINE q == s.queue - 1
             z == [s EXCEPT !.queue = q]
  <2>1. q \in {-1} \cup 0..QueueDepth /\ q # -1 /\ s.queue # -1
    BY <1>1, <1>3, PeersAssumption DEF SocketStates
  <2>2. net' = [net EXCEPT !.sock[c] = z]
    BY <1>1, <1>3 DEF Net, SocketStates
  <2> HIDE DEF q
  <2>3. /\ z \in SocketStates /\ z.key = s.key /\ z.keyed = s.keyed
        /\ z.device = s.device /\ z.known = s.known /\ z.listening = s.listening
        /\ z.state = s.state /\ z.queue = q /\ Orderly(z)
    BY <1>1, <2>1 DEF SocketStates, Orderly
  <2> HIDE DEF z
  <2>4. QED BY <1>1, <2>1, <2>2, <2>3, TouchHolds
<1>4. QED BY <1>2, <1>3 DEF Drain

LEMMA WaitTimesOutStep ==
  ASSUME PeersIInv, NEW c \in Sockets, WaitTimesOut(c)
  PROVE  PeersInv(net', made')
<1> DEFINE s == net.sock[c]
           z == [s EXCEPT !.waiting = FALSE]
           n == [net EXCEPT !.sock[c] = z]
<1>1. PeersInv(net, made) /\ net \in Net /\ s \in SocketStates /\ Orderly(s) /\ made' = made
  BY DEF PeersIInv, PeersInv, Net, WaitTimesOut
<1>2. net' = Evict({c}, n)
  <2>1. n = [net EXCEPT !.sock[c].waiting = FALSE]
    BY <1>1 DEF Net
  <2>2. QED BY <2>1 DEF WaitTimesOut
<1>3. /\ z \in SocketStates /\ z.key = s.key /\ z.keyed = s.keyed
      /\ z.device = s.device /\ z.known = s.known /\ z.listening = s.listening
      /\ z.state = s.state /\ z.queue = s.queue /\ Orderly(z)
  BY <1>1 DEF SocketStates, Orderly
<1> HIDE DEF z
<1>4. PeersInv(n, made)
  BY <1>1, <1>3, TouchHolds
<1> HIDE DEF n
<1>5. QED BY <1>1, <1>2, <1>4, EvictLeaves, LeftHolds

\* The keepalive of a socket that still has one, and what answers it.
LEMMA MissedSet ==
  ASSUME NEW n, NEW mk, PeersInv(n, mk), NEW c \in Sockets, n.sock[c].missed >= 0,
         NEW i \in {-1} \cup 0..MaxMissed
  PROVE  LET m == [n EXCEPT !.sock[c].missed = i] IN
         PeersInv(m, mk) /\ m.sock[c].listening
<1> DEFINE s == n.sock[c]
           z == [s EXCEPT !.missed = i]
           m == [n EXCEPT !.sock[c] = z]
<1>1. n \in Net /\ s \in SocketStates /\ Orderly(s)
  BY DEF PeersInv, Net
<1>2. /\ z \in SocketStates /\ z.key = s.key /\ z.keyed = s.keyed
      /\ z.device = s.device /\ z.known = s.known /\ z.listening = s.listening
      /\ z.state = s.state /\ z.queue = s.queue /\ z.waiting = s.waiting
      /\ z.timers = s.timers /\ z.missed = i
  BY <1>1 DEF SocketStates
<1>3. s.listening
  BY <1>1 DEF Orderly
<1> HIDE DEF z
<1>4. Orderly(z)
  BY <1>1, <1>2, <1>3 DEF Orderly
<1>5. PeersInv(m, mk) /\ m.sock[c].listening
  <2>1. m.sock[c] = z
    BY <1>1, <1>2, SocketSet
  <2>2. PeersInv(m, mk)
    BY <1>2, <1>3, <1>4, TouchHolds
  <2>3. QED BY <1>2, <1>3, <2>1, <2>2
<1>6. m = [n EXCEPT !.sock[c].missed = i]
  BY <1>1 DEF Net, z
<1> HIDE DEF m
<1>7. QED BY <1>5, <1>6

LEMMA KeepaliveStep ==
  ASSUME PeersIInv, NEW c \in Sockets, KeepaliveTick(c)
  PROVE  PeersInv(net', made')
<1> DEFINE s == net.sock[c]
<1>1. /\ PeersInv(net, made) /\ net \in Net /\ s \in SocketStates /\ Orderly(s)
      /\ made' = made /\ s.missed >= 0
  BY DEF PeersIInv, PeersInv, Net, KeepaliveTick
<1>2. CASE s.state # "open"
  <2>1. net' = [net EXCEPT !.sock[c].missed = -1]
    BY <1>2 DEF KeepaliveTick
  <2>2. QED BY <1>1, <2>1, MissedSet
<1>3. CASE s.state = "open" /\ s.missed >= MaxMissed
  <2> DEFINE z == [Destroyed(s) EXCEPT !.missed = -1]
  <2>1. net' = [net EXCEPT !.sock[c] = z]
    BY <1>3 DEF KeepaliveTick
  <2>2. z = [s EXCEPT !.state = "destroyed", !.missed = -1]
    BY <1>1, <1>3 DEF Destroyed, SocketStates
  <2> HIDE DEF z
  <2>3. /\ z \in SocketStates /\ z.key = s.key /\ z.keyed = s.keyed
        /\ z.device = s.device /\ z.known = s.known /\ z.listening = s.listening
        /\ z.state = "destroyed" /\ z.queue = s.queue /\ Orderly(z)
    BY <1>1, <2>2 DEF SocketStates, Orderly
  <2>4. QED BY <1>1, <1>3, <2>1, <2>3, TouchHolds
<1>4. CASE s.state = "open" /\ ~(s.missed >= MaxMissed)
  <2> DEFINE i == s.missed + 1
             m == [net EXCEPT !.sock[c].missed = i]
  <2>1. i \in {-1} \cup 0..MaxMissed
    BY <1>1, <1>4, PeersAssumption DEF SocketStates
  <2>2. net' \in Writes(c, m)
    BY <1>4 DEF KeepaliveTick
  <2> HIDE DEF i
  <2>3. PeersInv(m, made) /\ m.sock[c].listening
    BY <1>1, <2>1, MissedSet
  <2> HIDE DEF m
  <2>4. QED BY <1>1, <2>2, <2>3, WritesHold
<1>5. QED BY <1>2, <1>3, <1>4

LEMMA PongStep ==
  ASSUME PeersIInv, NEW c \in Sockets, Pong(c)
  PROVE  PeersInv(net', made')
<1> DEFINE n == IF net.sock[c].missed >= 0 THEN [net EXCEPT !.sock[c].missed = 0] ELSE net
<1>1. /\ PeersInv(net, made) /\ made' = made /\ net.sock[c].listening
      /\ net' = n \/ net' \in Writes(c, n)
  BY DEF PeersIInv, Pong
<1>2. 0 \in {-1} \cup 0..MaxMissed
  BY PeersAssumption
<1>3. PeersInv(n, made) /\ n.sock[c].listening
  BY <1>1, <1>2, MissedSet
<1> HIDE DEF n
<1>4. QED BY <1>1, <1>3, WritesHold

\* A sweep, and the drops at an identification.
LEMMA DropStep ==
  ASSUME NEW n, NEW mk, PeersInv(n, mk), NEW cs \in SUBSET Tracked(n)
  PROVE  PeersInv(Evictions(ForceDrop(cs, n)), mk)
BY DropLeaves, LeftHolds, EvictionsHold

\* A device that identifies itself: whichever connection it had under another key
\* has been dropped by then.
LEMMA IdentifyStep ==
  ASSUME PeersIInv, NEW c \in Sockets, Identify(c)
  PROVE  PeersInv(net', made')
<1> DEFINE s == net.sock[c]
           n == ForceDrop(Rivals(c), net)
           m == [n EXCEPT !.keyOf[s.device] = s.key, !.sock[c].known = TRUE]
           idle == {b \in Tracked(m) : ~m.sock[b].known /\ b # c /\ m.sock[b].key # s.key}
<1>1. /\ PeersInv(net, made) /\ net \in Net /\ Entries(net) /\ s \in SocketStates
      /\ Orderly(s) /\ made' = made
  BY DEF PeersIInv, PeersInv, Net, Identify
<1>2. CASE ~s.keyed
  <2>1. net' = net
    BY <1>2 DEF Identify
  <2>2. QED BY <1>1, <2>1
<1>3. CASE s.keyed
  <2>1. PICK ghosts \in SUBSET idle : net' = Evictions(ForceDrop(ghosts, m))
    BY <1>3 DEF Identify
  <2>2. s.device \in Devices /\ s.key \in Keys
    BY <1>1, <1>3 DEF Orderly, SocketStates
  <2> DEFINE k == net.keyOf[s.device]
  <2>3. \A b \in Rivals(c) : b \in Tracked(net) /\ b # c
    <3> TAKE b \in Rivals(c)
    <3>1. k \in Keys /\ k # s.key /\ b = net.active[k] /\ b # None
      BY <1>1, <2>2 DEF Rivals, Net
    <3>2. b \in Sockets /\ Active(net, b) /\ net.sock[b].key = k
      BY <1>1, <3>1, EntryIsActive DEF Entries
    <3>3. QED BY <3>1, <3>2 DEF Tracked
  <2>4. Left(net, n, Rivals(c)) /\ PeersInv(n, made)
    BY <1>1, <2>3, DropLeaves, LeftHolds
  <2>5. n \in Net /\ n.sock[c] = s
    BY <2>3, <2>4 DEF Left, Taken
  <2> HIDE DEF n
  <2> DEFINE z == [s EXCEPT !.known = TRUE]
             h == [n.keyOf EXCEPT ![s.device] = s.key]
  <2>6. /\ z \in SocketStates /\ z.key = s.key /\ z.device = s.device /\ z.state = s.state
        /\ z.listening = s.listening /\ z.queue = s.queue /\ Orderly(z)
    BY <1>1 DEF SocketStates, Orderly
  <2>7. /\ m \in Net /\ m.active = n.active /\ m.attempts = n.attempts /\ m.keyOf = h
        /\ m.sock[c] = z /\ \A b \in Sockets \ {c} : m.sock[b] = n.sock[b]
    <3> DEFINE y == [n.sock EXCEPT ![c] = z]
    <3>1. m = [n EXCEPT !.keyOf = h, !.sock = y]
      BY <2>5 DEF Net
    <3>2. h \in [Devices -> Keys \cup {None}] /\ y \in [Sockets -> SocketStates]
      BY <2>2, <2>5, <2>6 DEF Net
    <3>3. y[c] = z /\ \A b \in Sockets \ {c} : y[b] = n.sock[b]
      BY <2>5 DEF Net
    <3> HIDE DEF m, h, y, z
    <3>4. /\ m \in Net /\ m.active = n.active /\ m.attempts = n.attempts /\ m.keyOf = h
          /\ m.sock = y
      BY <2>5, <3>1, <3>2 DEF Net
    <3>5. QED BY <3>3, <3>4
  <2> HIDE DEF m, z
  <2>8. \A b \in Sockets : Active(m, b) <=> Active(n, b)
    BY <2>5, <2>6, <2>7 DEF Active
  <2>9. Entries(m)
    <3> SUFFICES ASSUME NEW j \in Keys, m.active[j] # None
                 PROVE  /\ m.sock[m.active[j]].key = j /\ m.sock[m.active[j]].listening
                        /\ m.sock[m.active[j]].queue # -1
      BY DEF Entries
    <3>1. m.active[j] = n.active[j] /\ n.active[j] \in Sockets
      BY <2>5, <2>7 DEF Net
    <3>2. /\ n.sock[n.active[j]].key = j /\ n.sock[n.active[j]].listening
          /\ n.sock[n.active[j]].queue # -1
      BY <2>4, <2>7, <3>1 DEF PeersInv, Entries
    <3>3. QED BY <2>5, <2>6, <2>7, <3>1, <3>2
  <2>10. \A b \in Sockets : Orderly(m.sock[b])
    BY <2>4, <2>6, <2>7 DEF PeersInv
  <2>11. Identified(m)
    <3> SUFFICES ASSUME NEW b \in Sockets, Active(m, b), m.sock[b].known
                 PROVE  m.keyOf[m.sock[b].device] = m.sock[b].key
      BY DEF Identified
    <3>1. CASE b = c
      BY <2>2, <2>5, <2>6, <2>7, <3>1 DEF Net
    <3>2. CASE b # c
      <4>1. m.sock[b] = n.sock[b] /\ Active(n, b)
        BY <2>7, <2>8, <3>2
      <4>2. n.keyOf[n.sock[b].device] = n.sock[b].key
        BY <2>4, <4>1 DEF PeersInv, Identified
      <4>3. CASE n.sock[b].device # s.device
        BY <2>5, <2>7, <4>1, <4>2, <4>3 DEF Net
      <4>4. CASE n.sock[b].device = s.device
        <5>1. b \notin Rivals(c)
          <6>1. ASSUME b \in Rivals(c) PROVE FALSE
            <7>1. Active(net, b) /\ n.sock[b].key = net.sock[b].key
              BY <2>3, <2>4, <6>1 DEF Tracked, Left, Taken
            <7>2. n.sock[b].key \in KeysHeld(Rivals(c), net)
              BY <6>1, <7>1 DEF KeysHeld
            <7>3. n.sock[b].key \in Keys /\ n.active[n.sock[b].key] = b
              BY <2>4, <2>5, <4>1, EntryIsActive DEF PeersInv
            <7>4. n.active[n.sock[b].key] = None
              BY <2>4, <7>2, <7>3 DEF Left, Taken
            <7>5. QED BY <7>3, <7>4, KeysDiffer
          <6>2. QED BY <6>1
        <5>2. n.sock[b] = net.sock[b]
          BY <2>4, <5>1 DEF Left, Taken
        <5>3. Active(net, b)
          <6>1. n.sock[b].key \in Keys /\ n.active[n.sock[b].key] = b
            BY <2>4, <2>5, <4>1, EntryIsActive DEF PeersInv
          <6>2. net.active[net.sock[b].key] = b
            BY <2>4, <5>2, <6>1, KeysDiffer DEF Left, Taken
          <6>3. QED BY <5>2, <6>1, <6>2, KeysDiffer DEF Active
        <5>4. net.keyOf[s.device] = net.sock[b].key
          BY <1>1, <4>1, <4>4, <5>2, <5>3 DEF PeersInv, Identified
        <5>5. net.sock[b].key \in Keys /\ net.active[net.sock[b].key] = b
          BY <1>1, <5>3, EntryIsActive
        <5>6. net.sock[b].key = s.key
          BY <5>1, <5>4, <5>5, KeysDiffer DEF Rivals
        <5>7. QED BY <2>2, <2>5, <2>7, <4>1, <4>4, <5>2, <5>6 DEF Net
      <4>5. QED BY <4>3, <4>4
    <3>3. QED BY <3>1, <3>2
  <2>12. ~SameMillisecond => Alone(m)
    BY <2>4, <2>5, <2>6, <2>7, <2>8 DEF PeersInv, Alone
  <2>13. Counted(m, made)
    BY <2>4, <2>7 DEF PeersInv, Counted
  <2>14. PeersInv(m, made)
    BY <2>4, <2>7, <2>9, <2>10, <2>11, <2>12, <2>13 DEF PeersInv
  <2>15. QED BY <1>1, <2>1, <2>14, DropStep
<1>4. QED BY <1>2, <1>3

LEMMA ResetStep ==
  ASSUME PeersIInv, NEW k \in PeerKeys, ResetBackoff(k)
  PROVE  PeersInv(net', made')
<1> DEFINE a == [net.attempts EXCEPT ![k] = 0]
           i == IF net.active[k] # None THEN 1 ELSE 0
<1>1. /\ PeersInv(net, made) /\ net \in Net /\ made' = [made EXCEPT ![k] = i]
      /\ net' = [net EXCEPT !.attempts[k] = 0]
  BY DEF PeersIInv, PeersInv, ResetBackoff
<1>2. net' = [net EXCEPT !.attempts = a]
  BY <1>1 DEF Net
<1>3. a \in [PeerKeys -> Nat] /\ a[k] = 0 /\ \A j \in PeerKeys \ {k} : a[j] = net.attempts[j]
  BY <1>1 DEF Net
<1> HIDE DEF a
<1>4. /\ net' \in Net /\ net'.sock = net.sock /\ net'.active = net.active
      /\ net'.keyOf = net.keyOf /\ net'.attempts = a
  BY <1>1, <1>2, <1>3 DEF Net
<1> DEFINE t == net'
<1>5. \A c : Active(t, c) <=> Active(net, c)
  BY <1>4 DEF Active
<1>6. /\ Entries(t) /\ Identified(t) /\ \A c \in Sockets : Orderly(t.sock[c])
      /\ ~SameMillisecond => Alone(t)
  BY <1>1, <1>4, <1>5 DEF PeersInv, Entries, Identified, Alone
<1>7. made' \in [PeerKeys -> Nat] /\ Counted(t, made')
  <2>1. made \in [PeerKeys -> Nat] /\ Counted(net, made)
    BY <1>1 DEF PeersInv
  <2>2. made' \in [PeerKeys -> Nat]
    BY <1>1, <2>1
  <2>3. \A j \in PeerKeys : made'[j] = a[j] + (IF net.active[j] # None THEN 1 ELSE 0)
    BY <1>1, <1>3, <2>1 DEF Counted
  <2>4. QED BY <1>4, <2>2, <2>3 DEF Counted
<1>8. QED BY <1>4, <1>6, <1>7 DEF PeersInv

LEMMA DisconnectStep ==
  ASSUME PeersIInv, Disconnect
  PROVE  PeersInv(net', made')
<1> DEFINE gone(s) == [Destroyed(s) EXCEPT !.timers = FALSE, !.missed = -1, !.queue = -1,
                         !.waiting = FALSE, !.listening = FALSE]
           z == [c \in Sockets |-> IF Active(net, c) THEN gone(net.sock[c]) ELSE net.sock[c]]
           n == [net EXCEPT !.sock = z, !.active = [k \in Keys |-> None],
                            !.keyOf = [d \in Devices |-> None]]
<1>1. /\ PeersInv(net, made) /\ net \in Net /\ net' = Evictions(n)
      /\ made' = [k \in PeerKeys |-> net.attempts[k]]
  BY DEF PeersIInv, PeersInv, Disconnect
<1>2. \A c \in Sockets : net.sock[c] \in SocketStates /\ Orderly(net.sock[c])
  BY <1>1 DEF PeersInv, Net
<1>3. ASSUME NEW s \in SocketStates, Orderly(s)
      PROVE  /\ gone(s) \in SocketStates /\ gone(s).key = s.key /\ gone(s).queue = -1
             /\ ~gone(s).listening /\ Orderly(gone(s))
  <2> DEFINE r == Destroyed(s)
             q == gone(s)
  <2>1. r \in SocketStates /\ r.key = s.key /\ r.keyed = s.keyed /\ r.device = s.device
    BY <1>3 DEF Destroyed, SocketStates
  <2>2. q = [r EXCEPT !.timers = FALSE, !.missed = -1, !.queue = -1,
                      !.waiting = FALSE, !.listening = FALSE]
    OBVIOUS
  <2> HIDE DEF r, q
  <2>3. /\ q \in SocketStates /\ q.key = s.key /\ q.keyed = s.keyed /\ q.device = s.device
        /\ q.queue = -1 /\ ~q.listening /\ ~q.timers /\ ~q.waiting /\ q.missed = -1
    BY <2>1, <2>2 DEF SocketStates
  <2>4. Orderly(q)
    BY <1>3, <2>3 DEF Orderly
  <2>5. QED BY <2>3, <2>4 DEF q
<1> HIDE DEF gone
<1>4. z \in [Sockets -> SocketStates] /\ \A c \in Sockets : Orderly(z[c])
  BY <1>2, <1>3
<1>5. \A c \in Sockets : /\ z[c].key = net.sock[c].key
                         /\ Active(net, c) => z[c].queue = -1 /\ ~z[c].listening
                         /\ ~Active(net, c) => z[c] = net.sock[c]
  BY <1>2, <1>3
<1> HIDE DEF z
<1>6. /\ n \in Net /\ n.sock = z /\ n.attempts = net.attempts
      /\ n.active = [k \in Keys |-> None]
  BY <1>1, <1>4 DEF Net
<1> HIDE DEF n
<1>7. \A c \in Sockets : ~Active(n, c)
  BY <1>6, KeysDiffer DEF Active, Net, SocketStates
<1>8. Entries(n) /\ Identified(n)
  BY <1>6, <1>7 DEF Entries, Identified
<1>9. ~SameMillisecond => Alone(n)
  BY <1>1, <1>5, <1>6, <1>7 DEF PeersInv, Alone
<1>10. made' \in [PeerKeys -> Nat] /\ Counted(n, made')
  <2>1. \A k \in PeerKeys : net.attempts[k] \in Nat /\ n.active[k] = None
    BY <1>1, <1>6, KeysDiffer DEF Net
  <2>2. QED BY <1>1, <1>6, <2>1 DEF Counted
<1>11. PeersInv(n, made')
  BY <1>4, <1>6, <1>8, <1>9, <1>10 DEF PeersInv
<1>12. QED BY <1>1, <1>11, EvictionsHold

LEMMA StepPeers == PeersIInv /\ [PeersNext]_peersVars => PeersIInv'
<1> SUFFICES ASSUME PeersIInv, [PeersNext]_peersVars PROVE PeersIInv'
  OBVIOUS
<1>1. PeersInv(net', made')
  <2>1. ASSUME NEW c \in Sockets, SocketNext(c) PROVE PeersInv(net', made')
    <3>1. CASE \E k \in PeerKeys : ConnectPeer(c, k)
      BY <3>1, ConnectPeerStep
    <3>2. CASE \E d \in Devices : ConnectAnonymous(c, d)
      BY <3>2, ConnectAnonymousStep
    <3>3. CASE Close(c)
      BY <3>3, CloseStep
    <3>4. CASE LinkDies(c) \/ HelloArrives(c)
      BY <3>4 DEF LinkDies, HelloArrives, PeersIInv
    <3>5. CASE Write(c)
      <4>1. PeersInv(net, made) /\ net' \in Writes(c, net) /\ made' = made
        BY <3>5 DEF Write, PeersIInv
      <4>2. net.sock[c].listening
        BY <3>5, EntryIsActive DEF Write, PeersIInv, PeersInv
      <4>3. QED BY <4>1, <4>2, WritesHold
    <3>6. CASE Drain(c)
      BY <3>6, DrainStep
    <3>7. CASE WaitTimesOut(c)
      BY <3>7, WaitTimesOutStep
    <3>8. CASE KeepaliveTick(c)
      BY <3>8, KeepaliveStep
    <3>9. CASE Pong(c)
      BY <3>9, PongStep
    <3>10. CASE Identify(c)
      BY <3>10, IdentifyStep
    <3>11. QED
      BY <2>1, <3>1, <3>2, <3>3, <3>4, <3>5, <3>6, <3>7, <3>8, <3>9, <3>10 DEF SocketNext
  <2>2. CASE SweepGhosts
    <3>1. PICK ghosts \in SUBSET Tracked(net) : net' = Evictions(ForceDrop(ghosts, net))
      BY <2>2 DEF SweepGhosts, Tracked
    <3>2. made' = made
      BY <2>2 DEF SweepGhosts
    <3>3. QED BY <3>1, <3>2, DropStep DEF PeersIInv
  <2>3. CASE \E k \in PeerKeys : ResetBackoff(k)
    BY <2>3, ResetStep
  <2>4. CASE Disconnect
    BY <2>4, DisconnectStep
  <2>5. CASE UNCHANGED peersVars
    BY <2>5 DEF peersVars, PeersIInv
  <2>6. QED BY <2>1, <2>2, <2>3, <2>4, <2>5 DEF PeersNext
<1>2. hello' \subseteq Sockets
  <2>1. hello' = hello \/ \E c \in Sockets : hello' \subseteq hello \cup {c}
    BY DEF PeersNext, SocketNext, ConnectPeer, ConnectAnonymous, Close, LinkDies, Write,
           Drain, WaitTimesOut, KeepaliveTick, Pong, HelloArrives, Identify, SweepGhosts,
           ResetBackoff, Disconnect, peersVars
  <2>2. QED BY <2>1 DEF PeersIInv
<1>3. PeersInv(net, made)' <=> PeersInv(net', made')
  BY DEF PeersInv, Entries, Orderly, Identified, Alone, Counted, Active
<1>4. QED BY <1>1, <1>2, <1>3 DEF PeersIInv

LEMMA PeersInvariant == PeersSpec => []PeersIInv
BY InitPeers, StepPeers, PTL DEF PeersSpec

\* Each end of a connection counts once in the backoff of its peer, whichever of
\* the paths see it and in whichever order.
THEOREM CountedOnceCorrect == PeersSpec => []CountedOnce
<1>1. PeersIInv => CountedOnce
  <2> SUFFICES ASSUME PeersIInv, NEW k \in PeerKeys
               PROVE  net.attempts[k] = made[k] - (IF net.active[k] # None THEN 1 ELSE 0)
    BY DEF CountedOnce
  <2>1. made[k] = net.attempts[k] + (IF net.active[k] # None THEN 1 ELSE 0)
    BY DEF PeersIInv, PeersInv, Counted
  <2>2. net.attempts[k] \in Nat
    BY DEF PeersIInv, PeersInv, Net
  <2>3. QED BY <2>1, <2>2
<1>2. QED BY <1>1, PeersInvariant, PTL

\* A device that has identified itself has one connection.
THEOREM OneSocketPerDeviceCorrect == PeersSpec => []OneSocketPerDevice
<1>1. PeersIInv => OneSocketPerDevice
  <2> SUFFICES ASSUME PeersIInv, NEW b \in Tracked(net), NEW c \in Tracked(net),
                      net.sock[b].known, net.sock[c].known,
                      net.sock[b].device = net.sock[c].device
               PROVE  b = c
    BY DEF OneSocketPerDevice
  <2>1. net.sock[b].key = net.sock[c].key
    BY DEF PeersIInv, PeersInv, Identified, Tracked
  <2>2. QED BY <2>1 DEF Tracked, Active
<1>2. QED BY <1>1, PeersInvariant, PTL

\* A socket that is open and listened to can be written to, and one that closed
\* leaves nothing behind, if no two anonymous peers connect in one millisecond.
THEOREM LiveIsActiveCorrect == ASSUME ~SameMillisecond PROVE PeersSpec => []LiveIsActive
<1>1. PeersIInv => LiveIsActive
  BY DEF PeersIInv, PeersInv, Alone, LiveIsActive
<1>2. QED BY <1>1, PeersInvariant, PTL

THEOREM NothingLeaksCorrect == ASSUME ~SameMillisecond PROVE PeersSpec => []NothingLeaks
<1>1. PeersIInv => NothingLeaks
  <2> SUFFICES ASSUME PeersIInv, NEW c \in Sockets, net.sock[c].state = "closed"
               PROVE  /\ ~Active(net, c) /\ net.sock[c].queue = -1 /\ ~net.sock[c].waiting
                      /\ net.sock[c].missed = -1 /\ ~net.sock[c].timers
    BY DEF NothingLeaks
  <2>1. net \in Net /\ Entries(net) /\ Orderly(net.sock[c]) /\ Alone(net)
    BY DEF PeersIInv, PeersInv
  <2>2. ~net.sock[c].listening
    BY <2>1 DEF Orderly
  <2>3. ~Active(net, c)
    BY <2>1, <2>2, EntryIsActive
  <2>4. QED BY <2>1, <2>2, <2>3 DEF Orderly, Alone
<1>2. QED BY <1>1, PeersInvariant, PTL

\* Type correctness; the count told to the daemon is that of a finite set.
THEOREM PeersTypeCorrect == PeersSpec => []PeersTypeOK
<1> DEFINE T == half \subseteq Sockets /\ reported \in Nat /\ up \in BOOLEAN
<1>1. PeersInit => T
  BY DEF PeersInit
<1>2. ASSUME NEW n PROVE Cardinality(Tracked(n)) \in Nat
  <2>1. IsFiniteSet(Sockets)
    BY PeersAssumption, FS_Interval DEF Sockets
  <2>2. Tracked(n) \subseteq Sockets
    BY DEF Tracked
  <2>3. QED BY <2>1, <2>2, FS_Subset, FS_CardinalityType
<1>3. T /\ [PeersNext]_peersVars => T'
  <2> SUFFICES ASSUME T, [PeersNext]_peersVars PROVE T'
    OBVIOUS
  <2>1. /\ half' = half \/ \E c \in Sockets : half' = half \cup {c}
        /\ up' = up \/ up' = FALSE
    BY DEF PeersNext, SocketNext, ConnectPeer, ConnectAnonymous, Close, LinkDies, Write,
           Drain, WaitTimesOut, KeepaliveTick, Pong, HelloArrives, Identify, SweepGhosts,
           ResetBackoff, Disconnect, peersVars
  <2>2. reported' = reported \/ \E n : reported' = Cardinality(Tracked(n))
    <3>1. ASSUME NEW c \in Sockets, NEW k, ConnectPeer(c, k)
          PROVE  \E n : reported' = Cardinality(Tracked(n))
      BY <3>1 DEF ConnectPeer
    <3>2. ASSUME NEW c \in Sockets, NEW d, ConnectAnonymous(c, d)
          PROVE  \E n : reported' = Cardinality(Tracked(n))
      BY <3>2 DEF ConnectAnonymous
    <3>3. ASSUME NEW c \in Sockets, Close(c)
          PROVE  reported' = reported \/ \E n : reported' = Cardinality(Tracked(n))
      BY <3>3 DEF Close
    <3>4. CASE SweepGhosts \/ Disconnect \/ UNCHANGED peersVars
      BY <3>4 DEF SweepGhosts, Disconnect, peersVars
    <3>5. CASE \E k \in PeerKeys : ResetBackoff(k)
      BY <3>5 DEF ResetBackoff
    <3>6. ASSUME NEW c \in Sockets,
                 LinkDies(c) \/ Write(c) \/ Drain(c) \/ WaitTimesOut(c) \/ KeepaliveTick(c)
                   \/ Pong(c) \/ HelloArrives(c) \/ Identify(c)
          PROVE  reported' = reported
      BY <3>6 DEF LinkDies, Write, Drain, WaitTimesOut, KeepaliveTick, Pong, HelloArrives,
                  Identify
    <3>7. QED BY <3>1, <3>2, <3>3, <3>4, <3>5, <3>6 DEF PeersNext, SocketNext
  <2>3. QED BY <1>2, <2>1, <2>2
<1>4. PeersIInv /\ T => PeersTypeOK
  BY DEF PeersIInv, PeersInv, PeersTypeOK
<1>5. PeersSpec => []T
  BY <1>1, <1>3, PTL DEF PeersSpec
<1>6. QED BY <1>4, <1>5, PeersInvariant, PTL
=============================================================================
