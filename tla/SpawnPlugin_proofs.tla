------------------------ MODULE SpawnPlugin_proofs ------------------------
(***************************************************************************)
(* Proofs about SpawnPlugin, for any number of conversations and           *)
(* dispatches, every limit and every spawn fault; and about the sessions   *)
(* of its conversations (PluginSessions), for any number of them and of    *)
(* faults and stops: which session a dispatch resumes, and that what is    *)
(* unsaved is being saved.                                                 *)
(***************************************************************************)
EXTENDS SpawnPlugin, PluginSessions, TLAPS

----------------------------------------------------------------------------
(* The inductive invariant.                                                *)

Stages   == {"new", "queued", "flushed", "preparing", "refused", "started", "threw"}
Statuses == {"none", "running", "completed", "error", "killed"}
Procs    == {"none", "alive", "failed", "forced", "errored", "gone"}

\* The types of what concerns single dispatches, and of the queues.
TaskTypes ==
  /\ arrived \in 0..MaxDispatches
  /\ conv \in [Dispatches -> Convs]
  /\ stage \in [Dispatches -> Stages]
  /\ status \in [Dispatches -> Statuses]
  /\ told \in [Dispatches -> {"none", "done", "error"}]
  /\ reply \in [Dispatches -> {"none", "ok", "failed"}]
  /\ proc \in [Dispatches -> Procs]
  /\ killed \subseteq Dispatches
  /\ failures \in Nat /\ cooled \in BOOLEAN
  /\ overlapped \subseteq Convs

QueueTypes ==
  /\ active \in [Convs -> Dispatches \union {None}]
  /\ queue \in [Convs -> Seq(Dispatches)]
  /\ \A c \in Convs : Len(queue[c]) <= QueueCap
  /\ dequeued \subseteq Dispatches /\ settling \subseteq dequeued

\* Only a dispatch that registered its task has a process or a status.
StageInv ==
  \A d \in Dispatches :
    /\ stage[d] = "new" <=> d > arrived
    /\ stage[d] \notin {"started", "threw"} => status[d] = "none"
    /\ stage[d] # "started" => proc[d] = "none" /\ told[d] = "none" /\ d \notin killed
    /\ stage[d] \in {"new", "queued", "preparing", "refused"} => reply[d] = "none"

\* The active task of a conversation is one of its own, and has a process or
\* leaked in a spawn that threw.
ActiveInv ==
  \A c \in Convs : active[c] # None =>
    /\ conv[active[c]] = c
    /\ InMap(active[c]) \/ stage[active[c]] = "threw"

\* A queue holds distinct waiting dispatches of its conversation.
QueueInv ==
  \A c \in Convs : \A i \in 1..Len(queue[c]) :
    /\ stage[queue[c][i]] = "queued" /\ conv[queue[c][i]] = c
    /\ \A j \in 1..Len(queue[c]) : queue[c][i] = queue[c][j] => i = j

\* Status, callback and reply move together; a process that can still report a
\* result belongs to a task that was neither told nor answered.
VerdictInv ==
  \A d \in Dispatches :
    /\ status[d] = "completed" <=> told[d] = "done"
    /\ status[d] = "error"     <=> told[d] = "error"
    /\ reply[d] = "ok"     => status[d] = "completed"
    /\ reply[d] = "failed" => status[d] # "completed"
    /\ proc[d] = "alive" /\ reply[d] # "none" => told[d] # "none"
    /\ proc[d] = "failed" => reply[d] = "none" /\ told[d] = "none"
    /\ proc[d] = "forced" => status[d] # "running"
    /\ d \in killed => status[d] # "running"

\* In a conversation without overlapping calls one call is unanswered at most,
\* its processes are tracked, and nothing is prepared beside one.
SerialInv ==
  \A d \in Dispatches : conv[d] \notin overlapped =>
    /\ InMap(d) => active[conv[d]] = d
    /\ \A e \in Dispatches : conv[e] = conv[d] /\ e # d =>
         /\ stage[d] = "preparing" => ~InMap(e)
         /\ stage[d] # "new" /\ stage[e] # "new" => Answered(d) \/ Answered(e)

IInv == /\ TaskTypes /\ QueueTypes /\ StageInv /\ ActiveInv /\ QueueInv
        /\ VerdictInv /\ SerialInv /\ SlotsHeld /\ QueueHasDriver

----------------------------------------------------------------------------
(* What _dequeueNext and _onTaskFinished do.                               *)

\* A conversation's next entry may have been taken from its queue, nothing else.
Moved(c, s) ==
  /\ queue' \in [Convs -> Seq(Dispatches)]
  /\ \A k \in Convs : Len(queue'[k]) <= QueueCap
  /\ \A k \in Convs : k # c => queue'[k] = queue[k]
  /\ stage' \in [Dispatches -> Stages]
  /\ \A x \in Dispatches : stage'[x] # stage[x] =>
       /\ stage[x] = "queued" /\ conv[x] = c
       /\ stage'[x] \in {"preparing", "refused"}
  /\ dequeued' \subseteq Dispatches /\ settling' \subseteq dequeued' /\ s \subseteq settling'
  /\ \A k \in Convs : \A i \in 1..Len(queue'[k]) :
       /\ stage'[queue'[k][i]] = "queued" /\ conv[queue'[k][i]] = k
       /\ \A j \in 1..Len(queue'[k]) : queue'[k][i] = queue'[k][j] => i = j

\* Whatever is left in the queue has a driver.
Driven(c) ==
  queue'[c] # <<>> =>
    \E x \in Dispatches : conv[x] = c /\ (stage'[x] = "preparing" \/ x \in settling')

LEMMA HeadOfQueue ==
  ASSUME QueueTypes, QueueInv, NEW c \in Convs, queue[c] # <<>>
  PROVE  /\ Head(queue[c]) \in Dispatches
         /\ stage[Head(queue[c])] = "queued" /\ conv[Head(queue[c])] = c
         /\ Tail(queue[c]) \in Seq(Dispatches)
         /\ Len(Tail(queue[c])) = Len(queue[c]) - 1
         /\ \A i \in 1..Len(Tail(queue[c])) :
              /\ i + 1 \in 1..Len(queue[c])
              /\ Tail(queue[c])[i] = queue[c][i + 1]
              /\ Tail(queue[c])[i] # Head(queue[c])
<1>1. queue[c] \in Seq(Dispatches) /\ Len(queue[c]) \in Nat /\ Len(queue[c]) # 0
  BY DEF QueueTypes
<1>2. 1 \in 1..Len(queue[c]) /\ Head(queue[c]) = queue[c][1]
  BY <1>1
<1>3. Head(queue[c]) \in Dispatches /\ Tail(queue[c]) \in Seq(Dispatches)
  BY <1>1
<1>4. Len(Tail(queue[c])) = Len(queue[c]) - 1
  BY <1>1
<1>5. ASSUME NEW i \in 1..Len(Tail(queue[c]))
      PROVE  /\ i + 1 \in 1..Len(queue[c]) /\ i + 1 # 1
             /\ Tail(queue[c])[i] = queue[c][i + 1]
  BY <1>1, <1>4
<1>6. ASSUME NEW i \in 1..Len(Tail(queue[c]))
      PROVE  Tail(queue[c])[i] # Head(queue[c])
  BY <1>2, <1>5 DEF QueueInv
<1>7. QED BY <1>2, <1>3, <1>4, <1>5, <1>6 DEF QueueInv

LEMMA DequeueMoves ==
  ASSUME QueueTypes, TaskTypes, QueueInv, NEW c \in Convs, NEW s, s \subseteq dequeued,
         DequeueNext(c, s)
  PROVE  Moved(c, s) /\ Driven(c)
<1>1. CASE queue[c] = <<>>
  <2>1. settling' = s /\ queue' = queue /\ dequeued' = dequeued /\ stage' = stage
    BY <1>1 DEF DequeueNext
  <2>2. QED BY <1>1, <2>1 DEF Moved, Driven, QueueTypes, TaskTypes, QueueInv
<1>2. CASE queue[c] # <<>>
  <2>1. PICK n : n = Head(queue[c])
    OBVIOUS
  <2>2. PICK start : start = Started'
    OBVIOUS
  <2>3. start \in {"refused", "preparing"}
    BY <2>2 DEF Started
  <2>4. /\ queue' = [queue EXCEPT ![c] = Tail(@)]
        /\ dequeued' = dequeued \union {n}
        /\ stage' = [stage EXCEPT ![n] = start]
        /\ settling' = IF start = "refused" THEN s \union {n} ELSE s
    BY <1>2, <2>1, <2>2 DEF DequeueNext
  <2> HIDE <2>2
  <2>5. /\ n \in Dispatches /\ stage[n] = "queued" /\ conv[n] = c
        /\ Tail(queue[c]) \in Seq(Dispatches)
        /\ Len(Tail(queue[c])) = Len(queue[c]) - 1
        /\ \A i \in 1..Len(Tail(queue[c])) :
              /\ i + 1 \in 1..Len(queue[c])
              /\ Tail(queue[c])[i] = queue[c][i + 1]
              /\ Tail(queue[c])[i] # n
    BY <1>2, <2>1, HeadOfQueue
  <2>6. /\ queue' \in [Convs -> Seq(Dispatches)]
        /\ queue'[c] = Tail(queue[c])
        /\ \A k \in Convs : k # c => queue'[k] = queue[k]
    BY <2>4, <2>5 DEF QueueTypes
  <2>7. \A k \in Convs : Len(queue'[k]) <= QueueCap
    <3>1. Len(queue[c]) \in Nat /\ Len(queue[c]) <= QueueCap /\ QueueCap \in Nat
      BY SpawnAssumption DEF QueueTypes
    <3>2. Len(queue'[c]) <= QueueCap
      BY <2>5, <2>6, <3>1
    <3>3. \A k \in Convs : k # c => Len(queue'[k]) <= QueueCap
      BY <2>6 DEF QueueTypes
    <3>4. QED BY <3>2, <3>3
  <2>8. /\ stage' \in [Dispatches -> Stages]
        /\ \A x \in Dispatches : x # n => stage'[x] = stage[x]
        /\ stage'[n] = start
    BY <2>3, <2>4, <2>5 DEF TaskTypes, Stages
  <2>9. /\ dequeued' \subseteq Dispatches /\ settling' \subseteq dequeued'
        /\ s \subseteq settling'
        /\ start = "refused" => n \in settling'
    BY <2>4, <2>5 DEF QueueTypes
  <2>10. ASSUME NEW k \in Convs, NEW i \in 1..Len(queue'[k])
         PROVE  /\ stage'[queue'[k][i]] = "queued" /\ conv[queue'[k][i]] = k
                /\ \A j \in 1..Len(queue'[k]) : queue'[k][i] = queue'[k][j] => i = j
    <3>1. CASE k = c
      <4>1. /\ queue'[k] = Tail(queue[c]) /\ i \in 1..Len(Tail(queue[c]))
        BY <2>6, <3>1
      <4>2. i \in Int /\ i + 1 \in 1..Len(queue[c]) /\ queue'[k][i] = queue[c][i + 1]
            /\ queue'[k][i] # n
        BY <2>5, <4>1
      <4>3. queue'[k][i] \in Dispatches
        <5>1. queue[c] \in Seq(Dispatches)
          BY DEF QueueTypes
        <5>2. QED BY <4>2, <5>1
      <4>4. stage'[queue'[k][i]] = "queued" /\ conv[queue'[k][i]] = k
        BY <2>8, <3>1, <4>2, <4>3 DEF QueueInv
      <4>5. ASSUME NEW j \in 1..Len(queue'[k]), queue'[k][i] = queue'[k][j]
            PROVE  i = j
        <5>1. j \in Int /\ j + 1 \in 1..Len(queue[c]) /\ queue'[k][j] = queue[c][j + 1]
          BY <2>5, <4>1
        <5>2. \A a, b \in 1..Len(queue[c]) : queue[c][a] = queue[c][b] => a = b
          BY DEF QueueInv
        <5>3. i + 1 = j + 1
          BY <4>2, <4>5, <5>1, <5>2
        <5>4. QED BY <4>2, <5>1, <5>3
      <4>6. QED BY <4>4, <4>5
    <3>2. CASE k # c
      <4>1. queue'[k] = queue[k]
        BY <2>6, <3>2
      <4>2. conv[queue[k][i]] = k /\ queue[k][i] # n /\ stage[queue[k][i]] = "queued"
        BY <2>5, <3>2, <4>1 DEF QueueInv
      <4>3. queue[k][i] \in Dispatches
        <5>1. queue[k] \in Seq(Dispatches)
          BY DEF QueueTypes
        <5>2. QED BY <4>1, <5>1
      <4>4. QED BY <2>8, <4>1, <4>2, <4>3 DEF QueueInv
    <3>3. QED BY <3>1, <3>2
  <2>11. Moved(c, s)
    <3>1. \A x \in Dispatches : stage'[x] # stage[x] =>
            /\ stage[x] = "queued" /\ conv[x] = c
            /\ stage'[x] \in {"preparing", "refused"}
      BY <2>3, <2>5, <2>8
    <3>2. QED BY <2>6, <2>7, <2>8, <2>9, <2>10, <3>1 DEF Moved
  <2>12. Driven(c)
    BY <2>3, <2>5, <2>8, <2>9 DEF Driven
  <2>13. QED BY <2>11, <2>12
<1>3. QED BY <1>1, <1>2

\* _onTaskFinished takes an entry only when it vacates the conversation.
LEMMA FinishedMoves ==
  ASSUME QueueTypes, TaskTypes, QueueInv, NEW d \in Dispatches,
         NEW s, s \subseteq dequeued, TaskFinished(d, s)
  PROVE  /\ Moved(conv[d], s)
         /\ \A c \in Convs : active'[c] = IF active[c] = d /\ c = conv[d] THEN None ELSE active[c]
         /\ active' \in [Convs -> Dispatches \union {None}]
         /\ active[conv[d]] = d => Driven(conv[d])
         /\ active[conv[d]] # d => queue' = queue /\ stage' = stage
<1>0. conv[d] \in Convs
  BY DEF TaskTypes
<1>1. CASE active[conv[d]] = d
  <2>1. active' = [active EXCEPT ![conv[d]] = None] /\ DequeueNext(conv[d], s)
    BY <1>1 DEF TaskFinished
  <2>2. Moved(conv[d], s) /\ Driven(conv[d])
    BY <1>0, <2>1, DequeueMoves
  <2>3. QED BY <1>0, <1>1, <2>1, <2>2 DEF QueueTypes
<1>2. CASE active[conv[d]] # d
  <2>1. /\ settling' = s /\ active' = active /\ queue' = queue
        /\ dequeued' = dequeued /\ stage' = stage
    BY <1>2 DEF TaskFinished
  <2>2. Moved(conv[d], s)
    BY <2>1 DEF Moved, QueueTypes, TaskTypes, QueueInv
  <2>3. QED BY <1>2, <2>1, <2>2 DEF QueueTypes
<1>3. QED BY <1>1, <1>2

----------------------------------------------------------------------------
(* The invariant, one lemma per kind of step.                              *)

\* The initial states satisfy the invariant.
LEMMA InitInv == Init => IInv
<1> SUFFICES ASSUME Init PROVE IInv
  OBVIOUS
<1>1. TaskTypes
  <2>1. arrived \in 0..MaxDispatches /\ failures \in Nat
    BY SpawnAssumption DEF Init
  <2>2. /\ stage \in [Dispatches -> Stages] /\ status \in [Dispatches -> Statuses]
        /\ proc \in [Dispatches -> Procs]
    BY DEF Init, Stages, Statuses, Procs
  <2>3. /\ told \in [Dispatches -> {"none", "done", "error"}]
        /\ reply \in [Dispatches -> {"none", "ok", "failed"}]
    BY DEF Init
  <2>4. QED BY <2>1, <2>2, <2>3 DEF Init, TaskTypes
<1>2. QueueTypes
  <2>1. <<>> \in Seq(Dispatches) /\ Len(<<>>) = 0 /\ 0 <= QueueCap
    BY SpawnAssumption
  <2>2. \A c \in Convs : queue[c] = <<>> /\ active[c] = None
    BY DEF Init
  <2>3. queue \in [Convs -> Seq(Dispatches)] /\ active \in [Convs -> Dispatches \union {None}]
    BY <2>1 DEF Init
  <2>4. QED BY <2>1, <2>2, <2>3 DEF QueueTypes, Init
<1>3. StageInv
  BY SpawnAssumption DEF Init, StageInv, Dispatches
<1>4. ActiveInv /\ QueueInv /\ QueueHasDriver
  BY DEF Init, ActiveInv, QueueInv, QueueHasDriver
<1>5. VerdictInv /\ SerialInv /\ SlotsHeld
  BY DEF Init, VerdictInv, SerialInv, SlotsHeld, InMap, Running
<1>6. QED BY <1>1, <1>2, <1>3, <1>4, <1>5 DEF IInv

\* The end of a task in close, error or force-kill: its process leaves the map
\* and _onTaskFinished runs.
Ends(d, s) ==
  /\ proc[d] # "none"
  /\ \A x \in Dispatches : x # d => proc'[x] = proc[x]
  /\ proc'[d] \in {"forced", "errored", "gone"}
  /\ \A x \in Dispatches : x # d => /\ status'[x] = status[x]
                                    /\ told'[x] = told[x] /\ reply'[x] = reply[x]
  /\ status'[d] # "running"
  /\ reply[d] # "none" => reply'[d] # "none"
  /\ arrived' = arrived /\ conv' = conv /\ overlapped' = overlapped
  /\ killed' \subseteq killed
  /\ s \subseteq dequeued /\ settling \subseteq s
  /\ TaskFinished(d, s)

\* What such a step leaves of the invariant.
LEMMA EndsInv ==
  ASSUME IInv, NEW d \in Dispatches, NEW s, Ends(d, s)
  PROVE  /\ stage' \in [Dispatches -> Stages]
         /\ QueueTypes' /\ StageInv' /\ ActiveInv' /\ QueueInv'
         /\ SerialInv' /\ SlotsHeld' /\ QueueHasDriver'
<1>0. conv[d] \in Convs
  BY DEF IInv, TaskTypes
<1>1. /\ Moved(conv[d], s)
      /\ \A c \in Convs : active'[c] = IF active[c] = d /\ c = conv[d] THEN None ELSE active[c]
      /\ active' \in [Convs -> Dispatches \union {None}]
      /\ active[conv[d]] = d => Driven(conv[d])
      /\ active[conv[d]] # d => queue' = queue /\ stage' = stage
  BY FinishedMoves DEF Ends, IInv
<1>2. stage' \in [Dispatches -> Stages] /\ QueueTypes'
  BY <1>1 DEF Moved, QueueTypes
<1>3. \A x \in Dispatches : stage'[x] # stage[x] =>
        /\ stage[x] = "queued" /\ conv[x] = conv[d] /\ stage'[x] \in {"preparing", "refused"}
        /\ active[conv[d]] = d
  BY <1>1 DEF Moved
<1>4. stage[d] = "started" /\ stage'[d] = "started"
  BY <1>3 DEF IInv, StageInv, Ends
<1>5. StageInv'
  BY <1>3, <1>4 DEF IInv, StageInv, Ends
<1>6. \A x \in Dispatches : InMap(x)' => InMap(x) /\ x # d
  BY DEF Ends, InMap
<1>7. \A x \in Dispatches : InMap(x) /\ x # d => InMap(x)'
  BY DEF Ends, InMap
<1>8. ActiveInv'
  <2> SUFFICES ASSUME NEW c \in Convs, active'[c] # None
               PROVE  /\ conv'[active'[c]] = c
                      /\ InMap(active[c])' \/ stage'[active'[c]] = "threw"
    BY DEF ActiveInv
  <2>1. PICK a \in Dispatches : a = active'[c] /\ a = active[c]
    BY <1>1
  <2>2. conv[a] = c /\ (InMap(a) \/ stage[a] = "threw")
    BY <2>1 DEF IInv, ActiveInv
  <2>3. a # d
    BY <1>1, <2>1, <2>2
  <2>4. InMap(a)' \/ stage'[a] = "threw"
    BY <1>3, <1>7, <2>2, <2>3
  <2>5. QED BY <2>1, <2>2, <2>4 DEF Ends, InMap
<1>9. QueueInv'
  BY <1>1 DEF Moved, QueueInv, Ends
<1>10. \A x \in Dispatches : Answered(x) => Answered(x)'
  BY <1>3 DEF Answered, Ends
<1>11. SerialInv'
  <2> SUFFICES ASSUME NEW x \in Dispatches, conv[x] \notin overlapped
               PROVE  /\ InMap(x)' => active'[conv[x]] = x
                      /\ \A e \in Dispatches : conv[e] = conv[x] /\ e # x =>
                           /\ stage'[x] = "preparing" => ~InMap(e)'
                           /\ stage'[x] # "new" /\ stage'[e] # "new" =>
                                Answered(x)' \/ Answered(e)'
    BY DEF SerialInv, Ends
  <2>0. conv[x] \in Convs
    BY DEF IInv, TaskTypes
  <2>1. InMap(x)' => active'[conv[x]] = x
    BY <1>1, <1>6, <2>0 DEF IInv, SerialInv
  <2>2. ASSUME NEW e \in Dispatches, conv[e] = conv[x], e # x, stage'[x] = "preparing"
        PROVE  ~InMap(e)'
    <3>1. CASE stage[x] = "preparing"
      BY <1>6, <2>2, <3>1 DEF IInv, SerialInv
    <3>2. CASE stage[x] # "preparing"
      <4>1. active[conv[x]] = d
        BY <1>3, <2>2, <3>2
      <4>2. InMap(e) => active[conv[e]] = e
        BY <2>2 DEF IInv, SerialInv
      <4>3. QED BY <1>6, <2>2, <4>1, <4>2
    <3>3. QED BY <3>1, <3>2
  <2>3. ASSUME NEW e \in Dispatches, conv[e] = conv[x], e # x,
               stage'[x] # "new", stage'[e] # "new"
        PROVE  Answered(x)' \/ Answered(e)'
    <3>1. stage[x] # "new" /\ stage[e] # "new"
      BY <1>3, <2>3
    <3>2. Answered(x) \/ Answered(e)
      BY <2>3, <3>1 DEF IInv, SerialInv
    <3>3. QED BY <1>10, <3>2
  <2>4. QED BY <2>1, <2>2, <2>3
<1>12. SlotsHeld'
  <2> SUFFICES ASSUME NEW x \in Dispatches, status'[x] = "running"
               PROVE  InMap(x)' \/ stage'[x] = "threw"
    BY DEF SlotsHeld, Running
  <2>1. x # d /\ status[x] = "running"
    BY DEF Ends
  <2>2. InMap(x) \/ stage[x] = "threw"
    BY <2>1 DEF IInv, SlotsHeld, Running
  <2>3. QED BY <1>3, <1>7, <2>1, <2>2
<1>13. QueueHasDriver'
  <2> SUFFICES ASSUME NEW c \in Convs, queue'[c] # <<>>
               PROVE  \/ active'[c] # None /\ InMap(active[c])'
                      \/ \E x \in Dispatches :
                           /\ conv[x] = c
                           /\ stage'[x] \in {"preparing", "threw"} \/ x \in settling'
    BY DEF QueueHasDriver, Busy, Ends
  <2>1. CASE c = conv[d] /\ active[c] = d
    BY <1>1, <2>1 DEF Driven
  <2>2. CASE ~(c = conv[d] /\ active[c] = d)
    <3>1. queue[c] # <<>> /\ active'[c] = active[c]
      BY <1>1, <2>2 DEF Moved
    <3>2. CASE Busy(c)
      <4>1. active[c] \in Dispatches /\ InMap(active[c])
        BY <3>2 DEF Busy, IInv, QueueTypes
      <4>2. active[c] # d
        BY <2>2, <3>2 DEF IInv, ActiveInv, Busy
      <4>3. QED BY <1>7, <3>1, <3>2, <4>1, <4>2 DEF Busy, InMap
    <3>3. CASE \E x \in Dispatches :
                 /\ conv[x] = c
                 /\ stage[x] \in {"preparing", "threw"} \/ x \in settling
      <4>1. PICK x \in Dispatches :
                 /\ conv[x] = c
                 /\ stage[x] \in {"preparing", "threw"} \/ x \in settling
        BY <3>3
      <4>2. stage[x] \in {"preparing", "threw"} => stage'[x] = stage[x]
        BY <1>3
      <4>3. x \in settling => x \in settling'
        BY <1>1 DEF Moved, Ends
      <4>4. QED BY <4>1, <4>2, <4>3
    <3>4. QED BY <3>1, <3>2, <3>3 DEF IInv, QueueHasDriver
  <2>3. QED BY <2>1, <2>2
<1>14. QED BY <1>2, <1>5, <1>8, <1>9, <1>11, <1>12, <1>13

\* close.
LEMMA CloseInv == ASSUME IInv, NEW d \in Dispatches, Close(d) PROVE IInv'
<1>0. TaskTypes /\ QueueTypes /\ StageInv /\ VerdictInv
  BY DEF IInv
<1>1. PICK ok \in BOOLEAN, s \in {Judged(d, TRUE), Judged(d, FALSE)} :
        /\ s = Judged(d, ok)
        /\ status' = [status EXCEPT ![d] = s]
        /\ told' = [told EXCEPT ![d] =
             IF status[d] # "running" \/ @ # "none" \/ s = "killed" THEN @
             ELSE IF s = "completed" THEN "done" ELSE "error"]
        /\ reply' = [reply EXCEPT ![d] =
             IF @ = "none" THEN (IF s = "completed" THEN "ok" ELSE "failed") ELSE @]
  BY DEF Close, Reply
<1>2. /\ s \in Statuses /\ s # "running"
      /\ status[d] # "running" => s = status[d]
      /\ status[d] = "running" => s \in {"completed", "error"}
  BY <1>0, <1>1 DEF Judged, TaskTypes, VerdictInv, Statuses
<1>3. /\ proc[d] \in {"alive", "forced", "errored"}
      /\ proc' = [proc EXCEPT ![d] = "gone"]
      /\ killed' = killed \ {d} /\ failures' = 0 /\ cooled' = cooled
      /\ arrived' = arrived /\ conv' = conv /\ overlapped' = overlapped
  BY DEF Close, calls
<1>4. /\ status' \in [Dispatches -> Statuses]
      /\ told' \in [Dispatches -> {"none", "done", "error"}]
      /\ reply' \in [Dispatches -> {"none", "ok", "failed"}]
      /\ proc' \in [Dispatches -> Procs]
  BY <1>0, <1>1, <1>2, <1>3 DEF TaskTypes, Procs
<1>5. /\ proc'[d] = "gone" /\ status'[d] = s
      /\ reply'[d] # "none" /\ (reply[d] # "none" => reply'[d] = reply[d])
      /\ reply[d] = "none" => reply'[d] = IF s = "completed" THEN "ok" ELSE "failed"
      /\ \A x \in Dispatches : x # d => /\ status'[x] = status[x] /\ told'[x] = told[x]
                                       /\ reply'[x] = reply[x] /\ proc'[x] = proc[x]
  BY <1>0, <1>1, <1>3 DEF TaskTypes
<1>6. PICK r : r = Settled(d)
  OBVIOUS
<1>7. settling \subseteq r /\ r \subseteq dequeued
  BY <1>0, <1>6 DEF Settled, QueueTypes
<1>8. Ends(d, r)
  BY <1>2, <1>3, <1>5, <1>6, <1>7 DEF Ends, Close
<1>9. /\ stage' \in [Dispatches -> Stages]
      /\ QueueTypes' /\ StageInv' /\ ActiveInv' /\ QueueInv'
      /\ SerialInv' /\ SlotsHeld' /\ QueueHasDriver'
  BY <1>8, EndsInv
<1>10. TaskTypes'
  BY <1>0, <1>3, <1>4, <1>9 DEF TaskTypes
<1>11. /\ s = "completed" <=> told'[d] = "done"
       /\ s = "error" <=> told'[d] = "error"
  BY <1>0, <1>1, <1>2 DEF VerdictInv, TaskTypes
<1>14. status[d] = "running" => reply[d] = "none"
  BY <1>0, <1>3 DEF TaskTypes, VerdictInv, StageInv, IInv, SlotsHeld, Running, InMap
<1>12. VerdictInv'
  <2> SUFFICES ASSUME NEW x \in Dispatches
               PROVE  /\ status'[x] = "completed" <=> told'[x] = "done"
                      /\ status'[x] = "error"     <=> told'[x] = "error"
                      /\ reply'[x] = "ok"     => status'[x] = "completed"
                      /\ reply'[x] = "failed" => status'[x] # "completed"
                      /\ proc'[x] = "alive" /\ reply'[x] # "none" => told'[x] # "none"
                      /\ proc'[x] = "failed" => reply'[x] = "none" /\ told'[x] = "none"
                      /\ proc'[x] = "forced" => status'[x] # "running"
                      /\ x \in killed' => status'[x] # "running"
    BY DEF VerdictInv
  <2>1. CASE x # d
    BY <1>0, <1>3, <1>5, <2>1 DEF VerdictInv
  <2>2. CASE x = d
    BY <1>0, <1>2, <1>3, <1>5, <1>11, <1>14, <2>2 DEF VerdictInv
  <2>3. QED BY <2>1, <2>2
<1>13. QED BY <1>9, <1>10, <1>12 DEF IInv

\* error: the spawn failed.
LEMMA SpawnErrorInv == ASSUME IInv, NEW d \in Dispatches, SpawnError(d) PROVE IInv'
<1>0. TaskTypes /\ QueueTypes /\ StageInv /\ VerdictInv
  BY DEF IInv
<1>1. PICK s \in {"killed", "error"} :
        /\ s = IF d \in killed THEN "killed" ELSE "error"
        /\ status' = [status EXCEPT ![d] = s]
  BY DEF SpawnError
<1>2. /\ proc[d] = "failed" /\ reply[d] = "none" /\ told[d] = "none"
      /\ reply' = [reply EXCEPT ![d] = "failed"]
      /\ told' = [told EXCEPT ![d] = IF s = "error" THEN "error" ELSE "none"]
  <2>1. proc[d] = "failed" /\ reply[d] = "none" /\ told[d] = "none"
    BY <1>0 DEF SpawnError, VerdictInv
  <2>2. reply' = [reply EXCEPT ![d] = "failed"]
    BY <2>1 DEF SpawnError, Reply
  <2>3. told' = [told EXCEPT ![d] = IF s = "error" THEN "error" ELSE "none"]
    BY <1>0, <1>1, <2>1 DEF SpawnError, TaskTypes
  <2>4. QED BY <2>1, <2>2, <2>3
<1>3. /\ proc' = [proc EXCEPT ![d] = "errored"]
      /\ killed' = killed \ {d}
      /\ arrived' = arrived /\ conv' = conv /\ overlapped' = overlapped
  BY DEF SpawnError, calls
<1>4. failures' \in Nat /\ cooled' \in BOOLEAN
  <2>1. failures' = failures \/ failures' = failures + 1
    BY Zenon DEF SpawnError, circuit
  <2>2. cooled' \in BOOLEAN
    BY <1>0, Zenon DEF SpawnError, circuit, TaskTypes
  <2>3. failures' \in Nat
    BY <1>0, <2>1 DEF TaskTypes
  <2>4. QED BY <2>2, <2>3
<1>5. /\ status' \in [Dispatches -> Statuses]
      /\ told' \in [Dispatches -> {"none", "done", "error"}]
      /\ reply' \in [Dispatches -> {"none", "ok", "failed"}]
      /\ proc' \in [Dispatches -> Procs]
  BY <1>0, <1>1, <1>2, <1>3 DEF TaskTypes, Procs, Statuses
<1>6. /\ proc'[d] = "errored" /\ status'[d] = s /\ reply'[d] = "failed"
      /\ told'[d] = IF s = "error" THEN "error" ELSE "none"
      /\ \A x \in Dispatches : x # d => /\ status'[x] = status[x] /\ told'[x] = told[x]
                                       /\ reply'[x] = reply[x] /\ proc'[x] = proc[x]
  BY <1>0, <1>1, <1>2, <1>3 DEF TaskTypes
<1>7. PICK r : r = Settled(d)
  OBVIOUS
<1>8. settling \subseteq r /\ r \subseteq dequeued
  BY <1>0, <1>7 DEF Settled, QueueTypes
<1>9. Ends(d, r)
  BY <1>2, <1>3, <1>6, <1>7, <1>8 DEF Ends, SpawnError
<1>10. /\ stage' \in [Dispatches -> Stages]
       /\ QueueTypes' /\ StageInv' /\ ActiveInv' /\ QueueInv'
       /\ SerialInv' /\ SlotsHeld' /\ QueueHasDriver'
  BY <1>9, EndsInv
<1>11. TaskTypes'
  BY <1>0, <1>3, <1>4, <1>5, <1>10 DEF TaskTypes
<1>12. VerdictInv'
  BY <1>0, <1>2, <1>3, <1>6 DEF VerdictInv
<1>13. QED BY <1>10, <1>11, <1>12 DEF IInv

\* The force-kill timer.
LEMMA ForceKillInv == ASSUME IInv, NEW d \in Dispatches, ForceKill(d) PROVE IInv'
<1>0. TaskTypes /\ QueueTypes /\ StageInv /\ VerdictInv
  BY DEF IInv
<1>1. /\ d \in killed /\ proc[d] = "alive" /\ killed' = killed \ {d}
      /\ proc' = [proc EXCEPT ![d] = "forced"]
      /\ arrived' = arrived /\ conv' = conv /\ overlapped' = overlapped
      /\ status' = status /\ told' = told /\ reply' = reply
      /\ failures' = failures /\ cooled' = cooled
  BY DEF ForceKill, calls, outcome, circuit
<1>2. /\ status[d] # "running" /\ proc'[d] = "forced" /\ proc' \in [Dispatches -> Procs]
      /\ \A x \in Dispatches : x # d => proc'[x] = proc[x]
  BY <1>0, <1>1 DEF VerdictInv, TaskTypes, Procs
<1>3. PICK r : r = settling
  OBVIOUS
<1>4. Ends(d, r)
  BY <1>0, <1>1, <1>2, <1>3 DEF Ends, ForceKill, QueueTypes
<1>5. /\ stage' \in [Dispatches -> Stages]
      /\ QueueTypes' /\ StageInv' /\ ActiveInv' /\ QueueInv'
      /\ SerialInv' /\ SlotsHeld' /\ QueueHasDriver'
  BY <1>4, EndsInv
<1>6. TaskTypes'
  BY <1>0, <1>1, <1>2, <1>5 DEF TaskTypes
<1>7. VerdictInv'
  BY <1>0, <1>1, <1>2 DEF VerdictInv
<1>8. QED BY <1>5, <1>6, <1>7 DEF IInv

\* result, or an overflow, of a task that was told nothing.
LEMMA ToldInv ==
  ASSUME IInv, NEW d \in Dispatches, Result(d) \/ Overflow(d)
  PROVE  IInv'
<1>0. TaskTypes /\ QueueTypes /\ StageInv /\ VerdictInv
  BY DEF IInv
<1>1. /\ proc[d] = "alive" /\ told[d] = "none"
      /\ arrived' = arrived /\ conv' = conv /\ overlapped' = overlapped
      /\ stage' = stage /\ reply' = reply /\ proc' = proc /\ killed' = killed
      /\ active' = active /\ queue' = queue /\ dequeued' = dequeued /\ settling' = settling
      /\ failures' = failures /\ cooled' = cooled
  BY <1>0 DEF Result, Overflow, calls, queues, circuit, VerdictInv, TaskTypes
<1>2. PICK s \in {"completed", "error"} :
        /\ status' = [status EXCEPT ![d] = s]
        /\ told' = [told EXCEPT ![d] = IF s = "completed" THEN "done" ELSE "error"]
  <2>1. CASE Result(d)
    <3>1. PICK ok \in BOOLEAN :
            /\ status' = [status EXCEPT ![d] = IF ok THEN "completed" ELSE "error"]
            /\ told' = [told EXCEPT ![d] = IF ok THEN "done" ELSE "error"]
      BY <2>1 DEF Result
    <3>2. CASE ok
      BY <3>1, <3>2
    <3>3. CASE ~ok
      BY <3>1, <3>3
    <3>4. QED BY <3>2, <3>3
  <2>2. CASE Overflow(d)
    BY <2>2 DEF Overflow
  <2>3. QED BY <2>1, <2>2
<1>3. /\ status'[d] = s /\ told'[d] = IF s = "completed" THEN "done" ELSE "error"
      /\ \A x \in Dispatches : x # d => status'[x] = status[x] /\ told'[x] = told[x]
      /\ status' \in [Dispatches -> Statuses]
      /\ told' \in [Dispatches -> {"none", "done", "error"}]
  BY <1>0, <1>2 DEF TaskTypes, Statuses
<1>4. TaskTypes' /\ QueueTypes'
  BY <1>0, <1>1, <1>3 DEF TaskTypes, QueueTypes
<1>5. reply[d] = "none" /\ stage[d] = "started"
  BY <1>0, <1>1 DEF VerdictInv, StageInv, TaskTypes
<1>6. StageInv'
  BY <1>0, <1>1, <1>3, <1>5 DEF StageInv
<1>7. VerdictInv'
  BY <1>0, <1>1, <1>3, <1>5 DEF VerdictInv
<1>8. ActiveInv' /\ QueueInv' /\ SerialInv' /\ QueueHasDriver'
  BY <1>1 DEF IInv, ActiveInv, QueueInv, SerialInv, QueueHasDriver, InMap, Answered, Busy
<1>9. SlotsHeld'
  BY <1>1, <1>3 DEF IInv, SlotsHeld, Running, InMap
<1>10. QED BY <1>4, <1>6, <1>7, <1>8, <1>9 DEF IInv

\* The dispatch timeout or the stall timer.
LEMMA TimesOutInv == ASSUME IInv, NEW d \in Dispatches, TimesOut(d) PROVE IInv'
<1>0. TaskTypes /\ QueueTypes /\ StageInv /\ VerdictInv
  BY DEF IInv
<1>1. /\ proc[d] = "alive" /\ killed' = killed \union {d}
      /\ arrived' = arrived /\ conv' = conv /\ overlapped' = overlapped
      /\ stage' = stage /\ proc' = proc
      /\ active' = active /\ queue' = queue /\ dequeued' = dequeued
      /\ failures' = failures /\ cooled' = cooled
  BY DEF TimesOut, calls, circuit
<1>2. CASE status[d] = "running"
  <2>1. reply[d] = "none" /\ told[d] = "none" /\ stage[d] = "started"
    BY <1>0, <1>1, <1>2 DEF VerdictInv, StageInv, TaskTypes
  <2>2. /\ status' = [status EXCEPT ![d] = "error"]
        /\ told' = [told EXCEPT ![d] = "error"]
        /\ reply' = [reply EXCEPT ![d] = "failed"]
        /\ settling' = Settled(d)
    BY <1>2, <2>1 DEF TimesOut, Reply
  <2>3. settling \subseteq settling' /\ settling' \subseteq dequeued
    BY <1>0, <2>2 DEF Settled, QueueTypes
  <2>4. /\ status'[d] = "error" /\ told'[d] = "error" /\ reply'[d] = "failed"
        /\ \A x \in Dispatches : x # d => /\ status'[x] = status[x] /\ told'[x] = told[x]
                                         /\ reply'[x] = reply[x]
        /\ status' \in [Dispatches -> Statuses]
        /\ told' \in [Dispatches -> {"none", "done", "error"}]
        /\ reply' \in [Dispatches -> {"none", "ok", "failed"}]
    BY <1>0, <2>2 DEF TaskTypes, Statuses
  <2>5. TaskTypes' /\ QueueTypes'
    BY <1>0, <1>1, <2>3, <2>4 DEF TaskTypes, QueueTypes
  <2>6. StageInv'
    BY <1>0, <1>1, <2>1, <2>4 DEF StageInv
  <2>7. VerdictInv'
    BY <1>0, <1>1, <2>1, <2>4 DEF VerdictInv
  <2>8. ActiveInv' /\ QueueInv'
    BY <1>1 DEF IInv, ActiveInv, QueueInv, InMap
  <2>9. SerialInv'
    BY <1>1, <2>4 DEF IInv, SerialInv, InMap, Answered
  <2>10. QueueHasDriver'
    BY <1>1, <2>3 DEF IInv, QueueHasDriver, InMap, Busy
  <2>11. SlotsHeld'
    BY <1>1, <2>4 DEF IInv, SlotsHeld, Running, InMap
  <2>12. QED BY <2>5, <2>6, <2>7, <2>8, <2>9, <2>10, <2>11 DEF IInv
<1>3. CASE status[d] # "running"
  <2>1. status' = status /\ told' = told /\ reply' = reply /\ settling' = settling
    BY <1>3 DEF TimesOut, outcome
  <2>2. TaskTypes' /\ QueueTypes'
    BY <1>0, <1>1, <2>1 DEF TaskTypes, QueueTypes
  <2>3. StageInv' /\ VerdictInv'
    BY <1>0, <1>1, <1>3, <2>1 DEF StageInv, VerdictInv
  <2>4. ActiveInv' /\ QueueInv' /\ SerialInv' /\ QueueHasDriver' /\ SlotsHeld'
    BY <1>1, <2>1 DEF IInv, ActiveInv, QueueInv, SerialInv, QueueHasDriver, InMap, Answered, Busy,
                      SlotsHeld, Running
  <2>5. QED BY <2>2, <2>3, <2>4 DEF IInv
<1>4. QED BY <1>2, <1>3

\* An abort of the conversations cs that kills the victims.
LEMMA AbortInv ==
  ASSUME IInv, NEW cs, NEW victims \in SUBSET Dispatches, cs \subseteq Convs,
         \A x \in victims : InMap(x), Abort(cs, victims)
  PROVE  IInv'
<1>0. TaskTypes /\ QueueTypes /\ StageInv /\ VerdictInv
  BY DEF IInv
<1>1. /\ killed' = killed \union victims
      /\ arrived' = arrived /\ conv' = conv /\ overlapped' = overlapped
      /\ told' = told /\ proc' = proc
      /\ active' = active /\ dequeued' = dequeued /\ settling' = settling
      /\ failures' = failures /\ cooled' = cooled
  BY DEF Abort, calls, circuit
<1>2. /\ \A c \in Convs : queue'[c] = queue[c] \/ (c \in cs /\ queue'[c] = <<>>)
      /\ \A c \in Convs : c \in cs => queue'[c] = <<>>
      /\ queue' \in [Convs -> Seq(Dispatches)]
  BY <1>0 DEF Abort, QueueTypes
<1>3. \A c \in Convs : Len(queue'[c]) <= QueueCap
  <2>1. Len(<<>>) = 0 /\ 0 <= QueueCap
    BY SpawnAssumption
  <2>2. QED BY <1>0, <1>2, <2>1 DEF QueueTypes
<1>4. \A x \in Dispatches :
        \/ stage'[x] = stage[x] /\ reply'[x] = reply[x] /\ ~(stage[x] = "queued" /\ conv[x] \in cs)
        \/ /\ stage[x] = "queued" /\ conv[x] \in cs
           /\ stage'[x] = "flushed" /\ reply'[x] = "failed"
  BY DEF Abort, Waiting
<1>5. /\ stage' \in [Dispatches -> Stages]
      /\ reply' \in [Dispatches -> {"none", "ok", "failed"}]
  BY <1>0 DEF Abort, TaskTypes, Stages
<1>6. \A x \in Dispatches :
        IF x \in victims /\ status[x] = "running" THEN status'[x] = "killed"
                                                  ELSE status'[x] = status[x]
  BY DEF Abort, KilledStatus
<1>7. status' \in [Dispatches -> Statuses]
  BY <1>0 DEF Abort, KilledStatus, TaskTypes, Statuses
<1>8. TaskTypes' /\ QueueTypes'
  BY <1>0, <1>1, <1>2, <1>3, <1>5, <1>7 DEF TaskTypes, QueueTypes
<1>9. \A x \in victims : stage[x] = "started"
  BY <1>0 DEF StageInv, InMap
<1>10. StageInv'
  BY <1>0, <1>1, <1>4, <1>6, <1>9 DEF StageInv
<1>11. VerdictInv'
  <2>1. \A x \in Dispatches : stage[x] = "queued" =>
          status[x] = "none" /\ proc[x] = "none" /\ told[x] = "none"
    BY <1>0 DEF StageInv
  <2>2. QED BY <1>0, <1>1, <1>4, <1>6, <2>1 DEF VerdictInv
<1>12. ActiveInv'
  BY <1>0, <1>1, <1>4 DEF IInv, ActiveInv, QueueTypes, InMap
<1>13. QueueInv'
  <2> SUFFICES ASSUME NEW c \in Convs, NEW i \in 1..Len(queue'[c])
               PROVE  /\ stage'[queue'[c][i]] = "queued" /\ conv[queue'[c][i]] = c
                      /\ \A j \in 1..Len(queue'[c]) : queue'[c][i] = queue'[c][j] => i = j
    BY <1>1 DEF QueueInv
  <2>1. c \notin cs /\ queue'[c] = queue[c]
    BY <1>2
  <2>2. queue[c][i] \in Dispatches
    <3>1. queue[c] \in Seq(Dispatches)
      BY <1>0 DEF QueueTypes
    <3>2. QED BY <2>1, <3>1
  <2>3. stage[queue[c][i]] = "queued" /\ conv[queue[c][i]] = c
    BY <2>1 DEF IInv, QueueInv
  <2>4. QED BY <1>4, <2>1, <2>2, <2>3 DEF IInv, QueueInv
<1>14. SerialInv'
  BY <1>1, <1>4 DEF IInv, SerialInv, InMap, Answered
<1>15. SlotsHeld'
  BY <1>1, <1>4, <1>6, <1>9 DEF IInv, SlotsHeld, Running, InMap
<1>16. QueueHasDriver'
  BY <1>1, <1>2, <1>4 DEF IInv, QueueHasDriver, InMap, Busy
<1>17. QED BY <1>8, <1>10, <1>11, <1>12, <1>13, <1>14, <1>15, <1>16 DEF IInv

\* The continuation of a dequeued dispatch.
LEMMA ContinueInv == ASSUME IInv, NEW d \in Dispatches, Continue(d) PROVE IInv'
<1>0. TaskTypes /\ QueueTypes /\ StageInv /\ VerdictInv /\ QueueInv
  BY DEF IInv
<1>1. /\ d \in settling
      /\ arrived' = arrived /\ conv' = conv /\ overlapped' = overlapped
      /\ status' = status /\ told' = told /\ reply' = reply
      /\ proc' = proc /\ killed' = killed /\ active' = active
      /\ failures' = failures /\ cooled' = cooled
  BY DEF Continue, calls, outcome, circuit
<1>2. PICK c \in Convs : c = conv[d]
  BY <1>0 DEF TaskTypes
<1>3. PICK s : s = settling \ {d}
  OBVIOUS
<1>4. s \subseteq dequeued
  BY <1>0, <1>3 DEF QueueTypes
<1>5. /\ Moved(c, s)
      /\ \/ active[c] # None /\ queue' = queue /\ stage' = stage
         \/ active[c] = None /\ Driven(c)
  <2>1. CASE active[c] # None
    <3>1. settling' = s /\ stage' = stage /\ queue' = queue /\ dequeued' = dequeued
      BY <1>2, <1>3, <2>1 DEF Continue
    <3>2. QED BY <1>0, <1>4, <2>1, <3>1 DEF Moved, QueueTypes, TaskTypes, QueueInv
  <2>2. CASE active[c] = None
    <3>1. DequeueNext(c, s)
      BY <1>2, <1>3, <2>2 DEF Continue
    <3>2. QED BY <1>0, <1>4, <2>2, <3>1, DequeueMoves
  <2>3. QED BY <2>1, <2>2
<1>6. \A x \in Dispatches : stage'[x] # stage[x] =>
        /\ stage[x] = "queued" /\ conv[x] = c /\ stage'[x] \in {"preparing", "refused"}
        /\ active[c] = None
  BY <1>5 DEF Moved
<1>7. TaskTypes' /\ QueueTypes'
  BY <1>0, <1>1, <1>5 DEF TaskTypes, QueueTypes, Moved
<1>8. StageInv'
  BY <1>0, <1>1, <1>6 DEF StageInv
<1>9. VerdictInv'
  BY <1>0, <1>1 DEF VerdictInv
<1>10. ActiveInv'
  BY <1>0, <1>1, <1>6 DEF IInv, ActiveInv, InMap, QueueTypes
<1>11. QueueInv'
  BY <1>1, <1>5 DEF Moved, QueueInv
<1>12. SerialInv'
  <2>1. \A x \in Dispatches : InMap(x)' = InMap(x)
    BY <1>1 DEF InMap
  <2>2. \A x \in Dispatches : Answered(x) => Answered(x)'
    BY <1>1, <1>6 DEF Answered
  <2>3. ASSUME NEW x \in Dispatches, conv[x] \notin overlapped, NEW e \in Dispatches,
               conv[e] = conv[x], e # x
        PROVE  /\ stage'[x] = "preparing" => ~InMap(e)
               /\ stage'[x] # "new" /\ stage'[e] # "new" => Answered(x)' \/ Answered(e)'
    <3>1. e # None
      BY DEF Dispatches, None
    <3>2. /\ stage[x] = "preparing" => ~InMap(e)
          /\ InMap(e) => active[conv[x]] = e
          /\ stage[x] # "new" /\ stage[e] # "new" => Answered(x) \/ Answered(e)
      BY <2>3 DEF IInv, SerialInv
    <3>3. stage'[x] = "preparing" => ~InMap(e)
      BY <1>6, <3>1, <3>2
    <3>4. stage'[x] # "new" /\ stage'[e] # "new" => stage[x] # "new" /\ stage[e] # "new"
      BY <1>6
    <3>5. QED BY <2>2, <3>2, <3>3, <3>4
  <2>4. \A x \in Dispatches : conv[x] \notin overlapped /\ InMap(x) => active[conv[x]] = x
    BY DEF IInv, SerialInv
  <2>5. QED BY <1>1, <2>1, <2>3, <2>4 DEF SerialInv
<1>13. SlotsHeld'
  BY <1>1, <1>6 DEF IInv, SlotsHeld, Running, InMap
<1>14. QueueHasDriver'
  <2> SUFFICES ASSUME NEW k \in Convs, queue'[k] # <<>>
               PROVE  \/ Busy(k)
                      \/ \E x \in Dispatches :
                           /\ conv[x] = k
                           /\ stage'[x] \in {"preparing", "threw"} \/ x \in settling'
    BY <1>1 DEF QueueHasDriver, Busy, InMap
  <2>1. CASE k = c
    <3>1. CASE active[c] = None
      BY <1>5, <2>1, <3>1 DEF Driven
    <3>2. CASE active[c] # None
      <4>1. active[c] \in Dispatches /\ conv[active[c]] = c
            /\ (InMap(active[c]) \/ stage[active[c]] = "threw")
        BY <1>0, <3>2 DEF IInv, ActiveInv, QueueTypes
      <4>2. stage'[active[c]] = stage[active[c]]
        BY <1>5, <3>2
      <4>3. QED BY <2>1, <3>2, <4>1, <4>2 DEF Busy
    <3>3. QED BY <3>1, <3>2
  <2>2. CASE k # c
    <3>1. queue[k] # <<>>
      BY <1>5, <2>2 DEF Moved
    <3>2. CASE \E x \in Dispatches :
                 /\ conv[x] = k
                 /\ stage[x] \in {"preparing", "threw"} \/ x \in settling
      <4>1. PICK x \in Dispatches :
                 /\ conv[x] = k
                 /\ stage[x] \in {"preparing", "threw"} \/ x \in settling
        BY <3>2
      <4>2. x # d /\ (stage[x] \in {"preparing", "threw"} => stage'[x] = stage[x])
        BY <1>2, <1>6, <2>2, <4>1
      <4>3. x \in settling => x \in settling'
        BY <1>3, <1>5, <4>2 DEF Moved
      <4>4. QED BY <4>1, <4>2, <4>3
    <3>3. QED BY <3>1, <3>2 DEF IInv, QueueHasDriver
  <2>3. QED BY <2>1, <2>2
<1>15. QED BY <1>7, <1>8, <1>9, <1>10, <1>11, <1>12, <1>13, <1>14 DEF IInv

\* A dispatch registers its task and spawns.
LEMMA PreparedInv == ASSUME IInv, NEW d \in Dispatches, Prepared(d) PROVE IInv'
<1>0. TaskTypes /\ QueueTypes /\ StageInv /\ VerdictInv
  BY DEF IInv
<1>1. /\ stage[d] = "preparing"
      /\ arrived' = arrived /\ conv' = conv /\ overlapped' = overlapped
      /\ status' = [status EXCEPT ![d] = "running"] /\ told' = told
      /\ killed' = killed
      /\ active' = [active EXCEPT ![conv[d]] = d]
      /\ queue' = queue /\ dequeued' = dequeued
      /\ failures' = failures /\ cooled' = cooled
  BY DEF Prepared, Register, calls, circuit
<1>2. /\ conv[d] \in Convs /\ status[d] = "none" /\ proc[d] = "none" /\ told[d] = "none"
      /\ reply[d] = "none"
  BY <1>0, <1>1 DEF StageInv, TaskTypes
<1>3. PICK p \in Procs, st \in Stages, r \in {"none", "failed"} :
        /\ proc' = [proc EXCEPT ![d] = p] /\ stage' = [stage EXCEPT ![d] = st]
        /\ reply' = [reply EXCEPT ![d] = r]
        /\ \/ p \in {"alive", "failed"} /\ st = "started" /\ r = "none"
           \/ p = "none" /\ st = "threw" /\ r = "failed"
        /\ settling \subseteq settling' /\ settling' \subseteq dequeued
  <2>1. CASE /\ \E p \in {"alive"} \union (SpawnFaults \ {"threw"}) :
                   proc' = [proc EXCEPT ![d] = p]
             /\ stage' = [stage EXCEPT ![d] = "started"]
             /\ UNCHANGED <<reply, settling>>
    <3>1. PICK p \in {"alive"} \union (SpawnFaults \ {"threw"}) :
                   proc' = [proc EXCEPT ![d] = p]
      BY <2>1
    <3>2. p \in {"alive", "failed"} /\ p \in Procs /\ "started" \in Stages
      BY SpawnAssumption DEF Procs, Stages
    <3>3. reply' = [reply EXCEPT ![d] = "none"] /\ settling' = settling
      BY <1>0, <1>2, <2>1 DEF TaskTypes
    <3>4. QED BY <1>0, <2>1, <3>1, <3>2, <3>3 DEF QueueTypes
  <2>2. CASE /\ stage' = [stage EXCEPT ![d] = "threw"]
             /\ reply' = [reply EXCEPT ![d] = "failed"]
             /\ settling' = Settled(d)
             /\ UNCHANGED proc
    <3>1. proc' = [proc EXCEPT ![d] = "none"]
      BY <1>0, <1>2, <2>2 DEF TaskTypes
    <3>2. settling \subseteq settling' /\ settling' \subseteq dequeued
      BY <1>0, <2>2 DEF Settled, QueueTypes
    <3>3. "threw" \in Stages /\ "none" \in Procs
      BY DEF Procs, Stages
    <3>4. QED BY <2>2, <3>1, <3>2, <3>3
  <2>3. QED BY <2>1, <2>2 DEF Prepared
<1>4. /\ proc'[d] = p /\ stage'[d] = st /\ reply'[d] = r /\ status'[d] = "running"
      /\ active'[conv[d]] = d
      /\ \A c \in Convs : c # conv[d] => active'[c] = active[c]
      /\ \A x \in Dispatches : x # d => /\ status'[x] = status[x] /\ reply'[x] = reply[x]
                                       /\ proc'[x] = proc[x] /\ stage'[x] = stage[x]
  BY <1>0, <1>1, <1>2, <1>3 DEF TaskTypes, QueueTypes
<1>5. TaskTypes'
  <2>1. status' \in [Dispatches -> Statuses] /\ proc' \in [Dispatches -> Procs]
    BY <1>0, <1>1, <1>3 DEF TaskTypes, Statuses
  <2>2. stage' \in [Dispatches -> Stages] /\ reply' \in [Dispatches -> {"none", "ok", "failed"}]
    BY <1>0, <1>3 DEF TaskTypes
  <2>3. QED BY <1>0, <1>1, <2>1, <2>2 DEF TaskTypes
<1>6. QueueTypes'
  BY <1>0, <1>1, <1>2, <1>3 DEF QueueTypes
<1>7. StageInv'
  BY <1>0, <1>1, <1>2, <1>3, <1>4 DEF StageInv
<1>8. d \notin killed
  BY <1>0, <1>1 DEF StageInv
<1>10. ActiveInv'
  <2> SUFFICES ASSUME NEW c \in Convs, active'[c] # None
               PROVE  /\ conv[active'[c]] = c
                      /\ proc'[active'[c]] \in {"alive", "failed"} \/ stage'[active'[c]] = "threw"
    BY <1>1 DEF ActiveInv, InMap
  <2>1. CASE c = conv[d]
    BY <1>3, <1>4, <2>1
  <2>2. CASE c # conv[d]
    <3>1. /\ active[c] \in Dispatches /\ conv[active[c]] = c
          /\ proc[active[c]] \in {"alive", "failed"} \/ stage[active[c]] = "threw"
      BY <1>0, <1>4, <2>2 DEF IInv, ActiveInv, QueueTypes, InMap
    <3>2. QED BY <1>4, <2>2, <3>1
  <2>3. QED BY <2>1, <2>2
<1>11. QueueInv'
  <2> SUFFICES ASSUME NEW c \in Convs, NEW i \in 1..Len(queue[c])
               PROVE  stage'[queue[c][i]] = "queued"
    BY <1>1 DEF QueueInv, IInv
  <2>1. queue[c][i] \in Dispatches
    <3>1. queue[c] \in Seq(Dispatches)
      BY <1>0 DEF QueueTypes
    <3>2. QED BY <3>1
  <2>2. stage[queue[c][i]] = "queued"
    BY DEF IInv, QueueInv
  <2>3. QED BY <1>1, <1>4, <2>1, <2>2
<1>12. SerialInv'
  <2>1. \A x \in Dispatches : x # d => InMap(x)' = InMap(x)
    BY <1>4 DEF InMap
  <2>2. \A x \in Dispatches : Answered(x) => Answered(x)'
    BY <1>1, <1>2, <1>4 DEF Answered
  <2>3. ~Answered(d)
    BY <1>1, <1>2 DEF Answered
  <2>4. ASSUME NEW x \in Dispatches, conv[x] \notin overlapped
        PROVE  InMap(x)' => active'[conv[x]] = x
    <3>1. CASE x = d
      BY <1>4, <3>1
    <3>2. CASE x # d /\ conv[x] = conv[d]
      BY <1>1, <2>1, <2>4, <3>2 DEF IInv, SerialInv
    <3>3. CASE x # d /\ conv[x] # conv[d]
      <4>1. conv[x] \in Convs
        BY <1>0 DEF TaskTypes
      <4>2. QED BY <1>4, <2>1, <2>4, <3>3, <4>1 DEF IInv, SerialInv
    <3>4. QED BY <3>1, <3>2, <3>3
  <2>5. ASSUME NEW x \in Dispatches, conv[x] \notin overlapped, NEW e \in Dispatches,
               conv[e] = conv[x], e # x
        PROVE  /\ stage'[x] = "preparing" => ~InMap(e)'
               /\ stage'[x] # "new" /\ stage'[e] # "new" => Answered(x)' \/ Answered(e)'
    <3>1. /\ stage[x] = "preparing" => ~InMap(e)
          /\ stage[x] # "new" /\ stage[e] # "new" => Answered(x) \/ Answered(e)
      BY <2>5 DEF IInv, SerialInv
    <3>2. stage'[x] = "preparing" => ~InMap(e)'
      <4>1. CASE x = d
        BY <1>3, <1>4, <4>1
      <4>2. CASE e = d /\ stage[x] = "preparing"
        <5>1. ~Answered(x)
          BY <1>0, <4>2 DEF Answered, StageInv
        <5>2. QED BY <1>1, <2>3, <3>1, <4>2, <5>1
      <4>3. CASE e # d /\ x # d
        BY <1>4, <2>1, <3>1, <4>3
      <4>4. QED BY <1>4, <2>5, <4>1, <4>2, <4>3
    <3>3. stage'[x] # "new" /\ stage'[e] # "new" => stage[x] # "new" /\ stage[e] # "new"
      BY <1>1, <1>4
    <3>4. QED BY <2>2, <3>1, <3>2, <3>3
  <2>6. QED BY <1>1, <2>4, <2>5 DEF SerialInv
<1>13. SlotsHeld'
  BY <1>3, <1>4 DEF IInv, SlotsHeld, Running, InMap
<1>14. QueueHasDriver'
  <2> SUFFICES ASSUME NEW c \in Convs, queue[c] # <<>>
               PROVE  \/ active'[c] # None /\ proc'[active'[c]] \in {"alive", "failed"}
                      \/ \E x \in Dispatches :
                           /\ conv[x] = c
                           /\ stage'[x] \in {"preparing", "threw"} \/ x \in settling'
    BY <1>1 DEF QueueHasDriver, Busy, InMap
  <2>1. CASE c = conv[d]
    <3>1. d # None
      BY DEF Dispatches, None
    <3>2. QED BY <1>3, <1>4, <2>1, <3>1
  <2>2. CASE c # conv[d]
    <3>1. CASE Busy(c)
      <4>1. /\ active[c] \in Dispatches /\ conv[active[c]] = c /\ active[c] # None
            /\ proc[active[c]] \in {"alive", "failed"}
        BY <1>0, <3>1 DEF IInv, ActiveInv, QueueTypes, InMap, Busy
      <4>2. QED BY <1>4, <2>2, <4>1
    <3>2. CASE \E x \in Dispatches :
                 /\ conv[x] = c
                 /\ stage[x] \in {"preparing", "threw"} \/ x \in settling
      BY <1>3, <1>4, <2>2, <3>2
    <3>3. QED BY <3>1, <3>2 DEF IInv, QueueHasDriver
  <2>3. QED BY <2>1, <2>2
<1>15. VerdictInv'
  BY <1>0, <1>1, <1>2, <1>3, <1>4, <1>8 DEF VerdictInv
<1>16. QED BY <1>5, <1>6, <1>7, <1>10, <1>11, <1>12, <1>13, <1>14, <1>15 DEF IInv

\* A call of dispatch: it is refused, waits, or starts.
LEMMA DispatchInv == ASSUME IInv, NEW d \in Dispatches, Dispatch(d) PROVE IInv'
<1>0. TaskTypes /\ QueueTypes /\ StageInv /\ VerdictInv
  BY DEF IInv
<1>1. /\ d = arrived + 1 /\ arrived' = d /\ conv' = conv
      /\ status' = status /\ told' = told /\ reply' = reply
      /\ proc' = proc /\ killed' = killed /\ active' = active
      /\ dequeued' = dequeued /\ settling' = settling
      /\ failures' = failures /\ cooled' = cooled
  BY DEF Dispatch, outcome, circuit
<1>2. /\ stage[d] = "new" /\ proc[d] = "none" /\ status[d] = "none" /\ reply[d] = "none"
      /\ told[d] = "none" /\ d \notin killed /\ conv[d] \in Convs
  <2>1. d > arrived
    BY <1>0, <1>1 DEF TaskTypes
  <2>2. stage[d] = "new"
    BY <1>0, <2>1 DEF StageInv
  <2>3. QED BY <1>0, <2>2 DEF StageInv, TaskTypes
<1>3. PICK c \in Convs : c = conv[d]
  BY <1>2
<1>4. PICK st \in {"queued", "refused", "preparing"} :
        /\ stage' = [stage EXCEPT ![d] = st]
        /\ \/ st = "queued" /\ Busy(c) /\ ~QueueFull(c)
              /\ queue' = [queue EXCEPT ![c] = Append(@, d)]
           \/ st # "queued" /\ queue' = queue
        /\ st = "preparing" => ~Busy(c)
  <2>1. CASE Busy(c) /\ ~QueueFull(c)
    BY <1>3, <2>1 DEF Dispatch, Call
  <2>2. CASE Busy(c) /\ QueueFull(c)
    BY <1>3, <2>2 DEF Dispatch, Call
  <2>3. CASE ~Busy(c)
    <3>1. stage' = [stage EXCEPT ![d] = Started] /\ queue' = queue
      BY <1>3, <2>3 DEF Dispatch, Call
    <3>2. PICK st : st = Started
      OBVIOUS
    <3>3. st \in {"refused", "preparing"}
      BY <3>2 DEF Started
    <3>4. QED BY <2>3, <3>1, <3>2, <3>3
  <2>4. QED BY <2>1, <2>2, <2>3
<1>5. /\ stage'[d] = st /\ stage' \in [Dispatches -> Stages]
      /\ \A x \in Dispatches : x # d => stage'[x] = stage[x]
  BY <1>0, <1>4 DEF TaskTypes, Stages
<1>6. /\ overlapped' \subseteq Convs /\ overlapped \subseteq overlapped'
      /\ c \notin overlapped' =>
           \A e \in Dispatches : e <= arrived /\ conv[e] = c => Answered(e)
  <2>1. \A e \in Dispatches : e <= arrived => e \in 1..arrived
    BY SpawnAssumption DEF Dispatches
  <2>2. QED BY <1>0, <1>3, <2>1 DEF Dispatch, TaskTypes
<1>7. arrived' \in 0..MaxDispatches
  BY <1>1, SpawnAssumption DEF Dispatches
<1>8. TaskTypes'
  BY <1>0, <1>1, <1>5, <1>6, <1>7 DEF TaskTypes
<1>9. /\ queue' \in [Convs -> Seq(Dispatches)]
      /\ \A k \in Convs : k # c => queue'[k] = queue[k]
      /\ \/ queue'[c] = queue[c]
         \/ st = "queued" /\ queue'[c] = Append(queue[c], d) /\ Busy(c) /\ ~QueueFull(c)
  <2>1. queue \in [Convs -> Seq(Dispatches)] /\ queue[c] \in Seq(Dispatches)
    BY <1>0 DEF QueueTypes
  <2>2. PICK longer \in Seq(Dispatches) : longer = Append(queue[c], d)
    <3>1. Append(queue[c], d) \in Seq(Dispatches)
      BY <2>1
    <3>2. QED BY <3>1
  <2>3. CASE queue' = queue
    BY <2>1, <2>3
  <2>4. CASE /\ st = "queued" /\ Busy(c) /\ ~QueueFull(c)
             /\ queue' = [queue EXCEPT ![c] = longer]
    BY <2>1, <2>2, <2>4
  <2>5. QED BY <1>4, <2>2, <2>3, <2>4
<1>10. /\ queue[c] \in Seq(Dispatches) /\ Len(queue[c]) \in Nat
       /\ Len(Append(queue[c], d)) = Len(queue[c]) + 1
       /\ Append(queue[c], d)[Len(queue[c]) + 1] = d
       /\ \A i \in 1..Len(queue[c]) : /\ Append(queue[c], d)[i] = queue[c][i]
                                      /\ queue[c][i] \in Dispatches
  <2>1. queue[c] \in Seq(Dispatches)
    BY <1>0 DEF QueueTypes
  <2>2. QED BY <2>1
<1>11. QueueTypes'
  <2>1. Len(queue'[c]) <= QueueCap
    BY <1>0, <1>9, <1>10, SpawnAssumption DEF QueueFull, QueueTypes
  <2>2. \A k \in Convs : k # c => Len(queue'[k]) <= QueueCap
    BY <1>0, <1>9 DEF QueueTypes
  <2>3. QED BY <1>0, <1>1, <1>9, <2>1, <2>2 DEF QueueTypes
<1>12. StageInv'
  <2>1. ASSUME NEW x \in Dispatches
        PROVE  stage'[x] = "new" <=> x > arrived'
    <3>1. x \in Int /\ arrived \in Int
      BY <1>0 DEF TaskTypes, Dispatches
    <3>2. stage[x] = "new" <=> x > arrived
      BY <1>0 DEF StageInv
    <3>3. CASE x = d
      BY <1>1, <1>5, <3>1, <3>3
    <3>4. CASE x # d
      BY <1>1, <1>5, <3>1, <3>2, <3>4
    <3>5. QED BY <3>3, <3>4
  <2>2. QED BY <1>0, <1>1, <1>2, <1>5, <2>1 DEF StageInv
<1>13. VerdictInv'
  BY <1>0, <1>1 DEF VerdictInv
<1>14. ActiveInv'
  BY <1>0, <1>1, <1>2, <1>5 DEF IInv, ActiveInv, InMap, QueueTypes
<1>15. QueueInv'
  <2> SUFFICES ASSUME NEW k \in Convs, NEW i \in 1..Len(queue'[k])
               PROVE  /\ stage'[queue'[k][i]] = "queued" /\ conv[queue'[k][i]] = k
                      /\ \A j \in 1..Len(queue'[k]) : queue'[k][i] = queue'[k][j] => i = j
    BY <1>1 DEF QueueInv
  <2>1. \A m \in 1..Len(queue[k]) :
          /\ queue[k][m] \in Dispatches
          /\ stage[queue[k][m]] = "queued" /\ conv[queue[k][m]] = k
          /\ \A j \in 1..Len(queue[k]) : queue[k][m] = queue[k][j] => m = j
    <3>1. queue[k] \in Seq(Dispatches)
      BY <1>0 DEF QueueTypes
    <3>2. QED BY <3>1 DEF IInv, QueueInv
  <2>2. \A m \in 1..Len(queue[k]) : queue[k][m] # d
    BY <1>2, <2>1
  <2>3. CASE queue'[k] = queue[k]
    BY <1>5, <2>1, <2>2, <2>3
  <2>4. CASE queue'[k] # queue[k]
    <3>1. k = c /\ st = "queued" /\ queue'[k] = Append(queue[k], d)
      BY <1>9, <2>4
    <3>2. Len(queue'[k]) = Len(queue[k]) + 1 /\ Len(queue[k]) \in Nat
      BY <1>10, <3>1
    <3>3. \A m \in 1..Len(queue'[k]) :
            \/ m \in 1..Len(queue[k]) /\ queue'[k][m] = queue[k][m]
            \/ m = Len(queue[k]) + 1 /\ queue'[k][m] = d
      BY <1>10, <3>1, <3>2
    <3>4. stage'[queue'[k][i]] = "queued" /\ conv[queue'[k][i]] = k
      BY <1>3, <1>5, <2>1, <2>2, <3>1, <3>3
    <3>5. ASSUME NEW j \in 1..Len(queue'[k]), queue'[k][i] = queue'[k][j]
          PROVE  i = j
      BY <2>1, <2>2, <3>3, <3>5
    <3>6. QED BY <3>4, <3>5
  <2>5. QED BY <2>3, <2>4
<1> DEFINE Known(x) == reply[x] # "none" \/ stage'[x] = "refused"
<1>16. \A x \in Dispatches : Answered(x) => Known(x)
  BY <1>1, <1>2, <1>5 DEF Answered
<1>17. SerialInv'
  <2>1. ASSUME NEW x \in Dispatches, conv[x] \notin overlapped', InMap(x)
        PROVE  active[conv[x]] = x
    BY <1>6, <2>1 DEF IInv, SerialInv
  <2>2. ASSUME NEW x \in Dispatches, conv[x] \notin overlapped', NEW e \in Dispatches,
               conv[e] = conv[x], e # x, stage'[x] = "preparing"
        PROVE  ~InMap(e)
    <3>1. CASE x = d
      <4>1. ~Busy(c) /\ e # None
        BY <1>4, <1>5, <2>2, <3>1 DEF Dispatches, None
      <4>2. InMap(e) => active[c] = e
        BY <1>3, <1>6, <2>2, <3>1 DEF IInv, SerialInv
      <4>3. QED BY <4>1, <4>2 DEF Busy
    <3>2. CASE x # d
      BY <1>5, <1>6, <2>2, <3>2 DEF IInv, SerialInv
    <3>3. QED BY <3>1, <3>2
  <2>3. ASSUME NEW x \in Dispatches, conv[x] \notin overlapped', NEW e \in Dispatches,
               conv[e] = conv[x], e # x, stage'[x] # "new", stage'[e] # "new"
        PROVE  Known(x) \/ Known(e)
    <3>0. ASSUME NEW y \in Dispatches, y # d, stage'[y] # "new", conv[y] = c,
                 c \notin overlapped'
          PROVE  Known(y)
      <4>1. y \in Int /\ arrived \in Int
        BY <1>0 DEF TaskTypes, Dispatches
      <4>2. stage[y] # "new"
        BY <1>5, <3>0
      <4>3. y <= arrived
        BY <1>0, <4>1, <4>2 DEF StageInv
      <4>4. Answered(y)
        BY <1>6, <3>0, <4>3
      <4>5. QED BY <1>16, <4>4
    <3>2. CASE x = d
      <4>1. e # d /\ conv[e] = c /\ c \notin overlapped' /\ stage'[e] # "new"
        BY <1>3, <2>3, <3>2
      <4>2. Known(e)
        BY <3>0, <4>1
      <4>3. QED BY <4>2
    <3>3. CASE e = d
      <4>1. x # d /\ conv[x] = c /\ c \notin overlapped' /\ stage'[x] # "new"
        BY <1>3, <2>3, <3>3
      <4>2. Known(x)
        BY <3>0, <4>1
      <4>3. QED BY <4>2
    <3>4. CASE x # d /\ e # d
      <4>1. stage[x] # "new" /\ stage[e] # "new" /\ conv[x] \notin overlapped
        BY <1>5, <1>6, <2>3, <3>4
      <4>2. Answered(x) \/ Answered(e)
        BY <2>3, <4>1 DEF IInv, SerialInv
      <4>3. QED BY <1>16, <4>2
    <3>5. QED BY <3>2, <3>3, <3>4
  <2>4. QED BY <1>1, <2>1, <2>2, <2>3 DEF SerialInv, InMap, Answered
<1>18. SlotsHeld'
  BY <1>1, <1>2, <1>5 DEF IInv, SlotsHeld, Running, InMap
<1>19. QueueHasDriver'
  <2> SUFFICES ASSUME NEW k \in Convs, queue'[k] # <<>>
               PROVE  \/ Busy(k)
                      \/ \E x \in Dispatches :
                           /\ conv[x] = k
                           /\ stage'[x] \in {"preparing", "threw"} \/ x \in settling
    BY <1>1 DEF QueueHasDriver, Busy, InMap
  <2>1. CASE queue'[k] # queue[k]
    BY <1>9, <2>1
  <2>2. CASE queue'[k] = queue[k]
    <3>1. CASE Busy(k)
      BY <3>1
    <3>2. CASE \E x \in Dispatches :
                 /\ conv[x] = k
                 /\ stage[x] \in {"preparing", "threw"} \/ x \in settling
      BY <1>2, <1>5, <3>2
    <3>3. QED BY <2>2, <3>1, <3>2 DEF IInv, QueueHasDriver
  <2>3. QED BY <2>1, <2>2
<1>20. QED BY <1>8, <1>11, <1>12, <1>13, <1>14, <1>15, <1>17, <1>18, <1>19 DEF IInv

\* Every step keeps the invariant.
LEMMA StepInv == IInv /\ [Next]_vars => IInv'
<1> SUFFICES ASSUME IInv, [Next]_vars PROVE IInv'
  OBVIOUS
<1>1. ASSUME NEW d \in Dispatches, Step(d) PROVE IInv'
  BY <1>1, DispatchInv, PreparedInv, ContinueInv, ToldInv, CloseInv, SpawnErrorInv,
     TimesOutInv, ForceKillInv DEF Step
<1>2. ASSUME NEW c \in Convs, AbortConversation(c) PROVE IInv'
  <2> DEFINE victims == {d \in Dispatches : d = active[c] /\ InMap(d)}
  <2>1. Abort({c}, victims)
    BY <1>2 DEF AbortConversation
  <2>2. {c} \subseteq Convs /\ victims \in SUBSET Dispatches /\ \A x \in victims : InMap(x)
    OBVIOUS
  <2> HIDE DEF victims
  <2>3. QED BY <2>1, <2>2, AbortInv
<1>3. CASE AbortAll
  <2> DEFINE victims == {d \in Dispatches : InMap(d)}
  <2>1. Abort(Convs, victims)
    BY <1>3 DEF AbortAll
  <2>2. victims \in SUBSET Dispatches /\ \A x \in victims : InMap(x)
    OBVIOUS
  <2> HIDE DEF victims
  <2>3. QED BY <2>1, <2>2, AbortInv
<1>4. ASSUME /\ arrived' = arrived /\ conv' = conv /\ overlapped' = overlapped
             /\ stage' = stage /\ status' = status /\ told' = told /\ reply' = reply
             /\ proc' = proc /\ killed' = killed /\ active' = active /\ queue' = queue
             /\ dequeued' = dequeued /\ settling' = settling
             /\ failures' = failures /\ cooled' \in BOOLEAN
      PROVE  IInv'
  <2>1. TaskTypes' /\ QueueTypes'
    BY <1>4 DEF IInv, TaskTypes, QueueTypes
  <2>2. StageInv' /\ VerdictInv'
    BY <1>4 DEF IInv, StageInv, VerdictInv
  <2>3. ActiveInv' /\ QueueInv' /\ SerialInv' /\ QueueHasDriver' /\ SlotsHeld'
    BY <1>4 DEF IInv, ActiveInv, QueueInv, SerialInv, QueueHasDriver, SlotsHeld,
                InMap, Answered, Busy, Running
  <2>4. QED BY <2>1, <2>2, <2>3 DEF IInv
<1>5. CASE CooldownElapses
  BY <1>4, <1>5 DEF CooldownElapses, calls, outcome, queues
<1>6. CASE UNCHANGED vars
  <2>1. cooled' \in BOOLEAN
    BY <1>6 DEF vars, IInv, TaskTypes
  <2>2. QED BY <1>4, <1>6, <2>1 DEF vars
<1>7. QED BY <1>1, <1>2, <1>3, <1>5, <1>6 DEF Next

----------------------------------------------------------------------------
(* The theorems.                                                           *)

\* The inductive invariant holds in every reachable state.
THEOREM IInvHolds == Spec => []IInv
<1>1. QED BY InitInv, StepInv, PTL DEF Spec

\* dispatch, its handlers and timers keep every variable in its type, and never
\* queue more than MAX_CONVERSATION_QUEUE_DEPTH dispatches of a conversation.
THEOREM TypeCorrect == Spec => []TypeOK
<1>1. IInv => TypeOK
  BY DEF IInv, TaskTypes, QueueTypes, TypeOK, Stages, Statuses, Procs
<1>2. QED BY <1>1, IInvHolds, PTL

\* _onTaskFinished and _dequeueNext never leave a queue with nobody to drain it,
\* except after a spawn that threw.
THEOREM QueuesDriven == Spec => []QueueHasDriver
<1>1. IInv => QueueHasDriver
  BY DEF IInv
<1>2. QED BY <1>1, IInvHolds, PTL

\* Only a task with a process (or one whose spawn threw) counts against
\* maxConcurrency, whatever killed, timed out or ended it.
THEOREM SlotsAreHeld == Spec => []SlotsHeld
<1>1. IInv => SlotsHeld
  BY DEF IInv
<1>2. QED BY <1>1, IInvHolds, PTL

\* The callback and the promise of a dispatch never contradict each other.
THEOREM Verdicts == Spec => []VerdictsAgree
<1>1. IInv => VerdictsAgree
  <2> SUFFICES ASSUME IInv, NEW d \in Dispatches
               PROVE  /\ told[d] = "done"  => reply[d] # "failed"
                      /\ told[d] = "error" => reply[d] # "ok"
                      /\ reply[d] = "ok"   => told[d] = "done"
                      /\ status[d] = "killed" => told[d] = "none"
    BY DEF VerdictsAgree
  <2>1. told[d] \in {"none", "done", "error"}
    BY DEF IInv, TaskTypes
  <2>2. QED BY <2>1 DEF IInv, VerdictInv
<1>2. QED BY <1>1, IInvHolds, PTL

\* A conversation whose dispatches are called one after the other never has two
\* of them being prepared or running.
THEOREM Serial == Spec => []OneAtATime
<1>1. IInv => OneAtATime
  <2> SUFFICES ASSUME IInv, NEW d \in Dispatches, NEW e \in Dispatches,
                      conv[d] = conv[e], conv[d] \notin overlapped,
                      stage[d] = "preparing" \/ InMap(d),
                      stage[e] = "preparing" \/ InMap(e), d # e
               PROVE  FALSE
    BY DEF OneAtATime
  <2>1. CASE InMap(d) /\ InMap(e)
    BY <2>1 DEF IInv, SerialInv
  <2>2. CASE stage[d] = "preparing" /\ InMap(e)
    BY <2>2 DEF IInv, SerialInv
  <2>3. CASE stage[e] = "preparing" /\ InMap(d)
    BY <2>3 DEF IInv, SerialInv
  <2>4. CASE stage[d] = "preparing" /\ stage[e] = "preparing"
    <3>1. ~Answered(d) /\ ~Answered(e)
      BY <2>4 DEF Answered, IInv, StageInv
    <3>2. QED BY <2>4, <3>1 DEF IInv, SerialInv
  <2>5. QED BY <2>1, <2>2, <2>3, <2>4
<1>2. QED BY <1>1, IInvHolds, PTL

----------------------------------------------------------------------------
(* PluginSessions: the invariant.                                          *)

\* Stores of distinct conversations, for any sessions.
Stores ==
  {s \in Seq(Conversations \X (Nat \ {0})) :
     Len(s) <= MaxEntries /\ \A i, j \in DOMAIN s : s[i][1] = s[j][1] => i = j}

SessionTypes ==
  /\ turn \in [Conversations -> {"idle", "loading", "running"}]
  /\ resumed \in [Conversations -> Nat] /\ own \in [Conversations -> Nat]
  /\ zombie \in [Conversations -> [own : Nat, status : {"none", "killed", "error"}]]
  /\ mem \in [Conversations -> Nat] /\ minted \in Nat
  /\ store \in Seq(Stores) /\ content \in Stores /\ late \subseteq Stores
  /\ disk \in Stores \cup {Torn}
  /\ last \in [Conversations -> Int]

\* Every store there is: of this life, being written, and in the file.
Versions ==
  {store[i] : i \in DOMAIN store} \cup late \cup ({disk} \ {Torn})
    \cup (IF flush = "write" THEN {content} ELSE {})

\* What a daemon that has loaded no store, or changed none, has not done either.
Idleness ==
  /\ cache = 0 => /\ ~touched
                  /\ \A c \in Conversations : /\ mem[c] = 0 /\ zombie[c] = NoTask
                                              /\ turn[c] # "running"
  /\ \A c \in Conversations : turn[c] = "loading" => mem[c] = 0 /\ zombie[c] = NoTask
  /\ ~touched => ~dirty /\ flush = "idle" /\ late = {}
  /\ ~abandoned => late = {}
  /\ flush # "idle" => target \in 1..cache

\* No session is of two conversations.
Uses(c) ==
  ({mem[c], own[c], resumed[c], zombie[c].own} \cup {SessionOf(v, c) : v \in Versions}) \ {0}

Apart ==
  /\ \A c \in Conversations : Uses(c) \subseteq 1..minted
  /\ \A c, d \in Conversations : c # d => Uses(c) \cap Uses(d) = {}

\* Where the session that a conversation should resume is found: in memory, in
\* the store, or by a load, in the file and in what is still written to it; and
\* what the next daemon will find.
InMemory(c) == turn[c] = "idle" /\ mem[c] # 0 => mem[c] = last[c] /\ mem[c] \in done
InStore(c)  == mem[c] = 0 /\ cache # 0 /\ turn[c] # "loading"
                 => SessionOf(store[cache], c) = last[c]
InFile(c)   == cache = 0 \/ turn[c] = "loading" \/ (mem[c] = 0 /\ last[c] # 0)
                 => disk # Torn /\ \A v \in Versions : SessionOf(v, c) = last[c]
ToFile(c)   == /\ ~raced /\ cache # 0 /\ c \in Keys(store[cache])
                    => SessionOf(store[cache], c) = last[c]
               /\ ~touched => disk # Torn /\ SessionOf(disk, c) = last[c]

Remembered ==
  ~haunted => \A c \in Conversations :
    /\ turn[c] = "running" /\ own[c] # 0 => mem[c] = own[c]
    /\ last[c] # Unknown => /\ turn[c] = "running" => resumed[c] = last[c]
                            /\ InMemory(c) /\ InStore(c) /\ InFile(c) /\ ToFile(c)

\* The file, and the write under way, are those of the cached store.
Synced ==
  ~raced /\ ~abandoned =>
    /\ flush # "idle" => target = cache
    /\ touched /\ ~dirty /\ flush = "idle" => disk = store[cache]
    /\ flush = "write" /\ ~dirty => content = store[cache]

SessionsInv == SessionTypes /\ Idleness /\ Apart /\ Remembered /\ Synced

----------------------------------------------------------------------------
(* Stores.                                                                 *)

LEMMA StoreFacts ==
  ASSUME NEW s \in Stores
  PROVE  /\ Len(s) \in Nat /\ Len(s) <= MaxEntries /\ DOMAIN s = 1..Len(s)
         /\ \A i \in 1..Len(s) : /\ s[i][1] \in Conversations /\ s[i][2] \in Nat \ {0}
                                 /\ s[i][1] \in Keys(s) /\ Lookup(s, s[i][1]) = i
                                 /\ SessionOf(s, s[i][1]) = s[i][2]
         /\ \A c : c \in Keys(s) => /\ Lookup(s, c) \in 1..Len(s) /\ s[Lookup(s, c)][1] = c
                                    /\ SessionOf(s, c) \in Nat \ {0}
         /\ \A c : c \notin Keys(s) => SessionOf(s, c) = 0
         /\ \A c : SessionOf(s, c) \in Nat
<1>1. /\ s \in Seq(Conversations \X (Nat \ {0})) /\ Len(s) <= MaxEntries
      /\ \A i, j \in DOMAIN s : s[i][1] = s[j][1] => i = j
  BY DEF Stores
<1>2. Len(s) \in Nat /\ DOMAIN s = 1..Len(s)
      /\ \A i \in 1..Len(s) : s[i] \in Conversations \X (Nat \ {0})
  BY <1>1
<1>3. \A i \in 1..Len(s) : s[i][1] \in Conversations /\ s[i][2] \in Nat \ {0}
  BY <1>2
<1>4. \A c : c \in Keys(s) => Lookup(s, c) \in 1..Len(s) /\ s[Lookup(s, c)][1] = c
  <2> SUFFICES ASSUME NEW c, c \in Keys(s)
               PROVE  Lookup(s, c) \in 1..Len(s) /\ s[Lookup(s, c)][1] = c
    OBVIOUS
  <2>1. \E i \in DOMAIN s : s[i][1] = c
    BY DEF Keys
  <2>2. Lookup(s, c) = CHOOSE i \in DOMAIN s : s[i][1] = c
    BY DEF Lookup
  <2>3. QED BY <1>2, <2>1, <2>2
<1>5. \A i \in 1..Len(s) : s[i][1] \in Keys(s)
  BY <1>2 DEF Keys
<1>6. \A i \in 1..Len(s) : Lookup(s, s[i][1]) = i
  <2> TAKE i \in 1..Len(s)
  <2>1. Lookup(s, s[i][1]) \in 1..Len(s) /\ s[Lookup(s, s[i][1])][1] = s[i][1]
    BY <1>4, <1>5
  <2>2. QED BY <1>1, <1>2, <2>1
<1>7. \A i \in 1..Len(s) : SessionOf(s, s[i][1]) = s[i][2]
  BY <1>5, <1>6 DEF SessionOf
<1>8. \A c : c \in Keys(s) => SessionOf(s, c) \in Nat \ {0}
  BY <1>3, <1>4 DEF SessionOf
<1>9. \A c : c \notin Keys(s) => SessionOf(s, c) = 0
  BY DEF SessionOf
<1>10. QED BY <1>1, <1>2, <1>3, <1>4, <1>5, <1>6, <1>7, <1>8, <1>9

\* A save: the session is there, and what else is there was there before.
LEMMA WithFacts ==
  ASSUME NEW s \in Stores, NEW c \in Conversations, NEW sid \in Nat \ {0}
  PROVE  /\ With(s, c, sid) \in Stores /\ SessionOf(With(s, c, sid), c) = sid
         /\ \A k \in Conversations :
              k # c => \/ SessionOf(With(s, c, sid), k) = SessionOf(s, k)
                       \/ k \in Keys(s) \ Keys(With(s, c, sid))
<1> DEFINE e == <<c, sid>>
           E == Conversations \X (Nat \ {0})
           t == IF c \in Keys(s) THEN [s EXCEPT ![Lookup(s, c)] = e] ELSE Append(s, e)
           d == IF Len(t) > MaxEntries THEN Len(t) - MaxEntries ELSE 0
           u == With(s, c, sid)
<1>1. /\ s \in Seq(E) /\ Len(s) \in Nat /\ Len(s) <= MaxEntries /\ DOMAIN s = 1..Len(s)
      /\ \A i \in 1..Len(s) : Lookup(s, s[i][1]) = i
      /\ c \in Keys(s) => Lookup(s, c) \in 1..Len(s) /\ s[Lookup(s, c)][1] = c
      /\ \A i \in 1..Len(s) : s[i][1] \in Keys(s)
  BY StoreFacts DEF Stores
<1>2. e \in E /\ e[1] = c /\ e[2] = sid /\ MaxEntries \in Nat /\ MaxEntries > 0
  BY SessionsAssumption
<1> HIDE DEF e
<1>3. /\ t \in Seq(E) /\ Len(t) \in Nat
      /\ \E j \in 1..Len(t) : /\ t[j] = e /\ (Len(t) > MaxEntries => j = Len(t))
                              /\ \A i \in 1..Len(t) :
                                   i # j => i \in 1..Len(s) /\ t[i] = s[i] /\ s[i][1] # c
      /\ Len(t) <= MaxEntries + 1
  <2>1. CASE c \in Keys(s)
    <3> DEFINE j == Lookup(s, c)
    <3>1. t = [s EXCEPT ![j] = e] /\ j \in 1..Len(s)
      BY <1>1, <2>1
    <3> HIDE DEF t
    <3>2. t \in Seq(E) /\ Len(t) = Len(s) /\ t[j] = e /\ \A i \in 1..Len(s) : i # j => t[i] = s[i]
      BY <1>1, <1>2, <3>1
    <3>3. \A i \in 1..Len(s) : i # j => s[i][1] # c
      BY <1>1
    <3> HIDE DEF j
    <3>4. QED BY <1>1, <1>2, <3>1, <3>2, <3>3
  <2>2. CASE c \notin Keys(s)
    <3>1. t = Append(s, e)
      BY <2>2
    <3> HIDE DEF t
    <3>2. t \in Seq(E) /\ Len(t) = Len(s) + 1 /\ t[Len(s) + 1] = e
          /\ \A i \in 1..Len(s) : t[i] = s[i]
      BY <1>1, <1>2, <3>1
    <3>3. \A i \in 1..Len(s) : s[i][1] # c
      BY <1>1, <2>2
    <3>4. Len(s) + 1 \in 1..Len(t)
      BY <1>1, <3>2
    <3>5. \A i \in 1..Len(t) : i # Len(s) + 1 => i \in 1..Len(s)
      BY <1>1, <3>2
    <3>6. QED BY <1>1, <1>2, <3>2, <3>3, <3>4, <3>5
  <2>3. QED BY <2>1, <2>2
<1>4. u = SubSeq(t, 1 + d, Len(t))
  BY DEF With, e
<1> HIDE DEF t, u
<1>5. d \in {0, 1} /\ d <= Len(t) /\ Len(t) - d <= MaxEntries
  BY <1>2, <1>3
<1> HIDE DEF d
<1>6. /\ u \in Seq(E) /\ Len(u) = Len(t) - d
      /\ \A i \in 1..Len(u) : i + d \in 1..Len(t) /\ u[i] = t[i + d]
  BY <1>3, <1>4, <1>5
<1>7. PICK j \in 1..Len(t) : /\ t[j] = e /\ (Len(t) > MaxEntries => j = Len(t))
                             /\ \A i \in 1..Len(t) :
                                  i # j => i \in 1..Len(s) /\ t[i] = s[i] /\ s[i][1] # c
  BY <1>3
<1>8. u \in Stores
  <2>1. DOMAIN u = 1..Len(u) /\ Len(u) <= MaxEntries /\ Len(u) \in Nat
    BY <1>3, <1>5, <1>6
  <2>2. ASSUME NEW i \in 1..Len(u), NEW k \in 1..Len(u), u[i][1] = u[k][1] PROVE i = k
    <3>1. i + d \in 1..Len(t) /\ k + d \in 1..Len(t) /\ t[i + d][1] = t[k + d][1]
      BY <1>6, <2>2
    <3>2. i + d = k + d
      BY <1>1, <1>2, <1>7, <3>1
    <3>3. QED BY <1>5, <2>1, <3>2
  <2>3. QED BY <1>6, <2>1, <2>2 DEF Stores
<1>9. SessionOf(u, c) = sid
  <2>1. j - d \in 1..Len(u)
    BY <1>2, <1>3, <1>5, <1>6, <1>7 DEF d
  <2>2. (j - d) + d = j
    BY <1>3, <1>5
  <2>3. u[j - d] = e
    BY <1>6, <1>7, <2>1, <2>2
  <2>4. QED BY <1>2, <1>8, <2>1, <2>3, StoreFacts
<1>10. ASSUME NEW k \in Conversations, k # c
       PROVE  SessionOf(u, k) = SessionOf(s, k) \/ k \in Keys(s) \ Keys(u)
  <2>1. CASE k \in Keys(u)
    <3>1. PICK i \in 1..Len(u) : u[i][1] = k
      BY <1>8, <2>1, StoreFacts
    <3>2. i + d \in 1..Len(s) /\ u[i] = s[i + d]
      BY <1>2, <1>6, <1>7, <1>10, <3>1
    <3>3. SessionOf(u, k) = u[i][2] /\ SessionOf(s, k) = s[i + d][2]
      BY <1>8, <3>1, <3>2, StoreFacts
    <3>4. QED BY <3>2, <3>3
  <2>2. CASE k \notin Keys(u)
    BY <1>8, <2>2, StoreFacts
  <2>3. QED BY <2>1, <2>2
<1>11. QED BY <1>8, <1>9, <1>10 DEF u

LEMMA WithoutFacts ==
  ASSUME NEW s \in Stores, NEW c \in Conversations
  PROVE  /\ Without(s, c) \in Stores /\ SessionOf(Without(s, c), c) = 0
         /\ \A k \in Conversations : k # c => SessionOf(Without(s, c), k) = SessionOf(s, k)
<1> DEFINE E == Conversations \X (Nat \ {0})
           j == Lookup(s, c)
           u == Without(s, c)
<1>1. /\ s \in Seq(E) /\ Len(s) \in Nat /\ Len(s) <= MaxEntries /\ DOMAIN s = 1..Len(s)
      /\ \A i \in 1..Len(s) : Lookup(s, s[i][1]) = i /\ s[i] \in E
      /\ MaxEntries \in Nat
  BY StoreFacts, SessionsAssumption DEF Stores
<1>2. CASE c \notin Keys(s)
  BY <1>2, StoreFacts DEF Without
<1>3. CASE c \in Keys(s)
  <2>1. j \in 1..Len(s) /\ s[j][1] = c
    BY <1>3, StoreFacts
  <2>2. u = [i \in 1..(Len(s) - 1) |-> s[IF i < j THEN i ELSE i + 1]]
    BY <1>3 DEF Without
  <2> HIDE DEF j, u
  <2>3. Len(s) - 1 \in Nat
    BY <1>1, <2>1
  <2>4. ASSUME NEW i \in 1..(Len(s) - 1)
        PROVE  /\ (IF i < j THEN i ELSE i + 1) \in 1..Len(s)
               /\ (IF i < j THEN i ELSE i + 1) # j
               /\ u[i] = s[IF i < j THEN i ELSE i + 1]
    BY <1>1, <2>1, <2>2
  <2>5. u \in Seq(E) /\ Len(u) = Len(s) - 1 /\ DOMAIN u = 1..(Len(s) - 1)
    <3>1. u \in [1..(Len(s) - 1) -> E]
      BY <1>1, <2>2, <2>4
    <3>2. QED BY <2>3, <3>1
  <2>6. u \in Stores
    <3>1. ASSUME NEW i \in 1..(Len(s) - 1), NEW k \in 1..(Len(s) - 1), u[i][1] = u[k][1]
          PROVE  i = k
      <4>1. (IF i < j THEN i ELSE i + 1) = (IF k < j THEN k ELSE k + 1)
        BY <1>1, <2>4, <3>1
      <4>2. QED BY <1>1, <2>1, <4>1
    <3>2. Len(u) <= MaxEntries
      BY <1>1, <2>3, <2>5
    <3>3. \A i, k \in DOMAIN u : u[i][1] = u[k][1] => i = k
      BY <2>5, <3>1
    <3>4. QED BY <2>5, <3>2, <3>3 DEF Stores
  <2>7. c \notin Keys(u)
    <3>1. \A i \in 1..(Len(s) - 1) : u[i][1] # c
      BY <1>1, <2>1, <2>4 DEF j
    <3>2. QED BY <2>5, <3>1 DEF Keys
  <2>8. ASSUME NEW k \in Conversations, k # c
        PROVE  SessionOf(u, k) = SessionOf(s, k)
    <3>1. CASE k \in Keys(s)
      <4>1. PICK i \in 1..Len(s) : s[i][1] = k
        BY <3>1, StoreFacts
      <4>2. i # j
        BY <2>1, <2>8, <4>1
      <4> DEFINE h == IF i < j THEN i ELSE i - 1
      <4>3. h \in 1..(Len(s) - 1) /\ (IF h < j THEN h ELSE h + 1) = i
        BY <1>1, <2>1, <4>2
      <4> HIDE DEF h
      <4>4. u[h] = s[i] /\ h \in 1..Len(u)
        BY <2>4, <2>5, <4>3
      <4>5. QED BY <2>6, <4>1, <4>4, StoreFacts
    <3>2. CASE k \notin Keys(s)
      <4>1. \A i \in 1..(Len(s) - 1) : u[i][1] # k
        BY <2>4, <3>2, StoreFacts
      <4>2. k \notin Keys(u)
        BY <2>5, <4>1 DEF Keys
      <4>3. QED BY <2>6, <3>2, <4>2, StoreFacts
    <3>3. QED BY <3>1, <3>2
  <2>9. QED BY <2>6, <2>7, <2>8, StoreFacts DEF u
<1>4. QED BY <1>2, <1>3

----------------------------------------------------------------------------
(* Sessions and their conversations.                                       *)

LEMMA VersionFacts ==
  ASSUME SessionTypes
  PROVE  /\ cache \in Nat /\ DOMAIN store = 1..cache /\ \A i \in 1..cache : store[i] \in Stores
         /\ cache # 0 => store[cache] \in Stores /\ store[cache] \in Versions
         /\ Versions \subseteq Stores
         /\ disk # Torn => disk \in Versions
         /\ Torn \notin Stores
<1>1. cache \in Nat /\ DOMAIN store = 1..cache /\ \A i \in 1..cache : store[i] \in Stores
  BY DEF SessionTypes, cache
<1>2. cache # 0 => store[cache] \in Stores /\ store[cache] \in Versions
  BY <1>1 DEF Versions
<1>3. Versions \subseteq Stores
  BY <1>1 DEF Versions, SessionTypes
<1>4. disk # Torn => disk \in Versions
  BY DEF Versions
<1>5. Torn \notin Stores
  <2>1. Torn[1][2] = 0 /\ 1 \in 1..Len(Torn)
    BY DEF Torn
  <2>2. QED BY <2>1, StoreFacts
<1>6. QED BY <1>1, <1>2, <1>3, <1>4, <1>5

LEMMA UsesFacts ==
  ASSUME NEW c, NEW n
  PROVE  n \in Uses(c) <=> /\ n # 0
                           /\ \/ n \in {mem[c], own[c], resumed[c], zombie[c].own}
                              \/ \E v \in Versions : n = SessionOf(v, c)
BY DEF Uses

\* Only a session that has just been minted is new, and for one conversation.
LEMMA ApartKept ==
  ASSUME Apart, minted \in Nat, minted' \in {minted, minted + 1}, NEW x,
         \A c \in Conversations : \A n \in Uses(c)' :
           n \in Uses(c) \/ (c = x /\ minted' = minted + 1 /\ n = minted')
  PROVE  Apart'
<1>1. \A c \in Conversations : Uses(c)' \subseteq 1..minted'
  BY DEF Apart
<1>2. \A c, d \in Conversations : c # d => Uses(c)' \cap Uses(d)' = {}
  <2> SUFFICES ASSUME NEW c \in Conversations, NEW d \in Conversations, c # d, NEW n,
                      n \in Uses(c)', n \in Uses(d)'
               PROVE  FALSE
    OBVIOUS
  <2>1. \A k \in Conversations : n \in Uses(k) => n <= minted /\ n \in Nat
    BY DEF Apart
  <2>2. n \in Uses(c) /\ n \in Uses(d)
    BY <2>1
  <2>3. QED BY <2>2 DEF Apart
<1>3. QED BY <1>1, <1>2 DEF Apart

----------------------------------------------------------------------------
(* The steps that write the file.                                          *)

LEMMA FileStep ==
  ASSUME SessionsInv, SessionTypes', Synced', UNCHANGED <<tasks, loaded>>,
         Versions' \subseteq Versions, disk' = disk \/ disk' # Torn,
         touched \/ UNCHANGED <<disk, dirty, flush, late>>,
         ~abandoned' => late' = {}, flush' # "idle" => target' \in 1..cache
  PROVE  SessionsInv'
<1>1. SessionTypes /\ Idleness /\ Apart /\ Remembered
  BY DEF SessionsInv
<1>2. UNCHANGED <<minted, turn, resumed, own, zombie, mem, done, last, haunted, store, touched, raced>>
      /\ cache' = cache
  BY DEF tasks, loaded, cache
<1>3. Idleness'
  BY <1>1, <1>2 DEF Idleness
<1>4. Apart'
  <2>1. \A c \in Conversations : \A n \in Uses(c)' : n \in Uses(c)
    BY <1>2 DEF Uses
  <2>2. minted \in Nat
    BY <1>1 DEF SessionTypes
  <2>3. QED BY <1>1, <1>2, <2>1, <2>2, ApartKept
<1>5. Remembered'
  <2> SUFFICES ASSUME ~haunted, NEW c \in Conversations
               PROVE  (/\ turn[c] = "running" /\ own[c] # 0 => mem[c] = own[c]
                       /\ last[c] # Unknown => /\ turn[c] = "running" => resumed[c] = last[c]
                                               /\ InMemory(c) /\ InStore(c)
                                               /\ InFile(c) /\ ToFile(c))'
    BY <1>2 DEF Remembered
  <2>1. /\ turn[c] = "running" /\ own[c] # 0 => mem[c] = own[c]
        /\ last[c] # Unknown => /\ turn[c] = "running" => resumed[c] = last[c]
                                /\ InMemory(c) /\ InStore(c) /\ InFile(c) /\ ToFile(c)
    BY <1>1 DEF Remembered
  <2>2. InMemory(c) /\ InStore(c) => InMemory(c)' /\ InStore(c)'
    BY <1>2 DEF InMemory, InStore
  <2>3. InFile(c) => InFile(c)'
    BY <1>2 DEF InFile
  <2>4. ToFile(c) => ToFile(c)'
    BY <1>2 DEF ToFile
  <2>5. QED BY <1>2, <2>1, <2>2, <2>3, <2>4
<1>6. QED BY <1>3, <1>4, <1>5 DEF SessionsInv

LEMMA FlushStep ==
  ASSUME SessionsInv, TimerFires \/ WriteBegins \/ WriteEnds \/ WriteFails \/ WriteTimesOut
                      \/ Stop \/ StopFlushes \/ \E s \in late : LateWriteLands(s)
  PROVE  SessionsInv'
<1>1. SessionTypes /\ Idleness /\ Synced
  BY DEF SessionsInv
<1>2. UNCHANGED <<tasks, loaded>> /\ cache' = cache
  BY DEF TimerFires, WriteBegins, WriteEnds, WriteFails, WriteTimesOut, Stop, StopFlushes,
         LateWriteLands, life, loaded, cache
<1>3. UNCHANGED <<minted, turn, resumed, own, zombie, mem, last, store, touched, raced>>
  BY <1>2 DEF tasks, loaded
<1>4. /\ cache \in Nat /\ DOMAIN store = 1..cache /\ \A i \in 1..cache : store[i] \in Stores
      /\ cache # 0 => store[cache] \in Stores
      /\ Torn \notin Stores /\ <<>> \in Stores
  <2>1. <<>> \in Stores
    <3>1. MaxEntries \in Nat
      BY SessionsAssumption
    <3>2. QED BY <3>1 DEF Stores
  <2>2. QED BY <1>1, <2>1, VersionFacts
<1>5. ASSUME content' \in Stores, late' \subseteq Stores, disk' \in Stores \cup {Torn}
      PROVE  SessionTypes'
  BY <1>1, <1>3, <1>5 DEF SessionTypes
<1>6. CASE TimerFires \/ StopFlushes
  <2>1. UNCHANGED <<content, late, disk, abandoned>>
        /\ \/ UNCHANGED <<dirty, flush, target>>
           \/ flush = "idle" /\ dirty /\ dirty' = FALSE /\ flush' = "mkdir" /\ target' = cache
    BY <1>6 DEF TimerFires, StopFlushes, FlushBegins, file
  <2>2. dirty => touched /\ cache # 0
    BY <1>1 DEF Idleness
  <2>3. SessionTypes'
    BY <1>1, <1>5, <2>1 DEF SessionTypes
  <2>4. Versions' \subseteq Versions
    BY <1>3, <2>1 DEF Versions
  <2>5. Synced'
    BY <1>1, <1>2, <1>3, <2>1 DEF Synced
  <2>6. touched \/ UNCHANGED <<disk, dirty, flush, late>>
    BY <2>1, <2>2
  <2>7. flush' # "idle" => target' \in 1..cache
    BY <1>1, <1>4, <2>1, <2>2 DEF Idleness
  <2>8. QED BY <1>1, <1>2, <2>1, <2>3, <2>4, <2>5, <2>6, <2>7, FileStep DEF Idleness
<1>7. CASE WriteBegins
  <2>1. /\ flush = "mkdir" /\ flush' = "write" /\ content' = store[target]
        /\ UNCHANGED <<late, disk, abandoned, dirty, target>>
    BY <1>7 DEF WriteBegins
  <2>2. touched /\ target \in 1..cache
    BY <1>1, <2>1 DEF Idleness
  <2>3. SessionTypes'
    BY <1>1, <1>4, <1>5, <2>1, <2>2 DEF SessionTypes
  <2>4. Versions' \subseteq Versions
    BY <1>3, <1>4, <2>1, <2>2 DEF Versions
  <2>5. Synced'
    BY <1>1, <1>2, <1>3, <2>1 DEF Synced
  <2>6. QED BY <1>1, <1>2, <2>1, <2>2, <2>3, <2>4, <2>5, FileStep DEF Idleness
<1>8. CASE WriteEnds
  <2>1. /\ flush = "write" /\ disk' = content /\ content' = <<>> /\ flush' = "idle"
        /\ (dirty' <=> dirty) /\ UNCHANGED <<late, abandoned>>
    BY <1>8 DEF WriteEnds, Flushed
  <2>2. touched
    BY <1>1, <2>1 DEF Idleness
  <2>3. SessionTypes'
    BY <1>1, <1>4, <1>5, <2>1 DEF SessionTypes
  <2>4. Versions' \subseteq Versions
    BY <1>3, <2>1 DEF Versions
  <2>5. Synced'
    BY <1>1, <1>2, <1>3, <2>1 DEF Synced
  <2>6. disk' # Torn
    BY <1>1, <1>4, <2>1 DEF SessionTypes
  <2>7. QED BY <1>1, <1>2, <2>1, <2>2, <2>3, <2>4, <2>5, <2>6, FileStep DEF Idleness
<1>9. CASE WriteFails \/ WriteTimesOut
  <2>1. /\ flush # "idle" /\ content' = <<>> /\ flush' = "idle" /\ dirty' = TRUE /\ disk' = disk
        /\ \/ UNCHANGED <<late, abandoned>>
           \/ flush = "write" /\ late' = late \cup {content} /\ abandoned' = TRUE
    BY <1>9 DEF WriteFails, WriteTimesOut, Flushed
  <2>2. touched
    BY <1>1, <2>1 DEF Idleness
  <2>3. SessionTypes'
    BY <1>1, <1>4, <1>5, <2>1 DEF SessionTypes
  <2>4. Versions' \subseteq Versions
    BY <1>3, <2>1 DEF Versions
  <2>5. Synced'
    BY <2>1 DEF Synced
  <2>6. ~abandoned' => late' = {}
    BY <1>1, <2>1 DEF Idleness
  <2>7. QED BY <1>2, <2>1, <2>2, <2>3, <2>4, <2>5, <2>6, FileStep
<1>10. CASE Stop
  <2>1. UNCHANGED <<content, late, disk, abandoned, dirty, flush, target>>
    BY <1>10 DEF Stop, file, saving
  <2>2. SessionTypes'
    BY <1>1, <1>5, <2>1 DEF SessionTypes
  <2>3. Versions' \subseteq Versions /\ Synced'
    BY <1>1, <1>2, <1>3, <2>1 DEF Versions, Synced
  <2>4. QED BY <1>1, <1>2, <2>1, <2>2, <2>3, FileStep DEF Idleness
<1>11. ASSUME NEW s \in late, LateWriteLands(s) PROVE SessionsInv'
  <2>1. /\ late' = late \ {s} /\ disk' = s /\ UNCHANGED <<content, abandoned, dirty, flush, target>>
    BY <1>11 DEF LateWriteLands, saving
  <2>2. touched /\ abandoned
    BY <1>1 DEF Idleness
  <2>3. SessionTypes'
    BY <1>1, <1>5, <2>1 DEF SessionTypes
  <2>4. Versions' \subseteq Versions
    BY <1>3, <2>1 DEF Versions
  <2>5. Synced'
    BY <2>1, <2>2 DEF Synced
  <2>6. disk' # Torn
    BY <1>1, <1>4, <2>1 DEF SessionTypes
  <2>7. QED BY <1>1, <1>2, <2>1, <2>2, <2>3, <2>4, <2>5, <2>6, FileStep DEF Idleness
<1>12. QED BY <1>6, <1>7, <1>8, <1>9, <1>10, <1>11

----------------------------------------------------------------------------
(* Dispatches.                                                             *)

LEMMA ResolveStep ==
  ASSUME SessionsInv, NEW c \in Conversations, Resolve(c)
  PROVE  SessionsInv'
<1>1. SessionTypes /\ Idleness /\ Apart /\ Remembered /\ Synced
  BY DEF SessionsInv
<1>2. /\ turn[c] = "idle"
      /\ UNCHANGED <<zombie, last, haunted, content, late, disk, abandoned, dirty, flush, target,
                     store, touched, raced>>
  BY DEF Resolve, file, saving, loaded
<1>3. cache' = cache /\ cache \in Nat /\ (cache # 0 => store[cache] \in Versions)
  BY <1>1, <1>2, VersionFacts DEF cache
<1>4. Versions' = Versions
  BY <1>2 DEF Versions
<1>5. Synced'
  BY <1>1, <1>2, <1>3 DEF Synced
<1>6. /\ \A n \in done : n \in done'
      /\ \/ /\ mem[c] # 0 /\ turn' = [turn EXCEPT ![c] = "running"] /\ mem' = [mem EXCEPT ![c] = mem[c]]
            /\ resumed' = [resumed EXCEPT ![c] = IF mem[c] \in done THEN mem[c] ELSE 0]
            /\ own' = [own EXCEPT ![c] = 0] /\ minted' = minted
         \/ /\ mem[c] = 0 /\ cache # 0 /\ turn' = [turn EXCEPT ![c] = "running"]
            /\ \/ /\ mem' = [mem EXCEPT ![c] = SessionOf(store[cache], c)] /\ minted' = minted
               \/ /\ mem' = [mem EXCEPT ![c] = minted + 1] /\ minted' = minted + 1
                  /\ SessionOf(store[cache], c) = 0
            /\ resumed' = [resumed EXCEPT ![c] = SessionOf(store[cache], c)]
            /\ own' = [own EXCEPT ![c] = 0]
         \/ /\ mem[c] = 0 /\ cache = 0 /\ turn' = [turn EXCEPT ![c] = "loading"]
            /\ UNCHANGED <<minted, resumed, mem, own>>
  BY DEF Resolve, Start
<1>7. cache # 0 => SessionOf(store[cache], c) \in Nat
  BY <1>1, StoreFacts, VersionFacts
<1>8. SessionTypes'
  <2>1. mem[c] \in Nat /\ minted \in Nat /\ minted + 1 \in Nat /\ 0 \in Nat
    BY <1>1 DEF SessionTypes
  <2>2. turn' \in [Conversations -> {"idle", "loading", "running"}] /\ minted' \in Nat
    BY <1>1, <1>6, <2>1 DEF SessionTypes
  <2>3. resumed' \in [Conversations -> Nat]
    <3>1. \E n \in Nat : resumed' = [resumed EXCEPT ![c] = n] \/ resumed' = resumed
      BY <1>6, <1>7, <2>1
    <3>2. QED BY <1>1, <3>1 DEF SessionTypes
  <2>4. mem' \in [Conversations -> Nat]
    <3>1. \E n \in Nat : mem' = [mem EXCEPT ![c] = n] \/ mem' = mem
      BY <1>6, <1>7, <2>1
    <3>2. QED BY <1>1, <3>1 DEF SessionTypes
  <2>5. own' \in [Conversations -> Nat]
    <3>1. own' = [own EXCEPT ![c] = 0] \/ own' = own
      BY <1>6
    <3>2. own \in [Conversations -> Nat]
      BY <1>1 DEF SessionTypes
    <3>3. QED BY <3>1, <3>2
  <2>6. QED BY <1>1, <1>2, <2>2, <2>3, <2>4, <2>5 DEF SessionTypes
<1>9. Idleness'
  BY <1>1, <1>2, <1>3, <1>6 DEF Idleness, SessionTypes
<1>10. Apart'
  <2>1. minted \in Nat /\ minted' \in {minted, minted + 1}
    BY <1>1, <1>6 DEF SessionTypes
  <2>2. ASSUME NEW k \in Conversations, NEW n \in Uses(k)'
        PROVE  n \in Uses(k) \/ (k = c /\ minted' = minted + 1 /\ n = minted')
    <3>1. n # 0
      BY <2>2 DEF Uses
    <3>2. CASE \E v \in Versions : n = SessionOf(v, k)
      BY <3>1, <3>2, UsesFacts
    <3>3. CASE n \in {mem'[k], own'[k], resumed'[k], zombie'[k].own}
      <4>1. CASE k # c
        BY <1>1, <1>2, <1>6, <3>1, <3>3, <4>1, UsesFacts DEF SessionTypes
      <4>2. CASE k = c
        BY <1>1, <1>2, <1>3, <1>6, <3>1, <3>3, <4>2, UsesFacts DEF SessionTypes
      <4>3. QED BY <4>1, <4>2
    <3>4. QED BY <1>4, <2>2, <3>2, <3>3 DEF Uses
  <2>3. QED BY <1>1, <2>1, <2>2, ApartKept
<1>11. Remembered'
  <2> SUFFICES ASSUME ~haunted, NEW k \in Conversations
               PROVE  (/\ turn[k] = "running" /\ own[k] # 0 => mem[k] = own[k]
                       /\ last[k] # Unknown => /\ turn[k] = "running" => resumed[k] = last[k]
                                               /\ InMemory(k) /\ InStore(k)
                                               /\ InFile(k) /\ ToFile(k))'
    BY <1>2 DEF Remembered
  <2>1. /\ turn[k] = "running" /\ own[k] # 0 => mem[k] = own[k]
        /\ last[k] # Unknown => /\ turn[k] = "running" => resumed[k] = last[k]
                                /\ InMemory(k) /\ InStore(k) /\ InFile(k) /\ ToFile(k)
    BY <1>1 DEF Remembered
  <2>2. CASE k # c
    <3>1. UNCHANGED <<turn[k], own[k], mem[k], resumed[k], last[k]>>
      BY <1>1, <1>2, <1>6, <2>2 DEF SessionTypes
    <3>2. QED BY <1>2, <1>3, <1>4, <1>6, <2>1, <3>1 DEF InMemory, InStore, InFile, ToFile
  <2>3. CASE k = c
    <3>1. own'[c] # 0 => turn'[c] # "running"
      BY <1>1, <1>6 DEF SessionTypes
    <3>2. CASE last[c] = Unknown
      BY <1>2, <2>3, <3>1, <3>2
    <3>3. CASE last[c] # Unknown
      <4>1. InMemory(c) /\ InStore(c) /\ InFile(c) /\ ToFile(c)
        BY <2>1, <2>3, <3>3
      <4>2. ToFile(c)'
        BY <1>2, <1>3, <4>1 DEF ToFile
      <4>3. mem[c] # 0 => mem[c] = last[c] /\ mem[c] \in done /\ cache # 0
        BY <1>1, <1>2, <4>1 DEF InMemory, Idleness
      <4>4. mem[c] = 0 /\ cache # 0 => SessionOf(store[cache], c) = last[c]
        BY <1>2, <4>1 DEF InStore
      <4>5. turn'[c] # "idle" /\ (turn'[c] = "running" => resumed'[c] = last[c])
        BY <1>1, <1>6, <4>3, <4>4 DEF SessionTypes
      <4>6. InStore(c)'
        BY <1>1, <1>2, <1>3, <1>6, <4>3, <4>4 DEF InStore, SessionTypes
      <4>7. InFile(c)'
        BY <1>1, <1>2, <1>3, <1>4, <1>6, <4>1, <4>3, <4>4 DEF InFile, SessionTypes
      <4>8. QED BY <1>2, <2>3, <3>1, <4>2, <4>5, <4>6, <4>7 DEF InMemory
    <3>4. QED BY <3>2, <3>3
  <2>4. QED BY <2>2, <2>3
<1>12. QED BY <1>5, <1>8, <1>9, <1>10, <1>11 DEF SessionsInv

LEMMA ReportedStep ==
  ASSUME SessionsInv, NEW c \in Conversations, Reported(c)
  PROVE  SessionsInv'
<1>1. SessionTypes /\ Idleness /\ Apart /\ Remembered /\ Synced
  BY DEF SessionsInv
<1>2. /\ turn[c] = "running"
      /\ UNCHANGED <<turn, resumed, zombie, done, last, haunted, content, late, disk, abandoned,
                     dirty, flush, target, store, touched, raced>>
  BY DEF Reported, file, saving, loaded
<1>3. cache' = cache /\ cache # 0
  BY <1>1, <1>2 DEF cache, Idleness
<1>4. Versions' = Versions
  BY <1>2 DEF Versions
<1>5. PICK sid : /\ sid = (IF resumed[c] # 0 THEN resumed[c] ELSE minted + 1)
                 /\ own' = [own EXCEPT ![c] = sid] /\ mem' = [mem EXCEPT ![c] = sid]
                 /\ minted' = IF sid > minted THEN sid ELSE minted
  BY DEF Reported
<1>6. /\ minted \in Nat /\ sid \in Nat \ {0} /\ minted' \in {minted, minted + 1}
      /\ sid = resumed[c] \/ (minted' = minted + 1 /\ sid = minted')
  <2>1. minted \in Nat /\ resumed[c] \in Nat
    BY <1>1 DEF SessionTypes
  <2>2. resumed[c] # 0 => resumed[c] \in 1..minted
    BY <1>1 DEF Apart, Uses
  <2>3. QED BY <1>5, <2>1, <2>2
<1>7. SessionTypes'
  BY <1>1, <1>2, <1>5, <1>6 DEF SessionTypes
<1>8. Idleness'
  BY <1>1, <1>2, <1>3, <1>5 DEF Idleness, SessionTypes
<1>9. Apart'
  <2>1. ASSUME NEW k \in Conversations, NEW n \in Uses(k)'
        PROVE  n \in Uses(k) \/ (k = c /\ minted' = minted + 1 /\ n = minted')
    BY <1>1, <1>2, <1>4, <1>5, <1>6, <2>1 DEF Uses, SessionTypes
  <2>2. QED BY <1>1, <1>6, <2>1, ApartKept
<1>10. Synced'
  BY <1>1, <1>2, <1>3 DEF Synced
<1>11. Remembered'
  <2> SUFFICES ASSUME ~haunted, NEW k \in Conversations
               PROVE  (/\ turn[k] = "running" /\ own[k] # 0 => mem[k] = own[k]
                       /\ last[k] # Unknown => /\ turn[k] = "running" => resumed[k] = last[k]
                                               /\ InMemory(k) /\ InStore(k)
                                               /\ InFile(k) /\ ToFile(k))'
    BY <1>2 DEF Remembered
  <2>1. /\ turn[k] = "running" /\ own[k] # 0 => mem[k] = own[k]
        /\ last[k] # Unknown => /\ turn[k] = "running" => resumed[k] = last[k]
                                /\ InMemory(k) /\ InStore(k) /\ InFile(k) /\ ToFile(k)
    BY <1>1 DEF Remembered
  <2>2. CASE k # c
    <3>1. UNCHANGED <<own[k], mem[k]>>
      BY <1>1, <1>5, <2>2 DEF SessionTypes
    <3>2. QED BY <1>2, <1>3, <1>4, <2>1, <3>1 DEF InMemory, InStore, InFile, ToFile
  <2>3. CASE k = c
    <3>1. own'[c] = sid /\ mem'[c] = sid /\ sid # 0
      BY <1>1, <1>5, <1>6 DEF SessionTypes
    <3>2. QED BY <1>2, <1>3, <1>4, <2>1, <2>3, <3>1 DEF InMemory, InStore, InFile, ToFile
  <2>4. QED BY <2>2, <2>3
<1>12. QED BY <1>7, <1>8, <1>9, <1>10, <1>11 DEF SessionsInv

----------------------------------------------------------------------------
(* Loads.                                                                  *)

LEMMA LoadStep ==
  ASSUME SessionsInv, NEW c \in Conversations, NEW ok \in BOOLEAN, LoadEnds(c, ok)
  PROVE  SessionsInv'
<1>1. SessionTypes /\ Idleness /\ Apart /\ Remembered /\ Synced
  BY DEF SessionsInv
<1>2. /\ turn[c] = "loading" /\ mem[c] = 0 /\ zombie[c] = NoTask
      /\ UNCHANGED <<zombie, haunted, touched, content, late, disk, abandoned, dirty, flush, target>>
  BY <1>1 DEF LoadEnds, file, saving, Idleness
<1>3. PICK s : /\ s = (IF ok /\ disk # Torn THEN disk ELSE <<>>) /\ store' = Append(store, s)
               /\ Start(c, SessionOf(s, c), SessionOf(s, c) # 0)
               /\ done' = done \cup ({SessionOf(s, c)} \ {0})
  BY DEF LoadEnds
<1>4. /\ s \in Stores /\ (s = <<>> \/ s \in Versions)
      /\ \A k : SessionOf(s, k) \in Nat
      /\ \A k : SessionOf(s, k) = 0 \/ \E v \in Versions : SessionOf(s, k) = SessionOf(v, k)
      /\ \A k : k \in Keys(s) => SessionOf(s, k) # 0
  <2>1. <<>> \in Stores
    <3>1. MaxEntries \in Nat
      BY SessionsAssumption
    <3>2. QED BY <3>1 DEF Stores
  <2>2. s \in Stores /\ (s = <<>> \/ s \in Versions)
    BY <1>1, <1>3, <2>1, VersionFacts DEF SessionTypes
  <2>3. Keys(<<>>) = {}
    BY DEF Keys
  <2>4. QED BY <2>2, <2>3, StoreFacts
<1>5. /\ cache \in Nat /\ cache' = cache + 1 /\ store'[cache'] = s /\ store' \in Seq(Stores)
      /\ \A i \in 1..cache : store'[i] = store[i]
      /\ DOMAIN store = 1..cache /\ DOMAIN store' = 1..(cache + 1)
  BY <1>1, <1>3, <1>4 DEF cache, SessionTypes
<1>6. \A v : v \in Versions' => v \in Versions \/ v = s
  <2>1. \A i \in DOMAIN store' : store'[i] = s \/ (i \in DOMAIN store /\ store'[i] = store[i])
    BY <1>5
  <2>2. QED BY <1>2, <2>1 DEF Versions
<1>7. /\ turn' = [turn EXCEPT ![c] = "running"] /\ own' = [own EXCEPT ![c] = 0]
      /\ resumed' = [resumed EXCEPT ![c] = SessionOf(s, c)]
      /\ \/ mem' = [mem EXCEPT ![c] = SessionOf(s, c)] /\ minted' = minted
         \/ /\ SessionOf(s, c) = 0
            /\ mem' = [mem EXCEPT ![c] = minted + 1] /\ minted' = minted + 1
      /\ \A n \in done : n \in done'
  <2>1. (IF SessionOf(s, c) # 0 THEN SessionOf(s, c) ELSE 0) = SessionOf(s, c)
    OBVIOUS
  <2>2. QED BY <1>3, <2>1 DEF Start
<1>8. /\ last' \in [Conversations -> Int] /\ raced' = (cache # 0)
      /\ \A k \in Conversations :
           last'[k] # Unknown =>
             /\ last'[k] = last[k]
             /\ mem[k] = 0 => ok /\ (cache = 0 \/ turn[k] = "loading" \/ last[k] # 0)
  <2>1. /\ last' = [k \in Conversations |->
                      IF /\ mem[k] = 0
                         /\ ~ok \/ (cache # 0 /\ turn[k] # "loading" /\ last[k] = 0)
                        THEN Unknown ELSE last[k]]
        /\ raced' = (cache # 0)
    BY DEF LoadEnds
  <2>2. \A k \in Conversations : last[k] \in Int
    BY <1>1 DEF SessionTypes
  <2>3. Unknown \in Int
    BY DEF Unknown
  <2>4. QED BY <2>1, <2>2, <2>3
<1>9. SessionTypes'
  <2>1. minted \in Nat /\ minted + 1 \in Nat /\ SessionOf(s, c) \in Nat
    BY <1>1, <1>4 DEF SessionTypes
  <2>2. /\ turn' \in [Conversations -> {"idle", "loading", "running"}] /\ minted' \in Nat
        /\ own' \in [Conversations -> Nat] /\ resumed' \in [Conversations -> Nat]
    BY <1>1, <1>7, <2>1 DEF SessionTypes
  <2>3. mem' \in [Conversations -> Nat]
    BY <1>1, <1>7, <2>1 DEF SessionTypes
  <2>4. QED BY <1>1, <1>2, <1>5, <1>8, <2>2, <2>3 DEF SessionTypes
<1>10. Idleness'
  <2>1. cache' # 0
    BY <1>5
  <2>2. \A k \in Conversations : turn'[k] = "loading" => mem'[k] = 0 /\ zombie'[k] = NoTask
    BY <1>1, <1>2, <1>7 DEF Idleness, SessionTypes
  <2>3. flush' # "idle" => target' \in 1..cache'
    BY <1>1, <1>2, <1>5 DEF Idleness
  <2>4. QED BY <1>1, <1>2, <2>1, <2>2, <2>3 DEF Idleness
<1>11. Apart'
  <2>1. minted \in Nat /\ minted' \in {minted, minted + 1}
    BY <1>1, <1>7 DEF SessionTypes
  <2>2. ASSUME NEW k \in Conversations, NEW n \in Uses(k)'
        PROVE  n \in Uses(k) \/ (k = c /\ minted' = minted + 1 /\ n = minted')
    <3>1. n # 0
      BY <2>2 DEF Uses
    <3>2. CASE n = SessionOf(s, k)
      BY <1>4, <3>1, <3>2, UsesFacts
    <3>3. CASE \E v \in Versions' : n = SessionOf(v, k)
      BY <1>6, <3>1, <3>2, <3>3, UsesFacts
    <3>4. CASE n \in {mem'[k], own'[k], resumed'[k], zombie'[k].own}
      <4>1. CASE k # c
        BY <1>1, <1>2, <1>7, <3>1, <3>4, <4>1, UsesFacts DEF SessionTypes
      <4>2. CASE k = c
        BY <1>1, <1>2, <1>7, <3>1, <3>2, <3>4, <4>2, UsesFacts DEF SessionTypes
      <4>3. QED BY <4>1, <4>2
    <3>5. QED BY <2>2, <3>3, <3>4 DEF Uses
  <2>3. QED BY <1>1, <2>1, <2>2, ApartKept
<1>12. Synced'
  BY <1>1, <1>2, <1>8 DEF Synced, Idleness
<1>13. Remembered'
  <2> SUFFICES ASSUME ~haunted, NEW k \in Conversations
               PROVE  (/\ turn[k] = "running" /\ own[k] # 0 => mem[k] = own[k]
                       /\ last[k] # Unknown => /\ turn[k] = "running" => resumed[k] = last[k]
                                               /\ InMemory(k) /\ InStore(k)
                                               /\ InFile(k) /\ ToFile(k))'
    BY <1>2 DEF Remembered
  <2>1. /\ turn[k] = "running" /\ own[k] # 0 => mem[k] = own[k]
        /\ last[k] # Unknown => /\ turn[k] = "running" => resumed[k] = last[k]
                                /\ InMemory(k) /\ InStore(k) /\ InFile(k) /\ ToFile(k)
    BY <1>1 DEF Remembered
  <2>2. turn'[k] = "running" /\ own'[k] # 0 => mem'[k] = own'[k]
    BY <1>1, <1>7, <2>1 DEF SessionTypes
  <2>3. CASE last'[k] = Unknown
    BY <2>2, <2>3
  <2>4. CASE last'[k] # Unknown
    <3>1. /\ last'[k] = last[k] /\ InMemory(k) /\ InStore(k) /\ InFile(k) /\ ToFile(k)
          /\ mem[k] = 0 => ok /\ (cache = 0 \/ turn[k] = "loading" \/ last[k] # 0)
      BY <1>8, <2>1, <2>4
    <3>2. mem[k] = 0 => disk # Torn /\ s = disk /\ (\A v \in Versions : SessionOf(v, k) = last[k])
                        /\ SessionOf(s, k) = last[k]
      BY <1>1, <1>3, <3>1, VersionFacts DEF InFile
    <3>3. mem[k] = 0 => \A v \in Versions' : SessionOf(v, k) = last[k]
      BY <1>6, <3>2
    <3>4. ToFile(k)'
      BY <1>1, <1>2, <1>5, <1>8, <3>1, <3>2 DEF ToFile, Idleness
    <3>5. CASE k # c
      <4>1. UNCHANGED <<turn[k], mem[k], resumed[k], own[k]>>
        BY <1>1, <1>7, <3>5 DEF SessionTypes
      <4>2. InMemory(k)'
        BY <1>7, <3>1, <4>1 DEF InMemory
      <4>3. InStore(k)'
        BY <1>5, <3>1, <3>2, <4>1 DEF InStore
      <4>4. turn[k] = "loading" => mem[k] = 0
        BY <1>1 DEF Idleness
      <4>5. InFile(k)'
        BY <1>2, <1>5, <3>1, <3>2, <3>3, <4>1, <4>4 DEF InFile
      <4>6. QED BY <2>1, <2>2, <2>4, <3>1, <3>4, <4>1, <4>2, <4>3, <4>5
    <3>6. CASE k = c
      <4>1. turn'[c] = "running" /\ resumed'[c] = SessionOf(s, c)
            /\ (mem'[c] = 0 => SessionOf(s, c) = 0)
        BY <1>1, <1>7 DEF SessionTypes
      <4>2. SessionOf(s, c) = last[c]
        BY <1>2, <3>2, <3>6
      <4>3. InMemory(c)' /\ InStore(c)'
        BY <1>5, <3>1, <3>6, <4>1, <4>2 DEF InMemory, InStore
      <4>4. InFile(c)'
        BY <1>5, <3>1, <3>6, <4>1, <4>2 DEF InFile
      <4>5. QED BY <2>2, <3>1, <3>4, <3>6, <4>1, <4>2, <4>3, <4>4
    <3>7. QED BY <3>5, <3>6
  <2>5. QED BY <2>3, <2>4
<1>14. QED BY <1>9, <1>10, <1>11, <1>12, <1>13 DEF SessionsInv

----------------------------------------------------------------------------
(* The ends of tasks.                                                      *)

\* The end of a task with the session sid: in the cached store nothing changes but
\* its session and, if the store was full, an old one that goes.
Ended(c, sid, verdict) ==
  /\ sid \in Nat /\ cache' = cache /\ cache \in Nat /\ UNCHANGED <<raced, flush, target>>
  /\ \/ sid = 0 /\ UNCHANGED <<mem, done, store, touched, dirty>>
     \/ /\ sid # 0 /\ touched' = TRUE /\ dirty' = TRUE
        /\ store' \in Seq(Stores) /\ store'[cache] \in Stores
        /\ \A v \in {store'[i] : i \in DOMAIN store'} :
             v = store'[cache] \/ v \in {store[i] : i \in DOMAIN store}
        /\ \A k \in Conversations :
             k # c => \/ SessionOf(store'[cache], k) = SessionOf(store[cache], k)
                      \/ k \in Keys(store[cache]) \ Keys(store'[cache])
        /\ \/ /\ verdict # "error" /\ SessionOf(store'[cache], c) = sid
              /\ done' = done \cup {sid} /\ mem' = mem
           \/ /\ verdict = "error" /\ SessionOf(store'[cache], c) = 0
              /\ done' = done \ {sid} /\ mem' = [mem EXCEPT ![c] = 0]

LEMMA FinishedFacts ==
  ASSUME SessionTypes, cache # 0, NEW c \in Conversations, NEW reported \in Nat, NEW verdict,
         Finished(c, reported, verdict),
         NEW sid, sid = (IF reported # 0 THEN reported ELSE mem[c])
  PROVE  Ended(c, sid, verdict)
<1>1. /\ sid \in Nat /\ cache \in Nat /\ DOMAIN store = 1..cache /\ store[cache] \in Stores
      /\ store \in Seq(Stores) /\ cache \in 1..cache
  BY VersionFacts DEF SessionTypes
<1>2. CASE sid = 0
  BY <1>1, <1>2 DEF Finished, saving, loaded, cache, Ended
<1>3. CASE sid # 0
  <2>1. \/ /\ verdict # "error" /\ done' = done \cup {sid} /\ mem' = mem
           /\ Change(With(store[cache], c, sid))
        \/ /\ verdict = "error" /\ done' = done \ {sid} /\ mem' = [mem EXCEPT ![c] = 0]
           /\ Change(Without(store[cache], c))
    BY <1>3 DEF Finished
  <2>2. PICK u : /\ Change(u)
                 /\ \/ /\ verdict # "error" /\ done' = done \cup {sid} /\ mem' = mem
                       /\ u = With(store[cache], c, sid)
                    \/ /\ verdict = "error" /\ done' = done \ {sid} /\ mem' = [mem EXCEPT ![c] = 0]
                       /\ u = Without(store[cache], c)
    BY <2>1
  <2>3. /\ u \in Stores
        /\ \A k \in Conversations :
             k # c => \/ SessionOf(u, k) = SessionOf(store[cache], k)
                      \/ k \in Keys(store[cache]) \ Keys(u)
        /\ SessionOf(u, c) = (IF verdict = "error" THEN 0 ELSE sid)
    <3>1. CASE u = With(store[cache], c, sid) /\ verdict # "error"
      BY <1>1, <1>3, <3>1, WithFacts
    <3>2. CASE u = Without(store[cache], c) /\ verdict = "error"
      BY <1>1, <3>2, WithoutFacts
    <3>3. QED BY <2>2, <3>1, <3>2
  <2>4. /\ store' = [store EXCEPT ![cache] = u] /\ touched' = TRUE /\ dirty' = TRUE
        /\ UNCHANGED <<raced, flush, target>>
    BY <2>2 DEF Change
  <2>5. /\ cache' = cache /\ store' \in Seq(Stores) /\ store'[cache] = u
        /\ DOMAIN store' = 1..cache /\ \A i \in 1..cache : i # cache => store'[i] = store[i]
    <3>1. /\ DOMAIN store' = 1..cache /\ \A i \in 1..cache : i # cache => store'[i] = store[i]
          /\ store'[cache] = u
      BY <1>1, <2>4
    <3>2. store' \in Seq(Stores)
      BY <1>1, <2>3, <2>4
    <3>3. Len(store') = cache
      BY <1>1, <3>1, <3>2
    <3>4. QED BY <3>1, <3>2, <3>3 DEF cache
  <2>6. \A v \in {store'[i] : i \in DOMAIN store'} :
          v = store'[cache] \/ v \in {store[i] : i \in DOMAIN store}
    BY <1>1, <2>5
  <2>7. QED BY <1>1, <1>3, <2>2, <2>3, <2>4, <2>5, <2>6 DEF Ended
<1>4. QED BY <1>2, <1>3

\* Whichever way a task ends, but for what the conversations should resume.
LEMMA EndStep ==
  ASSUME SessionsInv, NEW c \in Conversations, NEW reported \in {0} \cup Uses(c), NEW verdict,
         cache # 0, Finished(c, reported, verdict), last' \in [Conversations -> Int],
         UNCHANGED <<minted, resumed, own, file>>,
         turn' = turn \/ turn' = [turn EXCEPT ![c] = "idle"], turn[c] # "loading",
         NEW z \in [own : {0} \cup Uses(c), status : {"none", "killed", "error"}],
         zombie' = zombie \/ zombie' = [zombie EXCEPT ![c] = z]
  PROVE  SessionTypes' /\ Idleness' /\ Apart' /\ Synced'
<1>1. SessionTypes /\ Idleness /\ Apart /\ Synced
  BY DEF SessionsInv
<1>2. UNCHANGED <<minted, resumed, own, content, late, disk, abandoned>>
  BY DEF file
<1>3. Uses(c) \subseteq Nat /\ reported \in Nat /\ z.own \in {0} \cup Uses(c)
  BY <1>1 DEF Apart
<1>4. PICK sid : sid = (IF reported # 0 THEN reported ELSE mem[c])
  OBVIOUS
<1>5. sid = 0 \/ sid \in Uses(c)
  BY <1>4 DEF Uses
<1>6. Ended(c, sid, verdict)
  BY <1>1, <1>3, <1>4, FinishedFacts
<1>7. \A k \in Conversations :
        /\ mem'[k] = mem[k] \/ (k = c /\ mem'[k] = 0)
        /\ turn'[k] = turn[k] \/ (k = c /\ turn'[k] = "idle")
        /\ zombie'[k] = zombie[k] \/ (k = c /\ zombie'[k] = z)
  BY <1>1, <1>6 DEF SessionTypes, Ended
<1>8. SessionTypes'
  <2>1. turn' \in [Conversations -> {"idle", "loading", "running"}]
    BY <1>1 DEF SessionTypes
  <2>2. zombie' \in [Conversations -> [own : Nat, status : {"none", "killed", "error"}]]
    <3>1. z \in [own : Nat, status : {"none", "killed", "error"}]
      BY <1>3
    <3>2. zombie \in [Conversations -> [own : Nat, status : {"none", "killed", "error"}]]
      BY <1>1 DEF SessionTypes
    <3>3. QED BY <3>1, <3>2
  <2>3. mem' \in [Conversations -> Nat]
    <3>1. mem' = mem \/ mem' = [mem EXCEPT ![c] = 0]
      BY <1>6 DEF Ended
    <3>2. mem \in [Conversations -> Nat]
      BY <1>1 DEF SessionTypes
    <3>3. QED BY <3>1, <3>2
  <2>4. store' \in Seq(Stores)
    BY <1>1, <1>6 DEF SessionTypes, Ended
  <2>5. QED BY <1>1, <1>2, <2>1, <2>2, <2>3, <2>4 DEF SessionTypes
<1>9. Idleness'
  BY <1>1, <1>2, <1>6, <1>7 DEF Idleness, Ended
<1>10. Synced'
  BY <1>1, <1>2, <1>6 DEF Synced, Ended
<1>11. Apart'
  <2>1. cache # 0 => store[cache] \in Versions
    BY <1>1, VersionFacts
  <2>2. \A v \in Versions' : v \in Versions \/ (v = store'[cache] /\ sid # 0)
    BY <1>2, <1>6 DEF Versions, Ended
  <2>3. \A k \in Conversations : k # c /\ sid # 0 =>
          SessionOf(store'[cache], k) \in {0, SessionOf(store[cache], k)}
    BY <1>6, StoreFacts DEF Ended
  <2>4. sid # 0 => SessionOf(store'[cache], c) \in {0, sid}
    BY <1>6 DEF Ended
  <2>5. ASSUME NEW k \in Conversations, NEW n \in Uses(k)'
        PROVE  n \in Uses(k)
    <3>1. n # 0
      BY <2>5 DEF Uses
    <3>2. CASE \E v \in Versions' : n = SessionOf(v, k)
      BY <1>5, <2>1, <2>2, <2>3, <2>4, <3>1, <3>2, UsesFacts
    <3>3. CASE n \in {mem'[k], own'[k], resumed'[k], zombie'[k].own}
      BY <1>2, <1>3, <1>7, <3>1, <3>3, UsesFacts
    <3>4. QED BY <2>5, <3>2, <3>3 DEF Uses
  <2>6. minted \in Nat
    BY <1>1 DEF SessionTypes
  <2>7. QED BY <1>1, <1>2, <2>5, <2>6, ApartKept
<1>12. QED BY <1>8, <1>9, <1>10, <1>11

\* A task that closes, or that its kill did not end in time.
LEMMA CloseStep ==
  ASSUME SessionsInv, NEW c \in Conversations, NEW verdict \in {"completed", "killed", "error"},
         Closes(c, verdict) \/ (KillTimesOut(c, verdict) /\ verdict # "completed")
  PROVE  SessionsInv'
<1>1. SessionTypes /\ Idleness /\ Apart /\ Remembered
  BY DEF SessionsInv
<1>2. /\ turn[c] = "running" /\ turn' = [turn EXCEPT ![c] = "idle"]
      /\ Finished(c, own[c], verdict) /\ Remember(c, verdict)
      /\ UNCHANGED <<minted, resumed, own, haunted, file, disk>>
      /\ \/ UNCHANGED zombie
         \/ /\ verdict # "completed"
            /\ zombie' = [zombie EXCEPT ![c] = [own |-> own[c], status |-> verdict]]
  BY DEF Closes, KillTimesOut, file
<1>3. PICK sid : sid = (IF own[c] # 0 THEN own[c] ELSE mem[c])
  OBVIOUS
<1>4. cache # 0 /\ own[c] \in Nat /\ mem[c] \in Nat
  BY <1>1, <1>2 DEF Idleness, SessionTypes
<1>5. Ended(c, sid, verdict)
  BY <1>1, <1>2, <1>3, <1>4, FinishedFacts
<1>6. last' = [k \in Conversations |->
                 IF k \in {j \in Keys(store[cache]) \ Keys(store'[cache]) : j # c /\ mem[j] = 0}
                 THEN Unknown
                 ELSE IF k # c \/ sid = 0 THEN last[k]
                 ELSE IF verdict = "error" THEN 0 ELSE sid]
  <2>1. cache' = cache
    BY <1>5 DEF Ended
  <2>2. QED BY <1>2, <1>3, <2>1 DEF Remember
<1>7. SessionTypes' /\ Idleness' /\ Apart' /\ Synced'
  <2>1. last' \in [Conversations -> Int]
    <3>1. \A k \in Conversations : last[k] \in Int
      BY <1>1 DEF SessionTypes
    <3>2. Unknown \in Int /\ sid \in Int
      BY <1>3, <1>4 DEF Unknown
    <3>3. QED BY <1>6, <3>1, <3>2
  <2>2. own[c] \in {0} \cup Uses(c)
    BY <1>4 DEF Uses
  <2>3. CASE UNCHANGED zombie
    <3>1. [own |-> own[c], status |-> "none"] \in
            [own : {0} \cup Uses(c), status : {"none", "killed", "error"}]
      BY <2>2
    <3>2. QED BY <1>2, <1>4, <2>1, <2>2, <2>3, <3>1, EndStep
  <2>4. CASE /\ verdict # "completed"
             /\ zombie' = [zombie EXCEPT ![c] = [own |-> own[c], status |-> verdict]]
    <3>1. [own |-> own[c], status |-> verdict] \in
            [own : {0} \cup Uses(c), status : {"none", "killed", "error"}]
      BY <2>2, <2>4
    <3>2. QED BY <1>2, <1>4, <2>1, <2>2, <2>4, <3>1, EndStep
  <2>5. QED BY <1>2, <2>3, <2>4
<1>8. Remembered'
  <2> SUFFICES ASSUME ~haunted, NEW k \in Conversations
               PROVE  (/\ turn[k] = "running" /\ own[k] # 0 => mem[k] = own[k]
                       /\ last[k] # Unknown => /\ turn[k] = "running" => resumed[k] = last[k]
                                               /\ InMemory(k) /\ InStore(k)
                                               /\ InFile(k) /\ ToFile(k))'
    BY <1>2 DEF Remembered
  <2>1. /\ turn[k] = "running" /\ own[k] # 0 => mem[k] = own[k]
        /\ last[k] # Unknown => /\ turn[k] = "running" => resumed[k] = last[k]
                                /\ InMemory(k) /\ InStore(k) /\ InFile(k) /\ ToFile(k)
    BY <1>1 DEF Remembered
  <2>2. sid = mem[c] /\ (sid # 0 => sid \in Uses(c))
    BY <1>1, <1>2, <1>3 DEF Remembered, Uses
  <2>3. /\ cache' = cache /\ UNCHANGED raced
        /\ store[cache] \in Stores /\ store[cache] \in Versions
        /\ sid = 0 => UNCHANGED <<mem, done, store, touched>>
        /\ sid # 0 => touched' /\ store'[cache] \in Stores
    BY <1>1, <1>4, <1>5, VersionFacts DEF Ended
  <2>4. \A v \in Versions' : v \in Versions \/ (sid # 0 /\ v = store'[cache])
    <3>1. UNCHANGED <<late, content, disk, flush>>
      BY <1>2, <1>5 DEF file, Ended
    <3>2. QED BY <1>5, <3>1 DEF Versions, Ended
  <2>5. CASE k # c
    <3>1. UNCHANGED <<turn[k], mem[k]>>
      <4>1. turn'[k] = turn[k]
        BY <1>1, <1>2, <2>5 DEF SessionTypes
      <4>2. mem'[k] = mem[k]
        BY <1>1, <1>5, <2>5 DEF SessionTypes, Ended
      <4>3. QED BY <4>1, <4>2
    <3>2. CASE last'[k] = Unknown
      BY <1>2, <2>1, <3>1, <3>2
    <3>3. CASE last'[k] # Unknown
      <4>1. /\ last'[k] = last[k]
            /\ mem[k] = 0 => k \notin Keys(store[cache]) \/ k \in Keys(store'[cache])
        BY <1>6, <2>5, <3>3
      <4>2. InMemory(k) /\ InStore(k) /\ InFile(k) /\ ToFile(k)
        BY <2>1, <3>3, <4>1
      <4>3. /\ mem[k] = 0 => SessionOf(store'[cache], k) = SessionOf(store[cache], k)
            /\ k \in Keys(store'[cache]) => /\ k \in Keys(store[cache])
                                            /\ SessionOf(store'[cache], k) = SessionOf(store[cache], k)
        <5>1. sid # 0 => \/ SessionOf(store'[cache], k) = SessionOf(store[cache], k)
                         \/ k \in Keys(store[cache]) \ Keys(store'[cache])
          BY <1>5, <2>5 DEF Ended
        <5>2. sid # 0 => /\ k \in Keys(store[cache]) <=> SessionOf(store[cache], k) # 0
                         /\ k \in Keys(store'[cache]) <=> SessionOf(store'[cache], k) # 0
          BY <2>3, StoreFacts
        <5>3. QED BY <2>3, <4>1, <5>1, <5>2
      <4>4. InMemory(k)'
        <5>1. mem[k] # 0 => mem[k] # sid
          BY <1>1, <2>2, <2>5 DEF Apart, Uses
        <5>2. mem[k] # 0 /\ mem[k] \in done => mem[k] \in done'
          BY <1>5, <5>1 DEF Ended
        <5>3. QED BY <3>1, <4>1, <4>2, <5>2 DEF InMemory
      <4>5. InStore(k)'
        BY <2>3, <3>1, <4>1, <4>2, <4>3 DEF InStore
      <4>6. InFile(k)'
        <5>1. turn[k] = "loading" => mem[k] = 0
          BY <1>1 DEF Idleness
        <5>2. QED BY <1>2, <1>4, <2>3, <2>4, <3>1, <4>1, <4>2, <4>3, <5>1 DEF InFile
      <4>7. ToFile(k)'
        BY <1>2, <2>3, <4>1, <4>2, <4>3 DEF ToFile
      <4>8. QED BY <1>2, <2>1, <3>1, <4>1, <4>4, <4>5, <4>6, <4>7
    <3>4. QED BY <3>2, <3>3
  <2>6. CASE k = c
    <3>1. turn'[c] = "idle"
      BY <1>1, <1>2 DEF SessionTypes
    <3>2. last'[c] = IF sid = 0 THEN last[c] ELSE IF verdict = "error" THEN 0 ELSE sid
      BY <1>6
    <3>3. CASE sid = 0
      <4>1. last'[c] = last[c] /\ mem'[c] = 0 /\ Versions' \subseteq Versions
        BY <2>2, <2>3, <2>4, <3>2, <3>3
      <4>2. QED BY <1>2, <2>1, <2>2, <2>3, <2>6, <3>1, <3>3, <4>1
                DEF InMemory, InStore, InFile, ToFile
    <3>4. CASE sid # 0
      <4>1. \/ /\ last'[c] = sid /\ mem'[c] = sid /\ sid \in done'
               /\ SessionOf(store'[cache], c) = sid
            \/ last'[c] = 0 /\ mem'[c] = 0 /\ SessionOf(store'[cache], c) = 0
        BY <1>1, <1>5, <2>2, <3>2, <3>4 DEF Ended, SessionTypes
      <4>2. QED BY <1>4, <2>3, <2>6, <3>1, <3>4, <4>1 DEF InMemory, InStore, InFile, ToFile
    <3>5. QED BY <3>3, <3>4
  <2>7. QED BY <2>5, <2>6
<1>9. QED BY <1>7, <1>8 DEF SessionsInv

\* A close that comes late either changes nothing or haunts this life.
LEMMA LateCloseStep ==
  ASSUME SessionsInv, NEW c \in Conversations, LateClose(c)
  PROVE  SessionsInv'
<1>1. SessionTypes /\ Idleness /\ Apart /\ Remembered
  BY DEF SessionsInv
<1>2. /\ zombie[c] # NoTask /\ zombie' = [zombie EXCEPT ![c] = NoTask]
      /\ Finished(c, zombie[c].own, zombie[c].status)
      /\ haunted' = (haunted \/ mem' # mem \/ done' # done \/ store' # store)
      /\ UNCHANGED <<minted, turn, resumed, own, last, file, late, disk, content>>
  BY DEF LateClose, file
<1>3. cache # 0 /\ turn[c] # "loading"
  BY <1>1, <1>2 DEF Idleness
<1>4. zombie[c].own \in Nat /\ mem[c] \in Nat /\ last \in [Conversations -> Int]
  BY <1>1 DEF SessionTypes
<1>5. SessionTypes' /\ Idleness' /\ Apart' /\ Synced'
  <2>1. zombie[c].own \in {0} \cup Uses(c)
    BY <1>4 DEF Uses
  <2>2. NoTask \in [own : {0} \cup Uses(c), status : {"none", "killed", "error"}]
    BY DEF NoTask
  <2>3. QED BY <1>2, <1>3, <1>4, <2>1, <2>2, EndStep
<1>6. Remembered'
  <2> SUFFICES ASSUME ~haunted'
               PROVE  Remembered'
    BY DEF Remembered
  <2>1. UNCHANGED <<mem, done, store>> /\ ~haunted /\ cache' = cache
    BY <1>2 DEF cache
  <2>2. PICK sid : sid = (IF zombie[c].own # 0 THEN zombie[c].own ELSE mem[c])
    OBVIOUS
  <2>3. Ended(c, sid, zombie[c].status)
    BY <1>1, <1>2, <1>3, <1>4, <2>2, FinishedFacts
  <2>4. UNCHANGED <<raced, flush>> /\ (~touched' => ~touched)
    BY <2>3 DEF Ended
  <2>5. Versions' = Versions
    BY <1>2, <2>1, <2>4 DEF Versions
  <2>6. \A k \in Conversations : /\ InMemory(k) => InMemory(k)'
                                 /\ InStore(k) => InStore(k)'
                                 /\ InFile(k) => InFile(k)'
                                 /\ ToFile(k) => ToFile(k)'
    BY <1>2, <2>1, <2>4, <2>5 DEF InMemory, InStore, InFile, ToFile
  <2>7. QED BY <1>1, <1>2, <2>1, <2>6 DEF Remembered
<1>7. QED BY <1>5, <1>6 DEF SessionsInv

----------------------------------------------------------------------------
(* Restarts.                                                               *)

LEMMA RestartStep ==
  ASSUME SessionsInv, Exits \/ Crash
  PROVE  SessionsInv'
<1>1. SessionTypes /\ Idleness /\ Apart /\ Remembered /\ Synced
  BY DEF SessionsInv
<1>2. Fresh /\ DiskAfterEnd /\ minted' = minted
  BY DEF Exits, Crash
<1>3. disk' # Torn => disk' \in Versions
  BY <1>2 DEF DiskAfterEnd, Versions
<1>4. store' = <<>> /\ cache' = 0
  BY <1>2 DEF Fresh, cache
<1>5. Versions' \subseteq {disk'} \ {Torn}
  BY <1>2, <1>4 DEF Fresh, Versions
<1>6. /\ last' \in [Conversations -> Int]
      /\ \A c \in Conversations :
           last'[c] # Unknown => disk' # Torn /\ SessionOf(disk', c) = last'[c]
  <2>1. Unknown \in Int
    BY DEF Unknown
  <2>2. CASE Crash
    BY <2>1, <2>2 DEF Crash
  <2>3. CASE Exits
    <3>1. /\ flush = "idle"
          /\ last' = [c \in Conversations |->
                        IF dirty \/ raced \/ abandoned \/ haunted THEN Unknown
                        ELSE IF ~touched \/ c \in Keys(store[cache]) \/ last[c] = 0 THEN last[c]
                        ELSE Unknown]
      BY <2>3 DEF Exits
    <3>2. last' \in [Conversations -> Int]
      <4>1. \A c \in Conversations : last[c] \in Int
        BY <1>1 DEF SessionTypes
      <4>2. QED BY <2>1, <3>1, <4>1
    <3>3. ASSUME NEW c \in Conversations, last'[c] # Unknown
          PROVE  disk' # Torn /\ SessionOf(disk', c) = last'[c]
      <4>1. /\ ~dirty /\ ~raced /\ ~abandoned /\ ~haunted /\ last'[c] = last[c]
            /\ ~touched \/ c \in Keys(store[cache]) \/ last[c] = 0
        BY <3>1, <3>3
      <4>2. ToFile(c)
        BY <1>1, <3>3, <4>1 DEF Remembered
      <4>3. disk' = disk
        BY <1>1, <1>2, <3>1, <4>1 DEF DiskAfterEnd, Idleness
      <4>4. CASE ~touched
        BY <4>1, <4>2, <4>3, <4>4 DEF ToFile
      <4>5. CASE touched
        <5>1. disk = store[cache] /\ cache # 0
          BY <1>1, <3>1, <4>1, <4>5 DEF Synced, Idleness
        <5>2. disk # Torn /\ disk \in Stores
          BY <1>1, <5>1, VersionFacts
        <5>3. c \notin Keys(disk) => SessionOf(disk, c) = 0
          BY <5>2, StoreFacts
        <5>4. QED BY <4>1, <4>2, <4>3, <4>5, <5>1, <5>2, <5>3 DEF ToFile
      <4>6. QED BY <4>4, <4>5
    <3>4. QED BY <3>2, <3>3
  <2>4. QED BY <2>2, <2>3
<1>7. SessionTypes'
  <2>1. <<>> \in Stores /\ <<>> \in Seq(Stores)
    <3>1. MaxEntries \in Nat
      BY SessionsAssumption
    <3>2. QED BY <3>1 DEF Stores
  <2>2. disk' \in Stores \cup {Torn}
    BY <1>1, <1>3, VersionFacts
  <2>3. NoTask \in [own : Nat, status : {"none", "killed", "error"}]
    BY DEF NoTask
  <2>4. zombie' \in [Conversations -> [own : Nat, status : {"none", "killed", "error"}]]
    BY <1>2, <2>3 DEF Fresh
  <2>5. /\ turn' \in [Conversations -> {"idle", "loading", "running"}]
        /\ resumed' \in [Conversations -> Nat] /\ own' \in [Conversations -> Nat]
        /\ mem' \in [Conversations -> Nat]
    BY <1>2 DEF Fresh
  <2>6. store' \in Seq(Stores) /\ content' \in Stores /\ late' \subseteq Stores
    BY <1>2, <2>1 DEF Fresh
  <2>7. minted' \in Nat
    BY <1>1, <1>2 DEF SessionTypes
  <2>8. QED BY <1>6, <2>2, <2>4, <2>5, <2>6, <2>7 DEF SessionTypes
<1>8. \A c \in Conversations : /\ turn'[c] = "idle" /\ resumed'[c] = 0 /\ own'[c] = 0
                               /\ mem'[c] = 0 /\ zombie'[c] = NoTask
  BY <1>2 DEF Fresh
<1>9. Idleness'
  BY <1>2, <1>8 DEF Fresh, Idleness
<1>10. Apart'
  <2>1. \A c \in Conversations : \A n \in Uses(c)' : n \in Uses(c)
    <3> TAKE c \in Conversations
    <3> TAKE n \in Uses(c)'
    <3>1. n # 0 /\ (n = 0 \/ \E v \in Versions' : n = SessionOf(v, c))
      BY <1>8 DEF Uses, NoTask
    <3>2. PICK v \in Versions' : n = SessionOf(v, c)
      BY <3>1
    <3>3. v \in Versions
      BY <1>3, <1>5
    <3>4. QED BY <3>1, <3>2, <3>3, UsesFacts
  <2>2. minted \in Nat
    BY <1>1 DEF SessionTypes
  <2>3. QED BY <1>1, <1>2, <2>1, <2>2, ApartKept
<1>11. Remembered'
  BY <1>4, <1>5, <1>6, <1>8 DEF Remembered, InMemory, InStore, InFile, ToFile
<1>12. Synced'
  BY <1>2 DEF Fresh, Synced
<1>13. QED BY <1>7, <1>9, <1>10, <1>11, <1>12 DEF SessionsInv

----------------------------------------------------------------------------
(* The theorem.                                                            *)

LEMMA SessionsInitInv == SessionsInit => SessionsInv
<1> SUFFICES ASSUME SessionsInit PROVE SessionsInv
  OBVIOUS
<1>1. <<>> \in Stores /\ <<>> \in Seq(Stores) /\ Torn \notin Stores
      /\ \A c : SessionOf(<<>>, c) = 0
  <2>1. MaxEntries \in Nat
    BY SessionsAssumption
  <2>2. <<>> \in Stores
    BY <2>1 DEF Stores
  <2>3. Torn \notin Stores
    <3>1. Torn[1][2] = 0 /\ 1 \in 1..Len(Torn)
      BY DEF Torn
    <3>2. QED BY <3>1, StoreFacts
  <2>4. Keys(<<>>) = {}
    BY DEF Keys
  <2>5. QED BY <2>2, <2>3, <2>4 DEF SessionOf
<1>2. store = <<>> /\ cache = 0 /\ disk = <<>> /\ Versions = {<<>>}
  BY <1>1 DEF SessionsInit, cache, Versions
<1>3. SessionTypes
  <2>1. NoTask \in [own : Nat, status : {"none", "killed", "error"}] /\ Unknown \in Int
    BY DEF NoTask, Unknown
  <2>2. QED BY <1>1, <2>1 DEF SessionsInit, SessionTypes
<1>4. \A c \in Conversations : /\ turn[c] = "idle" /\ resumed[c] = 0 /\ own[c] = 0 /\ mem[c] = 0
                               /\ zombie[c] = NoTask /\ last[c] = Unknown
  BY DEF SessionsInit
<1>5. Idleness /\ Synced
  BY <1>2, <1>4 DEF SessionsInit, Idleness, Synced
<1>6. Remembered
  BY <1>4 DEF Remembered
<1>7. \A c \in Conversations : Uses(c) = {}
  BY <1>1, <1>2, <1>4 DEF Uses, NoTask
<1>8. Apart
  BY <1>7 DEF Apart
<1>9. QED BY <1>3, <1>5, <1>6, <1>8 DEF SessionsInv

LEMMA SessionsStepInv ==
  ASSUME SessionsInv, [SessionsNext]_sessionVars
  PROVE  SessionsInv'
<1>1. CASE UNCHANGED sessionVars
  <2>1. UNCHANGED <<minted, turn, resumed, own, zombie, mem, done, last, haunted, content, late,
                    disk, abandoned, dirty, flush, target, store, touched, raced>>
    BY <1>1 DEF sessionVars, tasks, file, saving, loaded
  <2>2. SessionTypes /\ Idleness /\ Apart /\ Remembered /\ Synced
    BY DEF SessionsInv
  <2>3. Versions' = Versions /\ cache' = cache
    BY <2>1 DEF Versions, cache
  <2>4. SessionTypes' /\ Idleness' /\ Synced'
    BY <2>1, <2>2, <2>3 DEF SessionTypes, Idleness, Synced
  <2>5. disk' = disk \/ disk' # Torn
    BY <2>1
  <2>6. QED BY <1>1, <2>1, <2>2, <2>3, <2>4, <2>5, FileStep DEF sessionVars, Idleness
<1>2. ASSUME NEW c \in Conversations,
             \/ Resolve(c) \/ Reported(c) \/ LateClose(c)
             \/ \E ok \in BOOLEAN : LoadEnds(c, ok)
             \/ \E verdict \in {"completed", "killed", "error"} : Closes(c, verdict)
             \/ \E verdict \in {"killed", "error"} : KillTimesOut(c, verdict)
      PROVE  SessionsInv'
  <2>1. CASE \E verdict \in {"killed", "error"} : KillTimesOut(c, verdict)
    BY <2>1, CloseStep
  <2>2. CASE \E verdict \in {"completed", "killed", "error"} : Closes(c, verdict)
    BY <2>2, CloseStep
  <2>3. QED BY <1>2, <2>1, <2>2, ResolveStep, ReportedStep, LateCloseStep, LoadStep
<1>3. CASE SessionsNext
  BY <1>2, <1>3, FlushStep, RestartStep DEF SessionsNext
<1>4. QED BY <1>1, <1>3

\* A dispatch resumes the session its conversation last completed, in one life
\* of the daemon and across an orderly restart, for any number of conversations,
\* entries of the store, faults and stops.
THEOREM ResumesLastCorrect == SessionsSpec => []ResumesLast
<1>1. SessionsInv => ResumesLast
  BY DEF SessionsInv, Remembered, ResumesLast
<1>2. QED BY <1>1, SessionsInitInv, SessionsStepInv, PTL DEF SessionsSpec

----------------------------------------------------------------------------
(* PluginSessions: a save under way.                                       *)

\* A store that is dirty has a timer or a flush; the last flush has neither.
PendingInv == dirty => timer \/ flush # "idle" \/ phase = "flushing"

LEMMA FinishedPending ==
  ASSUME PendingInv, NEW c, NEW sid, NEW verdict, Finished(c, sid, verdict), phase' = phase
  PROVE  PendingInv'
BY DEF PendingInv, Finished, Change, saving

LEMMA PendingStep == PendingInv /\ [SessionsNext]_sessionVars => PendingInv'
<1> SUFFICES ASSUME PendingInv, [SessionsNext]_sessionVars PROVE PendingInv'
  OBVIOUS
<1>1. ASSUME NEW c \in Conversations, Resolve(c) \/ Reported(c) \/ \E ok \in BOOLEAN : LoadEnds(c, ok)
      PROVE  PendingInv'
  BY <1>1 DEF PendingInv, Resolve, Reported, LoadEnds, saving, life
<1>2. ASSUME NEW c \in Conversations, NEW verdict, Closes(c, verdict) \/ KillTimesOut(c, verdict)
      PROVE  PendingInv'
  BY <1>2, FinishedPending DEF Closes, KillTimesOut, life
<1>3. ASSUME NEW c \in Conversations, LateClose(c) PROVE PendingInv'
  BY <1>3, FinishedPending DEF LateClose, life
<1>4. CASE TimerFires \/ StopFlushes
  BY <1>4 DEF PendingInv, TimerFires, StopFlushes, FlushBegins, life
<1>5. CASE WriteBegins \/ \E s \in late : LateWriteLands(s)
  BY <1>5 DEF PendingInv, WriteBegins, LateWriteLands, saving, life
<1>6. CASE WriteEnds \/ WriteFails \/ WriteTimesOut
  BY <1>6 DEF PendingInv, WriteEnds, WriteFails, WriteTimesOut, Flushed, life
<1>7. CASE Stop
  BY <1>7 DEF PendingInv, Stop, saving
<1>8. CASE Exits \/ Crash
  BY <1>8 DEF PendingInv, Exits, Crash, Fresh
<1>9. CASE UNCHANGED sessionVars
  BY <1>9 DEF PendingInv, sessionVars, saving, life
<1>10. QED BY <1>1, <1>2, <1>3, <1>4, <1>5, <1>6, <1>7, <1>8, <1>9 DEF SessionsNext

\* What is unsaved is being saved or will be: the debounce, a flush that failed
\* and a change that comes during a flush never leave the file behind for good.
THEOREM UnsavedIsSaving == SessionsSpec => []SaveIsUnderWay
<1>1. SessionsInit => PendingInv
  BY DEF SessionsInit, PendingInv
<1>2. SessionsInv /\ PendingInv => SaveIsUnderWay
  BY DEF SessionsInv, Synced, PendingInv, SaveIsUnderWay, Unsaved
<1>3. QED BY <1>1, <1>2, SessionsInitInv, SessionsStepInv, PendingStep, PTL DEF SessionsSpec
===========================================================================
