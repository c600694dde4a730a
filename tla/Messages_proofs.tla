--------------------------- MODULE Messages_proofs ---------------------------
(***************************************************************************)
(* Proofs about MessageQueue, for every depth and any number of calls, and *)
(* about ConversationStore, for any number of conversations, messages and  *)
(* failures, every size of the write buffer and every limit of a deletion: *)
(* what the store contains, also after writes of which a part has failed,  *)
(* and that a message which waits is being worked on.                      *)
(***************************************************************************)
EXTENDS MessageQueue, ConversationStore, FiniteSetTheorems, TLAPS

----------------------------------------------------------------------------
(* MessageQueue: the inductive invariant.                                  *)

\* The types of the variables, without the bound on the queue.
Types ==
  /\ st \in [Items -> Status]
  /\ arrived \in 0..MaxItems
  /\ processing \in BOOLEAN /\ aborted \in BOOLEAN /\ locked \in BOOLEAN
  /\ epoch \in 0..MaxAborts /\ runEpoch \in 0..MaxAborts
  /\ cooling \in BOOLEAN
  /\ signals \subseteq Items /\ stale \subseteq Items /\ window \subseteq Items

\* Items are offered in order; processing says whether one is in flight, and at
\* most one is; the aborted flag never outlives the loop it aborts.
Consumer ==
  /\ \A i \in Items : st[i] = "new" <=> i > arrived
  /\ \A i, j \in Items : st[i] = "inFlight" /\ st[j] = "inFlight" => i = j
  /\ processing <=> \E i \in Items : st[i] = "inFlight"
  /\ aborted => processing

\* A stale item has left the queue, and if it is in flight its loop is marked.
StaleLeft ==
  \A i \in stale : /\ st[i] \notin {"new", "queued", "answered"}
                   /\ st[i] = "inFlight" => aborted

Inv == Types /\ Consumer /\ NotStalled /\ StaleLeft

\* The state is typed and consistent at the start.
LEMMA InitInv == Init => Inv
<1> SUFFICES ASSUME Init PROVE Inv
  OBVIOUS
<1>1. Types
  <2>1. st \in [Items -> Status]
    BY DEF Init, Status
  <2>2. 0 \in 0..MaxItems /\ 0 \in 0..MaxAborts
    BY QueueAssumption
  <2>3. /\ arrived \in 0..MaxItems
        /\ epoch \in 0..MaxAborts /\ runEpoch \in 0..MaxAborts
    BY <2>2 DEF Init
  <2>4. QED BY <2>1, <2>3 DEF Init, Types
<1>2. \A i \in Items : st[i] = "new" /\ i > arrived
  BY QueueAssumption DEF Init, Items
<1>3. Consumer
  BY <1>2 DEF Init, Consumer
<1>4. NotStalled /\ StaleLeft
  BY <1>2 DEF Init, NotStalled, StaleLeft, Queue, QueuedIn
<1>5. QED BY <1>1, <1>3, <1>4 DEF Inv

\* What entering processQueue does: nothing, when it must not start or has
\* nothing to do, or the oldest item goes in flight.
LEMMA ProcessQueueEffect ==
  ASSUME NEW s, NEW busy, ProcessQueue(s, busy)
  PROVE  \/ /\ st' = s /\ processing' = busy /\ runEpoch' = runEpoch
            /\ busy \/ locked' \/ \A i \in Items : s[i] # "queued"
         \/ \E i \in Items :
              /\ ~busy /\ ~locked' /\ s[i] = "queued"
              /\ \A j \in Items : s[j] = "queued" => i <= j
              /\ st' = [s EXCEPT ![i] = "inFlight"]
              /\ processing' = TRUE /\ runEpoch' = epoch
<1>1. CASE busy \/ QueuedIn(s) = {} \/ locked'
  BY <1>1 DEF ProcessQueue, QueuedIn
<1>2. CASE ~(busy \/ QueuedIn(s) = {} \/ locked')
  BY <1>2 DEF ProcessQueue, QueuedIn
<1>3. QED BY <1>1, <1>2

\* Entering processQueue from a consistent idle or busy state leaves a
\* consistent one, whatever happened to the statuses before.
LEMMA ProcessQueueInv ==
  ASSUME NEW s \in [Items -> Status], NEW busy \in BOOLEAN,
         ProcessQueue(s, busy), Types, locked' \in BOOLEAN,
         \A i, j \in Items : s[i] = "inFlight" /\ s[j] = "inFlight" => i = j,
         busy <=> \E i \in Items : s[i] = "inFlight"
  PROVE  /\ st' \in [Items -> Status] /\ processing' \in BOOLEAN
         /\ runEpoch' \in 0..MaxAborts
         /\ \A i, j \in Items : st'[i] = "inFlight" /\ st'[j] = "inFlight" => i = j
         /\ processing' <=> \E i \in Items : st'[i] = "inFlight"
         /\ \A i \in Items : st'[i] = s[i] \/ (s[i] = "queued" /\ st'[i] = "inFlight")
         /\ busy => processing'
         /\ (\E i \in Items : st'[i] = "queued") /\ ~locked' => processing'
<1>1. CASE /\ st' = s /\ processing' = busy /\ runEpoch' = runEpoch
           /\ busy \/ locked' \/ \A i \in Items : s[i] # "queued"
  BY <1>1 DEF Types
<1>2. CASE \E i \in Items :
             /\ ~busy /\ ~locked' /\ s[i] = "queued"
             /\ \A j \in Items : s[j] = "queued" => i <= j
             /\ st' = [s EXCEPT ![i] = "inFlight"]
             /\ processing' = TRUE /\ runEpoch' = epoch
  <2>1. PICK i \in Items :
             /\ ~busy /\ ~locked' /\ s[i] = "queued"
             /\ st' = [s EXCEPT ![i] = "inFlight"]
             /\ processing' = TRUE /\ runEpoch' = epoch
    BY <1>2
  <2>2. st' \in [Items -> Status] /\ runEpoch' \in 0..MaxAborts
    BY <2>1 DEF Types, Status
  <2>3. /\ \A j \in Items : st'[j] = "inFlight" <=> j = i
        /\ \A j \in Items : st'[j] = s[j] \/ j = i
    BY <2>1
  <2>4. QED BY <2>1, <2>2, <2>3
<1>3. QED BY <1>1, <1>2, ProcessQueueEffect

\* Every step keeps the invariant.
LEMMA StepInv == Inv /\ [Next]_vars => Inv'
<1> SUFFICES ASSUME Inv, [Next]_vars PROVE Inv'
  OBVIOUS
<1>t. Types /\ Consumer /\ NotStalled /\ StaleLeft
  BY DEF Inv
<1>1. CASE Enqueue
  <2> DEFINE i == arrived + 1
  <2>1. i \in Items /\ i \in 0..MaxItems /\ st[i] = "new"
    BY <1>1, <1>t, QueueAssumption DEF Enqueue, Types, Consumer, Items
  <2>2. PICK m \in Items : m = arrived + 1 /\ st[m] = "new" /\ m \in 0..MaxItems
    BY <2>1
  <2> HIDE DEF i
  <2>3. CASE EnqueueDropped(m)
    BY <2>2, <2>3, <1>t DEF EnqueueDropped, Inv, Types, Consumer, NotStalled,
       StaleLeft, Items, Status, Queue, QueuedIn
  <2>4. CASE EnqueueAccepted(m)
    <3> DEFINE s == [st EXCEPT ![m] = "queued"]
    <3>1. /\ s \in [Items -> Status]
          /\ \A j \in Items : s[j] = "inFlight" <=> st[j] = "inFlight"
          /\ \A j \in Items : j # m => s[j] = st[j]
          /\ s[m] = "queued"
      BY <2>2, <1>t DEF Types, Status
    <3>2. ProcessQueue(s, processing)
      BY <2>4 DEF EnqueueAccepted
    <3>3. /\ arrived' = m /\ aborted' = aborted /\ locked' = locked
          /\ epoch' = epoch /\ stale' = stale
          /\ cooling' \in BOOLEAN /\ signals' \subseteq Items
          /\ window' \subseteq Items
      BY <2>4, <2>2, <1>t DEF EnqueueAccepted, Types
    <3>4. /\ st' \in [Items -> Status] /\ processing' \in BOOLEAN
          /\ runEpoch' \in 0..MaxAborts
          /\ \A j, k \in Items : st'[j] = "inFlight" /\ st'[k] = "inFlight" => j = k
          /\ processing' <=> \E j \in Items : st'[j] = "inFlight"
          /\ \A j \in Items : st'[j] = s[j] \/ (s[j] = "queued" /\ st'[j] = "inFlight")
          /\ processing => processing'
          /\ (\E j \in Items : st'[j] = "queued") /\ ~locked' => processing'
      <4> HIDE DEF s
      <4> QED BY <3>1, <3>2, <3>3, <1>t, ProcessQueueInv DEF Types, Consumer
    <3>5. Types'
      BY <3>3, <3>4, <2>2, <1>t DEF Types
    <3>6. Consumer'
      <4>1. \A j \in Items : st'[j] = "new" <=> j > arrived'
        BY <3>1, <3>3, <3>4, <2>2, <1>t, QueueAssumption
           DEF Consumer, Types, Items
      <4>2. QED BY <4>1, <3>3, <3>4, <1>t DEF Consumer
    <3>7. NotStalled'
      BY <3>4 DEF NotStalled, Queue, QueuedIn
    <3>8. StaleLeft'
      <4> HIDE DEF s
      <4> QED BY <3>1, <3>3, <3>4, <2>2, <1>t DEF StaleLeft, Types
    <3>9. QED BY <3>5, <3>6, <3>7, <3>8 DEF Inv
  <2>5. QED BY <1>1, <2>2, <2>3, <2>4 DEF Enqueue
<1>2. CASE AbortAndDrain
  <2>1. Types'
    BY <1>2, <1>t, QueueAssumption
       DEF AbortAndDrain, Types, Status, Queue, QueuedIn, InFlight
  <2>2. Consumer' /\ NotStalled'
    BY <1>2, <1>t DEF AbortAndDrain, Types, Consumer, NotStalled, Queue, QueuedIn
  <2>3. StaleLeft'
    BY <1>2, <1>t DEF AbortAndDrain, Types, Consumer, StaleLeft, Queue, QueuedIn,
       InFlight
  <2>4. QED BY <2>1, <2>2, <2>3 DEF Inv
<1>3. CASE Lock
  BY <1>3, <1>t DEF Lock, Inv, Types, Consumer, NotStalled, StaleLeft
<1>4. CASE Unlock
  <2>1. ProcessQueue(st, processing) /\ locked' = FALSE
    BY <1>4 DEF Unlock
  <2>2. UNCHANGED <<arrived, aborted, epoch, cooling, signals, stale, window>>
    BY <1>4 DEF Unlock
  <2>3. /\ st' \in [Items -> Status] /\ processing' \in BOOLEAN
        /\ runEpoch' \in 0..MaxAborts
        /\ \A j, k \in Items : st'[j] = "inFlight" /\ st'[k] = "inFlight" => j = k
        /\ processing' <=> \E j \in Items : st'[j] = "inFlight"
        /\ \A j \in Items : st'[j] = st[j] \/ (st[j] = "queued" /\ st'[j] = "inFlight")
        /\ processing => processing'
        /\ (\E j \in Items : st'[j] = "queued") /\ ~locked' => processing'
    BY <2>1, <1>t, ProcessQueueInv DEF Types, Consumer
  <2>4. Types'
    BY <2>1, <2>2, <2>3, <1>t DEF Types
  <2>5. Consumer' /\ NotStalled'
    BY <2>2, <2>3, <1>t DEF Consumer, NotStalled, Queue, QueuedIn
  <2>6. StaleLeft'
    BY <2>2, <2>3, <1>t DEF StaleLeft, Types
  <2>7. QED BY <2>4, <2>5, <2>6 DEF Inv
<1>5. CASE CooldownOver
  BY <1>5, <1>t DEF CooldownOver, Inv, Types, Consumer, NotStalled, StaleLeft,
     Queue, QueuedIn
<1>6. ASSUME NEW i \in Items, DispatchSettles(i) PROVE Inv'
  <2> DEFINE s == [st EXCEPT ![i] = IF ~aborted /\ runEpoch = epoch
                                    THEN "answered" ELSE "suppressed"]
  <2>1. /\ s \in [Items -> Status]
        /\ \A j \in Items : s[j] # "inFlight"
        /\ \A j \in Items : j # i => s[j] = st[j]
        /\ s[i] \in {"answered", "suppressed"}
        /\ aborted => s[i] = "suppressed"
        /\ st[i] = "inFlight" /\ processing
    BY <1>6, <1>t DEF DispatchSettles, Types, Status, Consumer
  <2>2. /\ aborted' = FALSE
        /\ UNCHANGED <<arrived, locked, epoch, cooling, signals, stale, window>>
    BY <1>6 DEF DispatchSettles
  <2>3. /\ st' \in [Items -> Status] /\ processing' \in BOOLEAN
        /\ runEpoch' \in 0..MaxAborts
        /\ \A j, k \in Items : st'[j] = "inFlight" /\ st'[k] = "inFlight" => j = k
        /\ processing' <=> \E j \in Items : st'[j] = "inFlight"
        /\ \A j \in Items : st'[j] = s[j] \/ (s[j] = "queued" /\ st'[j] = "inFlight")
        /\ (\E j \in Items : st'[j] = "queued") /\ ~locked' => processing'
    <3>1. CASE aborted \/ QueuedIn(s) = {}
      <4>1. ProcessQueue(s, FALSE)
        BY <1>6, <3>1 DEF DispatchSettles
      <4> HIDE DEF s
      <4>2. QED BY <4>1, <2>1, <2>2, <1>t, ProcessQueueInv DEF Types
    <3>2. CASE ~(aborted \/ QueuedIn(s) = {})
      <4>1. PICK j \in QueuedIn(s) : /\ st' = [s EXCEPT ![j] = "inFlight"]
                                     /\ runEpoch' = epoch
                                     /\ processing' = processing
        BY <1>6, <3>2 DEF DispatchSettles
      <4> HIDE DEF s
      <4>2. j \in Items /\ s[j] = "queued"
        BY DEF QueuedIn
      <4>3. QED BY <4>1, <4>2, <2>1, <2>2, <1>t DEF Types, Status
    <3>3. QED BY <3>1, <3>2
  <2> HIDE DEF s
  <2>4. Types'
    BY <2>2, <2>3, <1>t DEF Types
  <2>5. Consumer'
    BY <2>1, <2>2, <2>3, <1>t DEF Consumer
  <2>6. NotStalled'
    BY <2>3 DEF NotStalled, Queue, QueuedIn
  <2>7. StaleLeft'
    BY <2>1, <2>2, <2>3, <1>t DEF StaleLeft, Types
  <2>8. QED BY <2>4, <2>5, <2>6, <2>7 DEF Inv
<1>7. CASE UNCHANGED vars
  BY <1>7, <1>t DEF vars, Inv, Types, Consumer, NotStalled, StaleLeft, Queue,
     QueuedIn
<1>8. QED BY <1>1, <1>2, <1>3, <1>4, <1>5, <1>6, <1>7 DEF Next

\* The invariant holds throughout.
THEOREM InvHolds == Spec => []Inv
BY InitInv, StepInv, PTL DEF Spec

\* A drained or aborted item is never reported, for every depth and any
\* interleaving of enqueues, locks, aborts and settling dispatches.
THEOREM StaleNeverAnswered == Spec => []StaleIsSilent
<1>1. Inv => StaleIsSilent
  BY DEF Inv, StaleLeft, StaleIsSilent
<1>2. QED BY <1>1, InvHolds, PTL

\* The consumer loop never sleeps over an unlocked queue that has items.
THEOREM NeverStalled == Spec => []NotStalled
<1>1. Inv => NotStalled
  BY DEF Inv
<1>2. QED BY <1>1, InvHolds, PTL

----------------------------------------------------------------------------
(* The bound on the queue.                                                 *)

\* The queue is a finite set, so it has a cardinality.
LEMMA QueueFinite == IsFiniteSet(Queue) /\ Cardinality(Queue) \in Nat
<1>1. IsFiniteSet(Items)
  BY QueueAssumption, FS_Interval DEF Items
<1>2. Queue \subseteq Items
  BY DEF Queue, QueuedIn
<1>3. QED BY <1>1, <1>2, FS_Subset, FS_CardinalityType

\* Entering processQueue queues nothing.
LEMMA ProcessQueueShrinks ==
  ASSUME NEW s \in [Items -> Status], NEW busy, ProcessQueue(s, busy)
  PROVE  \A j \in Items : st'[j] = "queued" => s[j] = "queued"
<1>1. CASE st' = s
  BY <1>1
<1>2. CASE \E i \in Items : st' = [s EXCEPT ![i] = "inFlight"]
  BY <1>2
<1>3. QED BY <1>1, <1>2, ProcessQueueEffect

\* An accepted item is the only one a step can add to the queue.
LEMMA QueueGrowth ==
  Inv /\ [Next]_vars =>
    \/ Queue' \subseteq Queue
    \/ ~Full /\ \E m \in Items : m \notin Queue /\ Queue' \subseteq Queue \union {m}
<1> SUFFICES ASSUME Inv, [Next]_vars
             PROVE \/ Queue' \subseteq Queue
                   \/ ~Full /\ \E m \in Items : m \notin Queue /\ Queue' \subseteq Queue \union {m}
  OBVIOUS
<1>t. Types /\ Consumer
  BY DEF Inv
<1>1. CASE Enqueue
  <2>2. PICK m \in Items : m = arrived + 1 /\ st[m] = "new"
    BY <1>1, <1>t, QueueAssumption DEF Enqueue, Types, Consumer, Items
  <2>3. CASE EnqueueDropped(m)
    BY <2>2, <2>3, <1>t DEF EnqueueDropped, Types, Queue, QueuedIn
  <2>4. CASE EnqueueAccepted(m)
    <3> DEFINE s == [st EXCEPT ![m] = "queued"]
    <3>1. ProcessQueue(s, processing) /\ ~Full
      BY <2>4 DEF EnqueueAccepted
    <3>2. s \in [Items -> Status] /\ \A j \in Items : j # m => s[j] = st[j]
      BY <1>t DEF Types, Status
    <3> HIDE DEF s
    <3>3. \A j \in Items : st'[j] = "queued" => s[j] = "queued"
      BY <3>1, <3>2, ProcessQueueShrinks
    <3>4. m \notin Queue /\ Queue' \subseteq Queue \union {m}
      BY <3>2, <3>3, <2>2 DEF Queue, QueuedIn
    <3>5. QED BY <3>1, <3>4
  <2>5. QED BY <1>1, <2>2, <2>3, <2>4 DEF Enqueue
<1>2. CASE AbortAndDrain
  BY <1>2 DEF AbortAndDrain, Queue, QueuedIn
<1>3. CASE Unlock
  <2>1. ProcessQueue(st, processing)
    BY <1>3 DEF Unlock
  <2>2. \A j \in Items : st'[j] = "queued" => st[j] = "queued"
    BY <2>1, <1>t, ProcessQueueShrinks DEF Types
  <2>3. QED BY <2>2 DEF Queue, QueuedIn
<1>4. ASSUME NEW i \in Items, DispatchSettles(i) PROVE Queue' \subseteq Queue
  <2> DEFINE s == [st EXCEPT ![i] = IF ~aborted /\ runEpoch = epoch
                                    THEN "answered" ELSE "suppressed"]
  <2>1. s \in [Items -> Status] /\ \A j \in Items : s[j] = "queued" => st[j] = "queued"
    BY <1>t DEF Types, Status
  <2>2. \A j \in Items : st'[j] = "queued" => s[j] = "queued"
    <3>1. CASE ProcessQueue(s, FALSE)
      <4> HIDE DEF s
      <4> QED BY <3>1, <2>1, ProcessQueueShrinks
    <3>2. CASE \E j \in QueuedIn(s) : st' = [s EXCEPT ![j] = "inFlight"]
      <4> HIDE DEF s
      <4> QED BY <3>2, <2>1 DEF QueuedIn
    <3>3. QED BY <1>4, <3>1, <3>2 DEF DispatchSettles
  <2> HIDE DEF s
  <2>3. QED BY <2>1, <2>2 DEF Queue, QueuedIn
<1>5. CASE Lock \/ CooldownOver \/ UNCHANGED vars
  BY <1>5 DEF Lock, CooldownOver, vars, Queue, QueuedIn
<1>6. QED BY <1>1, <1>2, <1>3, <1>4, <1>5 DEF Next

\* Every variable stays within its type, the queue within maxDepth, and at
\* most one item is in flight.
THEOREM TypeCorrect == Spec => []TypeOK
<1> DEFINE Bound == Cardinality(Queue) <= MaxDepth
<1>1. Init => Bound
  <2>1. Init => Queue = {}
    BY DEF Init, Queue, QueuedIn
  <2>2. QED BY <2>1, FS_EmptySet, QueueAssumption
<1>2. Inv /\ Bound /\ [Next]_vars => Bound'
  <2> SUFFICES ASSUME Inv, Bound, [Next]_vars PROVE Cardinality(Queue') <= MaxDepth
    OBVIOUS
  <2>1. CASE Queue' \subseteq Queue
    <3>1. Cardinality(Queue') \in Nat /\ Cardinality(Queue') <= Cardinality(Queue)
      BY <2>1, QueueFinite, FS_Subset, FS_CardinalityType
    <3>2. QED BY <3>1, QueueFinite, QueueAssumption
  <2>2. ASSUME ~Full, NEW m \in Items, m \notin Queue, Queue' \subseteq Queue \union {m}
        PROVE  Cardinality(Queue') <= MaxDepth
    <3> DEFINE Q == Queue \union {m}
    <3>1. IsFiniteSet(Q) /\ Cardinality(Q) = Cardinality(Queue) + 1
      BY <2>2, QueueFinite, FS_AddElement
    <3>2. /\ Cardinality(Queue') \in Nat /\ Cardinality(Q) \in Nat
          /\ Cardinality(Queue') <= Cardinality(Q)
      BY <3>1, <2>2, FS_Subset, FS_CardinalityType
    <3>3. ~(Cardinality(Queue) >= MaxDepth)
      BY <2>2 DEF Full
    <3> HIDE DEF Q
    <3>4. QED BY <3>1, <3>2, <3>3, QueueFinite, QueueAssumption
  <2>3. QED BY <2>1, <2>2, QueueGrowth
<1>3. Inv /\ Bound => TypeOK
  BY DEF Inv, Types, Consumer, TypeOK, InFlight
<1> HIDE DEF Bound
<1>4. QED BY <1>1, <1>2, <1>3, InvHolds, PTL DEF Spec

----------------------------------------------------------------------------
(* The queue implements the FIFO service.                                  *)

\* Entering processQueue with statuses s is a handoff of the service.
LEMMA ProcessQueueHandoff ==
  ASSUME NEW s \in [Items -> Status], NEW busy, ProcessQueue(s, busy),
         busy \/ \A i \in Items : s[i] # "inFlight"
  PROVE  Service!Handoff([i \in Items |-> Stage(s[i])],
                         [i \in Items |-> Stage(st'[i])])
<1>1. CASE st' = s
  BY <1>1 DEF Service!Handoff
<1>2. ASSUME NEW i \in Items, ~busy, s[i] = "queued",
             \A j \in Items : s[j] = "queued" => i <= j,
             st' = [s EXCEPT ![i] = "inFlight"]
      PROVE  Service!Handoff([j \in Items |-> Stage(s[j])],
                             [j \in Items |-> Stage(st'[j])])
  <2> DEFINE a == [j \in Items |-> Stage(s[j])]
             b == [j \in Items |-> Stage(st'[j])]
  <2>1. a[i] = "waiting"
    BY <1>2 DEF Stage
  <2>2. \A k \in Items : a[k] # "serving" /\ (a[k] = "waiting" => i <= k)
    BY <1>2 DEF Stage, Status
  <2>3. b = [a EXCEPT ![i] = "serving"]
    BY <1>2 DEF Stage
  <2> HIDE DEF a, b
  <2>4. Service!Handoff(a, b)
    BY <2>1, <2>2, <2>3 DEF Service!Handoff
  <2>5. QED BY <2>4 DEF a, b
<1>3. QED BY <1>1, <1>2, ProcessQueueEffect

\* Every step of the queue is a step of the service or leaves it unchanged.
LEMMA StepImplements ==
  ASSUME Inv, [Next]_vars
  PROVE  [Service!Next]_([i \in Items |-> Stage(st[i])])
<1> DEFINE a == [i \in Items |-> Stage(st[i])]
<1>t. Types /\ Consumer
  BY DEF Inv
<1>1. CASE Enqueue
  <2>2. PICK m \in Items : m = arrived + 1 /\ st[m] = "new"
    BY <1>1, <1>t, QueueAssumption DEF Enqueue, Types, Consumer, Items
  <2>3. a[m] = "new" /\ \A j \in Items : a[j] = "new" => m <= j
    BY <2>2, <1>t, QueueAssumption DEF Types, Consumer, Stage, Status, Items
  <2>4. CASE EnqueueDropped(m)
    <3>1. a' = [a EXCEPT ![m] = "over"]
      BY <2>2, <2>4, <1>t DEF EnqueueDropped, Types, Stage
    <3>2. QED BY <2>3, <3>1 DEF Service!Next, Service!Arrive
  <2>5. CASE EnqueueAccepted(m)
    <3> DEFINE s == [st EXCEPT ![m] = "queued"]
    <3>1. ProcessQueue(s, processing)
      BY <2>5 DEF EnqueueAccepted
    <3>2. /\ s \in [Items -> Status]
          /\ processing \/ \A j \in Items : s[j] # "inFlight"
      BY <1>t DEF Types, Consumer, Status
    <3>3. [j \in Items |-> Stage(s[j])] = [a EXCEPT ![m] = "waiting"]
      BY <1>t DEF Types, Stage
    <3> HIDE DEF s
    <3>4. Service!Handoff([j \in Items |-> Stage(s[j])], a')
      BY <3>1, <3>2, ProcessQueueHandoff
    <3>5. Service!Handoff([a EXCEPT ![m] = "waiting"], a')
      BY <3>3, <3>4
    <3>6. QED BY <2>3, <3>5 DEF Service!Next, Service!Arrive
  <2>6. QED BY <1>1, <2>2, <2>4, <2>5 DEF Enqueue
<1>2. CASE AbortAndDrain
  <2>1. a' = [i \in Items |-> IF a[i] = "waiting" THEN "over" ELSE a[i]]
    BY <1>2, <1>t DEF AbortAndDrain, Types, Stage, Status
  <2>2. QED BY <2>1 DEF Service!Next, Service!Flush
<1>3. CASE Unlock
  <2>1. Service!Handoff(a, a')
    BY <1>3, <1>t, ProcessQueueHandoff DEF Unlock, Types, Consumer
  <2>2. QED BY <2>1 DEF Service!Next, Service!Resume
<1>4. ASSUME NEW i \in Items, DispatchSettles(i) PROVE Service!Next
  <2> DEFINE s == [st EXCEPT ![i] = IF ~aborted /\ runEpoch = epoch
                                    THEN "answered" ELSE "suppressed"]
  <2>1. /\ s \in [Items -> Status]
        /\ \A j \in Items : s[j] # "inFlight"
        /\ st[i] = "inFlight"
    BY <1>4, <1>t DEF DispatchSettles, Types, Consumer, Status
  <2>2. [j \in Items |-> Stage(s[j])] = [a EXCEPT ![i] = "over"]
    BY <1>t DEF Types, Stage
  <2>3. Service!Handoff([j \in Items |-> Stage(s[j])], a')
    <3>1. CASE ProcessQueue(s, FALSE)
      <4> HIDE DEF s
      <4> QED BY <3>1, <2>1, ProcessQueueHandoff
    <3>2. ASSUME NEW j \in QueuedIn(s), \A k \in QueuedIn(s) : j <= k,
                 st' = [s EXCEPT ![j] = "inFlight"]
          PROVE  Service!Handoff([k \in Items |-> Stage(s[k])], a')
      <4> DEFINE c == [k \in Items |-> Stage(s[k])]
      <4>1. /\ j \in Items
            /\ c[j] = "waiting"
            /\ \A k \in Items : c[k] # "serving" /\ (c[k] = "waiting" => j <= k)
        BY <2>1, <3>2 DEF Stage, Status, QueuedIn
      <4> HIDE DEF s
      <4>2. a' = [c EXCEPT ![j] = "serving"]
        BY <2>1, <3>2, <4>1 DEF Stage
      <4> HIDE DEF c
      <4>3. Service!Handoff(c, a')
        BY <4>1, <4>2 DEF Service!Handoff
      <4>4. QED BY <4>3 DEF c
    <3>3. QED BY <1>4, <3>1, <3>2 DEF DispatchSettles
  <2>4. Service!Handoff([a EXCEPT ![i] = "over"], a') /\ a[i] = "serving"
    BY <2>1, <2>2, <2>3 DEF Stage
  <2>5. QED BY <2>4 DEF Service!Next, Service!Finish
<1>5. CASE Lock \/ CooldownOver \/ UNCHANGED vars
  BY <1>5 DEF Lock, CooldownOver, vars
<1>6. QED BY <1>1, <1>2, <1>3, <1>4, <1>5 DEF Next

\* MessageQueue implements FifoService: items are served one at a time, in the
\* order of their arrival, and what is in service is never taken back.
THEOREM ImplementsFifoService == Spec => IsFifoService
<1>1. Init => Service!Init
  BY DEF Init, Service!Init, Stage
<1>2. QED BY <1>1, InvHolds, StepImplements, PTL
          DEF Spec, IsFifoService, Service!Spec

----------------------------------------------------------------------------
(* ConversationStore: the invariant.                                       *)

Kinds  == {"create", "put", "delete", "clear", "rename", "name"}
Writes == [kind : Kinds, conv : Nat, msg : Nat, before : SUBSET Msgs]
Runs   == [write : Writes, gives : Titles, convs : SUBSET Nat, recs : SUBSET Nat,
           msgs : SUBSET Msgs, doomed : SUBSET Msgs, hung : BOOLEAN]
Stages == {"new", "ensuring", "ensured", "refused", "creating", "announcing", "sent", "entry"}

Typed ==
  /\ title \in [Convs -> Titles] /\ named \in [Convs -> SUBSET Titles]
  /\ stored \subseteq Msgs /\ doomed \subseteq Msgs /\ erased \subseteq Convs
  /\ of \in [Msgs -> Nat] /\ stage \in [Msgs -> Stages]
  /\ current \in Nat /\ made \in Nat
  /\ buffer \in Seq(Msgs) /\ flushing \in Seq(Msgs)
  /\ queue \in Seq(Writes) /\ running \subseteq Runs /\ late \subseteq Runs
  /\ batch \in [ids : SUBSET Convs, rest : Seq(Convs), hit : BOOLEAN]

\* The entries that wait for a flush, and the writes that will be answered.
Waits   == Range(buffer) \cup Range(flushing)
Pending == Range(queue) \cup {r.write : r \in running}

\* What holds of a write until it is answered.
Good(w) ==
  /\ w.kind = "put" =>
       /\ w.msg \in Msgs /\ w.conv # 0 /\ of[w.msg] = w.conv
       /\ w.conv \notin disturbed => w.msg \notin doomed
  /\ w.kind = "delete" => w.conv \in Known
  /\ w.kind = "create" => w.msg \in Msgs /\ stage[w.msg] = "creating" /\ w.conv <= made
  /\ w.kind \notin Deletes => w.before = {}
  /\ \A m \in w.before : of[m] # 0 /\ m \notin Waits

\* A write w after a write v: another conversation is created, and what a
\* deletion was asked to delete has been stored before it.
Follows(v, w) ==
  /\ v.kind = "create" /\ w.kind = "create" => v.conv # w.conv /\ v.msg # w.msg
  /\ w.kind = "put" => w.msg \notin v.before

Ordered(q) == \A i, j \in DOMAIN q : i < j => Follows(q[i], q[j])

\* A conversation to be created has not had a record.
Unmade(w) == w.kind = "create" => w.conv \notin Known

InOrder ==
  /\ \A w \in Pending : Good(w)
  /\ \A w \in Range(queue) : Unmade(w)
  /\ Ordered(queue) /\ \A r \in running : \A w \in Range(queue) : Follows(r.write, w)

\* A message is given a conversation once; a deleted one does not wait.
Messages ==
  /\ \A m \in Msgs : stage[m] \notin {"sent", "entry"} => of[m] = 0
  /\ \A m \in stored \cup doomed \cup Waits : of[m] # 0
  /\ \A m \in doomed : of[m] \in erased /\ (of[m] \notin disturbed => m \notin Waits)

NamedOnce ==
  /\ \A c \in Convs : /\ title[c] # "none" \/ c \in erased => c \in Known
                      /\ c \in Known => c <= made
  /\ \A c \in Range(batch.rest) : c \in Known

\* What a write that has begun may change, in time or late.
Bounded(r) ==
  LET w == r.write IN
  /\ r.recs \subseteq r.convs
  /\ IF w.kind = "clear" THEN r.convs \subseteq Convs ELSE r.convs \subseteq {w.conv}
  /\ IF w.kind = "create" THEN w.conv <= made ELSE r.convs \subseteq Known
  /\ w.kind = "put" =>
       r.msgs \subseteq {w.msg} /\ w.msg \in Msgs /\ of[w.msg] = w.conv /\ w.conv # 0
  /\ w.kind \notin Deletes \cup {"put"} => r.msgs = {}
  /\ IF w.kind \in Deletes
     THEN /\ r.gives = "none" /\ r.doomed \subseteq w.before
          /\ \A m \in r.msgs \cup r.doomed : of[m] \in r.convs
     ELSE r.doomed = {}

\* How far the running write is with a conversation: it is about to write the
\* record that it has read, or has written its own; and it has deleted what it has
\* promised to delete, or is about to.
Faithful(r, c) ==
  LET w == r.write IN
  /\ c \in r.recs =>
       /\ w.kind = "put"    => r.gives = title[c]
       /\ w.kind = "create" => c \notin Known
       /\ w.kind \notin Deletes \cup {"create"} => title[c] # "none"
  /\ c \in r.convs \ r.recs =>
       /\ w.kind \in Names   => title[c] = r.gives
       /\ w.kind \in Deletes => title[c] = "none"
  /\ \A m \in r.doomed : of[m] = c => m \in r.msgs \/ m \notin stored

\* One write runs at a time, and nobody else changes its conversations, but for
\* those of abandoned writes.
Snapshots ==
  /\ \A r, s \in running : r = s
  /\ \A r \in running \cup late : Bounded(r)
  /\ \A r \in running : \A c \in Convs \ disturbed : Faithful(r, c)

\* An abandoned write is of a disturbed conversation, or of all.
Strayed(w) ==
  /\ IF w.kind = "clear" THEN Convs \subseteq disturbed ELSE w.conv \in disturbed
  /\ w.kind = "create" => \A x \in Pending : x.kind = "create" => x.conv # w.conv

Abandoned == \A r \in late : Strayed(r.write)

StoreInv ==
  /\ Typed /\ InOrder /\ Messages /\ NamedOnce /\ Snapshots /\ Abandoned
  /\ TitleIsLast /\ GoneIsGone

----------------------------------------------------------------------------
(* Sequences.                                                              *)

LEMMA RangeFacts ==
  ASSUME NEW S, NEW q \in Seq(S)
  PROVE  /\ Range(q) \subseteq S
         /\ \A x \in S : Append(q, x) \in Seq(S) /\ Range(Append(q, x)) = Range(q) \cup {x}
         /\ q # <<>> => /\ Head(q) \in Range(q) /\ Tail(q) \in Seq(S)
                        /\ Range(Tail(q)) \subseteq Range(q)
<1>1. Len(q) \in Nat /\ DOMAIN q = 1..Len(q) /\ \A i \in 1..Len(q) : q[i] \in S
  OBVIOUS
<1>2. Range(q) \subseteq S
  BY <1>1 DEF Range
<1>3. ASSUME NEW x \in S
      PROVE  Append(q, x) \in Seq(S) /\ Range(Append(q, x)) = Range(q) \cup {x}
  <2>1. /\ Append(q, x) \in Seq(S) /\ DOMAIN Append(q, x) = 1..(Len(q) + 1)
        /\ \A i \in 1..Len(q) : Append(q, x)[i] = q[i]
        /\ Append(q, x)[Len(q) + 1] = x
    BY <1>1
  <2>2. \A y \in Range(Append(q, x)) : y \in Range(q) \cup {x}
    <3> TAKE y \in Range(Append(q, x))
    <3>1. PICK i \in 1..(Len(q) + 1) : y = Append(q, x)[i]
      BY <2>1 DEF Range
    <3>2. i \in 1..Len(q) \/ i = Len(q) + 1
      BY <1>1
    <3>3. QED BY <1>1, <2>1, <3>1, <3>2 DEF Range
  <2>3. \A y \in Range(q) : y \in Range(Append(q, x))
    <3> TAKE y \in Range(q)
    <3>1. PICK i \in 1..Len(q) : y = q[i]
      BY <1>1 DEF Range
    <3>2. i \in 1..(Len(q) + 1)
      BY <1>1
    <3>3. QED BY <2>1, <3>1, <3>2 DEF Range
  <2>4. x \in Range(Append(q, x))
    <3>1. Len(q) + 1 \in 1..(Len(q) + 1)
      BY <1>1
    <3>2. QED BY <2>1, <3>1 DEF Range
  <2>5. QED BY <2>1, <2>2, <2>3, <2>4
<1>4. ASSUME q # <<>>
      PROVE  /\ Head(q) \in Range(q) /\ Tail(q) \in Seq(S)
             /\ Range(Tail(q)) \subseteq Range(q)
  <2>1. /\ Len(q) >= 1 /\ Head(q) = q[1] /\ Tail(q) \in Seq(S)
        /\ DOMAIN Tail(q) = 1..(Len(q) - 1)
        /\ \A i \in 1..(Len(q) - 1) : Tail(q)[i] = q[i + 1]
    BY <1>1, <1>4
  <2>2. Head(q) \in Range(q)
    BY <1>1, <2>1 DEF Range
  <2>3. \A y \in Range(Tail(q)) : y \in Range(q)
    <3> TAKE y \in Range(Tail(q))
    <3>1. PICK i \in 1..(Len(q) - 1) : y = q[i + 1]
      BY <2>1 DEF Range
    <3>2. i + 1 \in 1..Len(q)
      BY <1>1
    <3>3. QED BY <1>1, <3>1, <3>2 DEF Range
  <2>4. QED BY <2>1, <2>2, <2>3
<1>5. QED BY <1>2, <1>3, <1>4

LEMMA OrderedFacts ==
  ASSUME NEW q \in Seq(Writes), Ordered(q)
  PROVE  /\ \A x \in Writes : (\A v \in Range(q) : Follows(v, x)) => Ordered(Append(q, x))
         /\ q # <<>> => Ordered(Tail(q)) /\ \A w \in Range(Tail(q)) : Follows(Head(q), w)
<1>1. Len(q) \in Nat /\ DOMAIN q = 1..Len(q)
  OBVIOUS
<1>2. ASSUME NEW x \in Writes, \A v \in Range(q) : Follows(v, x)
      PROVE  Ordered(Append(q, x))
  <2> DEFINE p == Append(q, x)
  <2>1. /\ DOMAIN p = 1..(Len(q) + 1) /\ p[Len(q) + 1] = x
        /\ \A i \in 1..Len(q) : p[i] = q[i]
    BY <1>1
  <2> HIDE DEF p
  <2>2. ASSUME NEW i \in 1..(Len(q) + 1), NEW j \in 1..(Len(q) + 1), i < j
        PROVE  Follows(p[i], p[j])
    <3>1. i \in 1..Len(q) /\ p[i] = q[i] /\ q[i] \in Range(q)
      BY <1>1, <2>1, <2>2 DEF Range
    <3>2. CASE j = Len(q) + 1
      BY <1>2, <2>1, <3>1, <3>2
    <3>3. CASE j # Len(q) + 1
      <4>1. j \in 1..Len(q) /\ p[j] = q[j]
        BY <1>1, <2>1, <3>3
      <4>2. QED BY <1>1, <2>2, <3>1, <4>1 DEF Ordered
    <3>4. QED BY <3>2, <3>3
  <2>3. QED BY <2>1, <2>2 DEF Ordered, p
<1>3. ASSUME q # <<>>
      PROVE  Ordered(Tail(q)) /\ \A w \in Range(Tail(q)) : Follows(Head(q), w)
  <2>1. /\ Len(q) >= 1 /\ Head(q) = q[1] /\ DOMAIN Tail(q) = 1..(Len(q) - 1)
        /\ \A i \in 1..(Len(q) - 1) : Tail(q)[i] = q[i + 1]
    BY <1>1, <1>3
  <2>2. ASSUME NEW i \in 1..(Len(q) - 1), NEW j \in 1..(Len(q) - 1), i < j
        PROVE  Follows(Tail(q)[i], Tail(q)[j])
    <3>1. i + 1 \in 1..Len(q) /\ j + 1 \in 1..Len(q) /\ i + 1 < j + 1
      BY <1>1, <2>2
    <3>2. QED BY <1>1, <2>1, <3>1 DEF Ordered
  <2>3. ASSUME NEW w \in Range(Tail(q)) PROVE Follows(Head(q), w)
    <3>1. PICK i \in 1..(Len(q) - 1) : w = q[i + 1]
      BY <2>1 DEF Range
    <3>2. i + 1 \in 1..Len(q) /\ 1 \in 1..Len(q) /\ 1 < i + 1
      BY <1>1, <2>1
    <3>3. QED BY <1>1, <2>1, <3>1, <3>2 DEF Ordered
  <2>4. QED BY <2>1, <2>2, <2>3 DEF Ordered
<1>4. QED BY <1>2, <1>3

----------------------------------------------------------------------------
(* Writes.                                                                 *)

LEMMA WriteMade ==
  ASSUME NEW k \in Kinds, NEW c \in Nat, NEW m \in Nat
  PROVE  /\ Write(k, c, m) \in Writes
         /\ Write(k, c, m).kind = k /\ Write(k, c, m).conv = c /\ Write(k, c, m).msg = m
         /\ k \notin {"delete", "clear"} => Write(k, c, m).before = {}
         /\ \A b \in Write(k, c, m).before :
              /\ b \in Msgs /\ b \notin Waits
              /\ IF k = "delete" THEN of[b] = c ELSE of[b] \in Convs
<1>1. \A cs : Accepted(cs) \subseteq Msgs
  BY DEF Accepted
<1>2. \A cs : \A b \in Accepted(cs) : of[b] \in cs /\ b \notin Waits
  BY DEF Accepted, Waits
<1> DEFINE be == CASE k = "delete" -> Accepted({c})
                   [] k = "clear"  -> Accepted(Convs)
                   [] OTHER -> {}
<1>3. Write(k, c, m) = [kind |-> k, conv |-> c, msg |-> m, before |-> be]
  BY DEF Write
<1>4. /\ be \subseteq Msgs
      /\ k \notin {"delete", "clear"} => be = {}
      /\ \A b \in be : b \notin Waits /\ IF k = "delete" THEN of[b] = c ELSE of[b] \in Convs
  BY <1>1, <1>2
<1> DEFINE x == Write(k, c, m)
<1> HIDE DEF be
<1>5. x.kind = k /\ x.conv = c /\ x.msg = m /\ x.before = be
  BY <1>3
<1>6. x \in Writes
  BY <1>3, <1>4 DEF Writes
<1> HIDE DEF x
<1>7. /\ k \notin {"delete", "clear"} => x.before = {}
      /\ \A b \in x.before : /\ b \in Msgs /\ b \notin Waits
                             /\ IF k = "delete" THEN of[b] = c ELSE of[b] \in Convs
  BY <1>4, <1>5
<1>8. QED BY <1>5, <1>6, <1>7 DEF x

LEMMA PutMade ==
  \A c, m \in Nat : /\ Write("put", c, m) \in Writes /\ Write("put", c, m).kind = "put"
                     /\ Write("put", c, m).conv = c /\ Write("put", c, m).msg = m
                     /\ Write("put", c, m).before = {}
<1> SUFFICES ASSUME NEW c \in Nat, NEW m \in Nat
             PROVE  /\ Write("put", c, m) \in Writes /\ Write("put", c, m).kind = "put"
                    /\ Write("put", c, m).conv = c /\ Write("put", c, m).msg = m
                    /\ Write("put", c, m).before = {}
  OBVIOUS
<1>1. "put" \in Kinds
  BY DEF Kinds
<1>2. QED BY <1>1, WriteMade

\* A write that stays pending.
LEMMA GoodKept ==
  ASSUME NEW w \in Writes, Good(w), Typed,
         \A m \in Msgs : of[m] # 0 => of'[m] = of[m],
         Known \subseteq Known',
         made <= made', made' \in Nat, disturbed \subseteq disturbed',
         \A m \in Waits' : m \in Waits \/ of[m] = 0,
         w.kind = "put" /\ w.conv \notin disturbed' => w.msg \notin doomed',
         w.kind = "create" => stage'[w.msg] = "creating"
  PROVE  Good(w)'
<1>1. w.before \subseteq Msgs /\ w.conv \in Nat /\ made \in Nat
  BY DEF Writes, Typed
<1>2. \A m \in w.before : of'[m] # 0 /\ m \notin Waits'
  BY <1>1 DEF Good
<1>3. w.kind = "create" => w.conv <= made'
  BY <1>1 DEF Good
<1>4. QED BY <1>2, <1>3 DEF Good

LEMMA KindFacts ==
  ASSUME NEW w \in Writes
  PROVE  /\ w.kind \in Deletes <=> w.kind \in {"delete", "clear"}
         /\ w.kind \in Names <=> w.kind \in {"create", "rename", "name"}
         /\ w.kind \in Kinds /\ w.conv \in Nat /\ w.msg \in Nat /\ w.before \subseteq Msgs
BY DEF Writes, Deletes, Names

LEMMA BoundedKept ==
  ASSUME NEW r \in Runs, Bounded(r), Known \subseteq Known', made \in Nat, made' \in Nat,
         made <= made', \A m \in Msgs : of[m] # 0 => of'[m] = of[m]
  PROVE  Bounded(r)'
<1> DEFINE w == r.write
<1>1. w \in Writes /\ r.msgs \subseteq Msgs /\ r.doomed \subseteq Msgs
  BY DEF Runs
<1>2. w.conv \in Nat /\ w.before \subseteq Msgs
  BY <1>1, KindFacts
<1>3. w.kind = "create" => w.conv <= made'
  BY <1>2 DEF Bounded
<1>4. w.kind = "put" => of'[w.msg] = w.conv
  BY DEF Bounded
<1>5. w.kind \in Deletes => \A m \in r.msgs \cup r.doomed : of'[m] \in r.convs
  <2> SUFFICES ASSUME w.kind \in Deletes, NEW m \in r.msgs \cup r.doomed PROVE of'[m] \in r.convs
    OBVIOUS
  <2>1. of[m] \in r.convs /\ r.convs \subseteq Known
    BY DEF Bounded, Deletes
  <2>2. of[m] # 0 /\ m \in Msgs
    BY <1>1, <1>2, <2>1 DEF Known, Convs
  <2>3. QED BY <2>1, <2>2
<1>6. w.kind # "create" => r.convs \subseteq Known'
  BY DEF Bounded
<1>7. QED BY <1>3, <1>4, <1>5, <1>6 DEF Bounded

\* What may be appended to the queue, and what it is then.
Fits(x) == Good(x) /\ Unmade(x)

Added(x) ==
  /\ x.kind = "put" => x.msg \in Waits \/ of[x.msg] = 0
  /\ x.kind = "create" => x.conv > made /\ x.msg \in Msgs /\ stage[x.msg] # "creating"

LEMMA AddedFollows ==
  ASSUME NEW v \in Writes, Good(v), NEW x \in Writes, Added(x), Typed
  PROVE  Follows(v, x)
<1>1. x.kind = "put" => x.msg \notin v.before
  BY DEF Good, Added
<1>2. v.kind = "create" /\ x.kind = "create" => v.conv # x.conv /\ v.msg # x.msg
  <2>1. v.conv \in Nat /\ x.conv \in Nat /\ made \in Nat
    BY DEF Writes, Typed
  <2>2. QED BY <2>1 DEF Good, Added
<1>3. QED BY <1>1, <1>2 DEF Follows

\* The order of the writes: some of those that were pending still are, one may
\* have been appended.
LEMMA OrderKept ==
  ASSUME Typed, Typed', InOrder, NEW rest \in Seq(Writes), Ordered(rest),
         Range(rest) \subseteq Range(queue),
         \A r \in running' : r.write \in Pending /\ \A w \in Range(rest) : Follows(r.write, w),
         \A w \in Pending : Good(w) /\ (w \in Range(rest) \/ \E r \in running' : r.write = w)
                              => Good(w)',
         \A w \in Range(rest) : Unmade(w)',
         \/ queue' = rest
         \/ \E x \in Writes : queue' = Append(rest, x) /\ Added(x) /\ Fits(x)'
  PROVE  InOrder'
<1>1. /\ Pending \subseteq Writes /\ \A w \in Pending : Good(w)
      /\ Range(rest) \subseteq Pending /\ \A r \in running' : r.write \in Pending
  BY RangeFacts DEF Typed, InOrder, Pending, Runs
<1>2. \A w \in Range(rest) \cup {r.write : r \in running'} : Good(w)'
  BY <1>1
<1>3. Pending' = Range(queue') \cup {r.write : r \in running'}
  BY DEF Pending
<1>4. CASE queue' = rest
  <2>1. \A w \in Pending' : Good(w)'
    BY <1>2, <1>3, <1>4
  <2>2. QED BY <1>4, <2>1 DEF InOrder, Ordered
<1>5. ASSUME NEW x \in Writes, queue' = Append(rest, x), Added(x), Fits(x)'
      PROVE  InOrder'
  <2>1. Range(queue') = Range(rest) \cup {x}
    BY <1>5, RangeFacts
  <2>2. \A v \in Pending : Follows(v, x)
    BY <1>1, <1>5, AddedFollows
  <2>3. Ordered(queue')
    BY <1>1, <1>5, <2>2, OrderedFacts
  <2>4. \A w \in Pending' : Good(w)'
    BY <1>2, <1>3, <1>5, <2>1 DEF Fits
  <2>5. \A r \in running' : \A w \in Range(queue') : Follows(r.write, w)
    BY <1>1, <2>1, <2>2
  <2>6. Ordered(queue)'
    BY <2>3 DEF Ordered
  <2>7. \A w \in Range(queue') : Unmade(w)'
    BY <1>5, <2>1 DEF Fits
  <2>8. QED BY <2>4, <2>5, <2>6, <2>7 DEF InOrder
<1>6. QED BY <1>4, <1>5

----------------------------------------------------------------------------
(* The steps that leave the store and the write in progress alone.         *)

LEMMA FrontStep ==
  ASSUME StoreInv, Typed',
         UNCHANGED <<running, late, disk, disturbed>>, made <= made',
         \A m \in Msgs : of[m] # 0 => of'[m] = of[m],
         \A m \in Msgs : stage[m] = "creating" => stage'[m] = "creating",
         \A m \in Msgs : stage'[m] \notin {"sent", "entry"} => of'[m] = 0,
         \A m \in Waits' : of'[m] # 0 /\ (m \in Waits \/ of[m] = 0),
         \A c \in Range(batch'.rest) : c \in Known,
         \/ queue' = queue
         \/ \E x \in Writes : queue' = Append(queue, x) /\ Added(x) /\ Fits(x)'
  PROVE  StoreInv'
<1>1. Typed /\ InOrder /\ Messages /\ NamedOnce /\ Snapshots /\ Abandoned
  BY DEF StoreInv
<1>2. UNCHANGED <<running, late, title, stored, named, erased, doomed, disturbed>> /\ Known' = Known
  BY DEF disk, Known
<1>3. \A w \in Pending : w \in Writes /\ Good(w)
  BY <1>1, RangeFacts DEF InOrder, Typed, Pending, Runs
<1>4. \A w \in Pending : Good(w)'
  <2> TAKE w \in Pending
  <2>1. /\ w.kind = "put" /\ w.conv \notin disturbed => w.msg \notin doomed
        /\ w.kind = "create" => w.msg \in Msgs /\ stage[w.msg] = "creating"
    BY <1>3 DEF Good
  <2>2. made' \in Nat
    BY DEF Typed
  <2>3. QED BY <1>1, <1>2, <1>3, <2>1, <2>2, GoodKept
<1>5. InOrder'
  <2>1. queue \in Seq(Writes) /\ Ordered(queue) /\ Range(queue) \subseteq Pending
    BY <1>1 DEF Typed, InOrder, Pending
  <2>2. \A r \in running' : r.write \in Pending /\ \A w \in Range(queue) : Follows(r.write, w)
    BY <1>1, <1>2 DEF InOrder, Pending
  <2>3. \A w \in Range(queue) : Unmade(w)'
    BY <1>1, <1>2 DEF InOrder, Unmade
  <2>4. QED BY <1>1, <1>4, <2>1, <2>2, <2>3, OrderKept
<1>6. Messages'
  <2>1. \A m \in stored' \cup doomed' \cup Waits' : of'[m] # 0
    BY <1>1, <1>2 DEF Messages, Typed
  <2>2. \A m \in doomed' : /\ of'[m] \in erased'
                           /\ of'[m] \notin disturbed' => m \notin Waits'
    BY <1>1, <1>2 DEF Messages, Typed
  <2>3. QED BY <2>1, <2>2 DEF Messages
<1>7. NamedOnce'
  <2>1. made \in Nat /\ made' \in Nat /\ \A c \in Convs : c \in Nat
    BY DEF StoreInv, Typed, Convs
  <2>2. \A c \in Convs : c <= made => c <= made'
    BY <2>1
  <2>3. QED BY <1>1, <1>2, <2>2 DEF NamedOnce
<1>8. Snapshots'
  <2>1. made \in Nat /\ made' \in Nat
    BY <1>1 DEF Typed
  <2>2. \A r \in running \cup late : Bounded(r)'
    BY <1>1, <1>2, <2>1, BoundedKept DEF Snapshots, Typed
  <2>3. ASSUME NEW r \in running, NEW c \in Convs \ disturbed PROVE Faithful(r, c)'
    <3>1. Faithful(r, c) /\ Bounded(r) /\ r \in Runs
      BY <1>1 DEF Snapshots, Typed
    <3>2. \A m \in r.doomed : of[m] # 0 /\ m \in Msgs
      BY <3>1 DEF Bounded, Runs, Known, Convs, Deletes
    <3>3. QED BY <1>2, <3>1, <3>2 DEF Faithful
  <2>4. QED BY <1>1, <1>2, <2>2, <2>3 DEF Snapshots
<1>9. Abandoned'
  <2> SUFFICES ASSUME NEW r \in late PROVE Strayed(r.write)'
    BY <1>2 DEF Abandoned
  <2> DEFINE w == r.write
  <2>1. Strayed(w) /\ w.conv \in Nat /\ (w.kind = "create" => w.conv <= made)
    BY <1>1 DEF Abandoned, Typed, Runs, Writes, Snapshots, Bounded
  <2>2. ASSUME w.kind = "create", NEW x \in Pending', x.kind = "create" PROVE x.conv # w.conv
    <3>1. CASE x \in Pending
      BY <2>1, <2>2, <3>1 DEF Strayed
    <3>2. CASE x \notin Pending
      <4>1. Added(x)
        <5>1. x \in Range(queue') /\ x \notin Range(queue)
          BY <1>2, <2>2, <3>2 DEF Pending
        <5>2. PICK z \in Writes : queue' = Append(queue, z) /\ Added(z)
          BY <5>1
        <5>3. Range(queue') = Range(queue) \cup {z}
          BY <1>1, <5>2, RangeFacts DEF Typed
        <5>4. QED BY <5>1, <5>2, <5>3
      <4>2. x.conv \in Nat
        <5>1. Range(queue') \subseteq Writes /\ running \subseteq Runs
          BY <1>1, RangeFacts DEF Typed
        <5>2. x \in Range(queue') \/ \E r2 \in running : x = r2.write
          BY <1>2, <2>2 DEF Pending
        <5>3. QED BY <5>1, <5>2 DEF Runs, Writes
      <4>3. x.conv > made /\ w.conv <= made /\ made \in Nat
        BY <1>1, <2>1, <2>2, <4>1 DEF Added, Typed
      <4>4. QED BY <2>1, <4>2, <4>3
    <3>3. QED BY <3>1, <3>2
  <2> HIDE DEF w
  <2>3. Strayed(w)'
    BY <1>2, <2>1, <2>2 DEF Strayed
  <2>4. QED BY <2>3 DEF w
<1>10. TitleIsLast' /\ GoneIsGone'
  BY <1>1, <1>2 DEF StoreInv, TitleIsLast, GoneIsGone, Messages, Typed
<1>11. QED BY <1>5, <1>6, <1>7, <1>8, <1>9, <1>10 DEF StoreInv

----------------------------------------------------------------------------
(* The answer of a write.                                                  *)

LEMMA ConcatOne ==
  ASSUME NEW S, NEW s \in Seq(S), NEW x \in S
  PROVE  s \o <<x>> = Append(s, x) /\ s \o <<>> = s
OBVIOUS

LEMMA NextOfFlush ==
  ASSUME Typed, NEW q \in Seq(Msgs), NEW rest \in Seq(Writes)
  PROVE  \/ rest \o FlushNext(q) = rest
         \/ \E x \in Writes : /\ rest \o FlushNext(q) = Append(rest, x)
                              /\ x.kind = "put" /\ x.msg \in Range(q) /\ x.msg \in Msgs
                              /\ x.conv = of[x.msg] /\ x.before = {}
<1>1. CASE q = <<>>
  BY <1>1, ConcatOne DEF FlushNext
<1>2. CASE q # <<>>
  <2> DEFINE x == Write("put", of[Head(q)], Head(q))
  <2>1. Head(q) \in Range(q) /\ Head(q) \in Msgs
    BY <1>2, RangeFacts
  <2>2. Head(q) \in Nat /\ of[Head(q)] \in Nat
    BY <2>1 DEF Typed, Msgs
  <2>3. /\ x \in Writes /\ x.kind = "put" /\ x.msg = Head(q) /\ x.conv = of[Head(q)]
        /\ x.before = {}
    BY <2>2, PutMade
  <2>4. FlushNext(q) = <<x>>
    BY <1>2 DEF FlushNext
  <2> HIDE DEF x
  <2>5. QED BY <2>1, <2>3, <2>4, ConcatOne
<1>3. QED BY <1>1, <1>2

\* The writes that a flush goes on with, and those that are asked for.
Onward(x) ==
  \/ x.kind = "put" /\ x.msg \in Waits /\ x.msg \in Msgs /\ x.conv = of[x.msg] /\ x.before = {}
  \/ /\ x.kind \in {"delete", "clear", "rename", "name"}
     /\ x.kind = "delete" => x.conv \in Known
     /\ x.kind \notin Deletes => x.before = {}
     /\ \A b \in x.before : of[b] # 0 /\ b \notin Waits

LEMMA SettleShape ==
  ASSUME StoreInv, NEW w \in Writes, NEW ok \in BOOLEAN, NEW rest \in Seq(Writes),
         w.kind = "create" => w.msg \in Msgs, Settle(w, ok, rest)
  PROVE  /\ UNCHANGED <<of, buffer>> /\ current' \in Nat
         /\ flushing' \in Seq(Msgs) /\ Range(flushing') \subseteq Range(flushing)
         /\ batch' \in [ids : SUBSET Convs, rest : Seq(Convs), hit : BOOLEAN]
         /\ Range(batch'.rest) \subseteq Range(batch.rest)
         /\ stage' \in [Msgs -> Stages]
         /\ \A m \in Msgs : \/ stage'[m] = stage[m]
                            \/ /\ w.kind = "create" /\ m = w.msg
                               /\ stage'[m] \in {"announcing", "sent"}
         /\ \/ queue' = rest
            \/ \E x \in Writes : queue' = Append(rest, x) /\ Onward(x)
<1>1. Typed /\ NamedOnce
  BY DEF StoreInv
<1>2. CASE w.kind = "create"
  <2>1. CreateSettles(w, ok, rest)
    BY <1>2 DEF Settle
  <2>2. current' \in Nat
    BY <1>1, <2>1 DEF CreateSettles, Typed, Writes
  <2>3. stage' = [stage EXCEPT ![w.msg] = "announcing"] \/ stage' = [stage EXCEPT ![w.msg] = "sent"]
    BY <2>1 DEF CreateSettles
  <2>4. /\ stage' \in [Msgs -> Stages]
        /\ \A m \in Msgs : \/ stage'[m] = stage[m]
                           \/ m = w.msg /\ stage'[m] \in {"announcing", "sent"}
    <3>1. ASSUME NEW v \in {"announcing", "sent"}, stage' = [stage EXCEPT ![w.msg] = v]
          PROVE  /\ stage' \in [Msgs -> Stages]
                 /\ \A m \in Msgs : IF m = w.msg THEN stage'[m] = v ELSE stage'[m] = stage[m]
      <4>1. v \in Stages /\ w.msg \in Msgs
        BY <1>2 DEF Stages
      <4>2. stage \in [Msgs -> Stages]
        BY <1>1 DEF Typed
      <4>3. stage' \in [Msgs -> Stages]
        BY <3>1, <4>1, <4>2
      <4>4. \A m \in Msgs : stage'[m] = IF m = w.msg THEN v ELSE stage[m]
        BY <3>1, <4>1, <4>2
      <4>5. QED BY <4>3, <4>4
    <3>2. QED BY <2>3, <3>1
  <2>5. QED BY <1>1, <1>2, <2>1, <2>2, <2>4 DEF CreateSettles, pending, Typed
<1>3. CASE w.kind = "put"
  <2>1. PutSettles(w, rest)
    BY <1>3 DEF Settle
  <2>2. UNCHANGED <<agent, buffer, of>>
    BY <2>1 DEF PutSettles
  <2>3. CASE flushing # <<>> /\ w.msg = Head(flushing)
    <3>1. flushing' = Tail(flushing) /\ queue' = rest \o FlushNext(Tail(flushing))
      BY <2>1, <2>3 DEF PutSettles
    <3>2. Tail(flushing) \in Seq(Msgs) /\ Range(Tail(flushing)) \subseteq Range(flushing)
      BY <1>1, <2>3, RangeFacts DEF Typed
    <3>3. \/ queue' = rest
          \/ \E x \in Writes : queue' = Append(rest, x) /\ Onward(x)
      BY <1>1, <3>1, <3>2, NextOfFlush DEF Onward, Waits
    <3>4. QED BY <1>1, <2>2, <3>1, <3>2, <3>3 DEF agent, Typed
  <2>4. CASE ~(flushing # <<>> /\ w.msg = Head(flushing))
    BY <1>1, <2>1, <2>2, <2>4 DEF PutSettles, agent, Typed
  <2>5. QED BY <2>3, <2>4
<1>4. CASE w.kind \in {"delete", "clear"} /\ w.conv \in waiting
  <2>1. DeleteSettles(w, ok, rest)
    BY <1>4 DEF Settle
  <2>2. UNCHANGED <<stage, batch, of, buffer, flushing>> /\ queue' = rest /\ current' \in Nat
    BY <1>1, <2>1 DEF DeleteSettles, pending, Typed
  <2>3. QED BY <1>1, <2>2 DEF Typed
<1>5. CASE w.kind = "delete" /\ w.conv \notin waiting /\ w.conv \in Range(batch.rest)
  <2>1. BatchSettles(w, ok, rest)
    BY <1>5 DEF Settle
  <2>2. UNCHANGED <<stage, naming, waiting, pending>> /\ current' \in Nat
    BY <1>1, <2>1 DEF BatchSettles, Typed
  <2>3. CASE ok /\ Len(batch.rest) > 1
    <3>1. /\ batch'.rest = Tail(batch.rest)
          /\ queue' = Append(rest, Write("delete", batch.rest[2], 0))
          /\ batch' \in [ids : SUBSET Convs, rest : Seq(Convs), hit : BOOLEAN]
      <4>1. \E hit \in BOOLEAN : batch' = [batch EXCEPT !.rest = Tail(@), !.hit = hit]
        <5>1. (batch.hit \/ w.conv = current) \in BOOLEAN
          OBVIOUS
        <5>2. batch' = [batch EXCEPT !.rest = Tail(@), !.hit = batch.hit \/ w.conv = current]
          BY <2>1, <2>3 DEF BatchSettles
        <5>3. QED BY <5>1, <5>2
      <4>2. batch \in [ids : SUBSET Convs, rest : Seq(Convs), hit : BOOLEAN]
        BY <1>1 DEF Typed
      <4>3. batch'.rest = Tail(batch.rest)
        BY <4>1, <4>2
      <4>4. batch' \in [ids : SUBSET Convs, rest : Seq(Convs), hit : BOOLEAN]
        <5>1. Tail(batch.rest) \in Seq(Convs)
          BY <2>3, <4>2, RangeFacts
        <5>2. QED BY <4>1, <4>2, <5>1
      <4>5. QED BY <2>1, <2>3, <4>3, <4>4 DEF BatchSettles
    <3>2. /\ Tail(batch.rest) \in Seq(Convs)
          /\ Range(Tail(batch.rest)) \subseteq Range(batch.rest)
          /\ batch.rest[2] \in Range(batch.rest) /\ batch.rest[2] \in Convs
      BY <1>1, <2>3, RangeFacts DEF Typed, Range
    <3> DEFINE x == Write("delete", batch.rest[2], 0)
    <3>3. batch.rest[2] \in Nat /\ batch.rest[2] # 0
      BY <3>2 DEF Convs
    <3>4. /\ x \in Writes /\ x.kind = "delete" /\ x.conv = batch.rest[2]
          /\ \A b \in x.before : b \notin Waits /\ of[b] = batch.rest[2]
      BY <3>3, WriteMade DEF Kinds
    <3> HIDE DEF x
    <3>5. Onward(x)
      BY <1>1, <3>2, <3>3, <3>4 DEF Onward, NamedOnce, Deletes
    <3>6. QED BY <1>1, <2>2, <3>1, <3>2, <3>4, <3>5 DEF pending, x, Typed
  <2>4. CASE ~(ok /\ Len(batch.rest) > 1)
    <3>1. batch' = NoBatch /\ queue' = rest
      BY <2>1, <2>4 DEF BatchSettles
    <3>2. batch'.rest = <<>> /\ batch' \in [ids : SUBSET Convs, rest : Seq(Convs), hit : BOOLEAN]
      BY <3>1 DEF NoBatch
    <3>3. batch' \in [ids : SUBSET Convs, rest : Seq(Convs), hit : BOOLEAN] /\ Range(batch'.rest) = {}
      BY <3>2 DEF Range
    <3>4. QED BY <1>1, <2>2, <3>1, <3>3 DEF pending, Typed
  <2>5. QED BY <2>3, <2>4
<1>6. CASE /\ w.kind \notin {"create", "put"}
           /\ ~(w.kind \in {"delete", "clear"} /\ w.conv \in waiting)
           /\ ~(w.kind = "delete" /\ w.conv \in Range(batch.rest) \ waiting)
  BY <1>1, <1>6 DEF Settle, agent, pending, Typed
<1>7. QED BY <1>2, <1>3, <1>4, <1>5, <1>6

\* A write has been answered, and nothing runs: the queue and the messages.
LEMMA EndStep ==
  ASSUME StoreInv, Typed', NEW w \in Pending, NEW ok \in BOOLEAN, NEW rest \in Seq(Writes),
         Settle(w, ok, rest), running' = {}, made' = made, disturbed \subseteq disturbed',
         Ordered(rest), Range(rest) \subseteq Range(queue), \A v \in Range(rest) : Follows(w, v),
         Known \subseteq Known',
         \A v \in Range(rest) :
           /\ Unmade(v)'
           /\ v.kind = "put" /\ v.conv \notin disturbed' => v.msg \notin doomed',
         \A m \in doomed' : of[m] \in erased' /\ of[m] # 0 /\ (of[m] \notin disturbed' => m \notin Waits),
         \A m \in stored' : of[m] # 0
  PROVE  /\ InOrder' /\ Messages'
         /\ \A c \in Range(batch'.rest) : c \in Known'
         /\ \A x \in Pending' : x.kind = "create" => x \in Range(rest)
<1>1. Typed /\ InOrder /\ Messages /\ NamedOnce
  BY DEF StoreInv
<1>2. /\ Pending \subseteq Writes /\ \A v \in Pending : Good(v)
      /\ Range(rest) \subseteq Pending
  BY <1>1, RangeFacts DEF InOrder, Typed, Pending, Runs
<1>3. w \in Writes /\ Good(w) /\ (w.kind = "create" => w.msg \in Msgs /\ stage[w.msg] = "creating")
  BY <1>2 DEF Good
<1> DEFINE Kept == /\ UNCHANGED <<of, buffer>> /\ flushing' \in Seq(Msgs)
                   /\ Range(flushing') \subseteq Range(flushing)
                   /\ Range(batch'.rest) \subseteq Range(batch.rest)
           Told == \A m \in Msgs : \/ stage'[m] = stage[m]
                                   \/ /\ w.kind = "create" /\ m = w.msg
                                      /\ stage'[m] \in {"announcing", "sent"}
           Next1(x) == queue' = Append(rest, x) /\ Onward(x)
<1>4. Kept /\ Told /\ (queue' = rest \/ \E x \in Writes : Next1(x))
  BY <1>3, SettleShape
<1>5. UNCHANGED of /\ Waits' \subseteq Waits
  BY <1>4 DEF Waits
<1>6. \A v \in Range(rest) : Good(v)'
  <2> TAKE v \in Range(rest)
  <2>1. v \in Writes /\ Good(v) /\ Follows(w, v)
    BY <1>2
  <2>2. v.kind = "create" => stage'[v.msg] = "creating"
    BY <1>3, <1>4, <2>1 DEF Good, Follows
  <2>3. made <= made' /\ made' \in Nat
    BY <1>1 DEF Typed
  <2>4. QED BY <1>1, <1>5, <2>1, <2>2, <2>3, GoodKept
<1>7. ASSUME NEW x \in Writes, Next1(x) PROVE Added(x) /\ Fits(x)'
  <2>1. CASE x.kind = "put" /\ x.msg \in Waits /\ x.msg \in Msgs /\ x.conv = of[x.msg] /\ x.before = {}
    <3>1. x.conv # 0
      BY <1>1, <2>1 DEF Messages
    <3>2. x.conv \notin disturbed' => x.msg \notin doomed'
      BY <2>1
    <3>3. QED BY <1>5, <2>1, <3>1, <3>2 DEF Added, Fits, Good, Unmade
  <2>2. CASE /\ x.kind \in {"delete", "clear", "rename", "name"}
             /\ x.kind = "delete" => x.conv \in Known
             /\ x.kind \notin Deletes => x.before = {}
             /\ \A b \in x.before : of[b] # 0 /\ b \notin Waits
    BY <1>5, <2>2 DEF Added, Fits, Good, Unmade
  <2>3. QED BY <1>7, <2>1, <2>2 DEF Onward
<1>8. InOrder'
  <2>1. \/ queue' = rest
        \/ \E x \in Writes : queue' = Append(rest, x) /\ Added(x) /\ Fits(x)'
    BY <1>4, <1>7
  <2>2. \A v \in Pending : Good(v) /\ (v \in Range(rest) \/ \E r \in running' : r.write = v)
                             => Good(v)'
    BY <1>6
  <2>3. QED BY <1>1, <2>1, <2>2, OrderKept
<1>9. Messages'
  <2>1. \A m \in Msgs : stage'[m] \notin {"sent", "entry"} => of'[m] = 0
    BY <1>1, <1>3, <1>4, <1>5 DEF Messages
  <2>2. \A m \in stored' \cup doomed' \cup Waits' : of'[m] # 0
    BY <1>1, <1>5 DEF Messages
  <2>3. \A m \in doomed' : /\ of'[m] \in erased'
                           /\ of'[m] \notin disturbed' => m \notin Waits'
    BY <1>5
  <2>4. QED BY <2>1, <2>2, <2>3 DEF Messages
<1>10. \A c \in Range(batch'.rest) : c \in Known'
  <2>1. \A c \in Range(batch'.rest) : c \in Known /\ c \in Convs
    BY <1>1, <1>4, RangeFacts DEF NamedOnce, Typed
  <2>2. QED BY <2>1
<1>11. \A x \in Pending' : x.kind = "create" => x \in Range(rest)
  <2> SUFFICES ASSUME NEW x \in Range(queue'), x.kind = "create" PROVE x \in Range(rest)
    BY DEF Pending
  <2>1. CASE queue' = rest
    BY <2>1
  <2>2. ASSUME NEW y \in Writes, Next1(y) PROVE x \in Range(rest)
    <3>1. Range(queue') = Range(rest) \cup {y} /\ y.kind # "create"
      BY <2>2, RangeFacts DEF Onward
    <3>2. QED BY <3>1
  <2>3. QED BY <1>4, <2>1, <2>2
<1>12. QED BY <1>8, <1>9, <1>10, <1>11

----------------------------------------------------------------------------
(* A write that has begun changes the store.                               *)

\* One insert or delete of a write.
LEMMA AfterFacts ==
  ASSUME NEW r \in Runs, NEW s \in After(r)
  PROVE  /\ s \in Runs /\ s.write = r.write /\ s.gives = r.gives /\ s.convs = r.convs
         /\ s.doomed = r.doomed /\ s.recs \subseteq r.recs /\ s.msgs \subseteq r.msgs
<1>1. \/ \E m \in r.msgs : s = [r EXCEPT !.msgs = @ \ {m}]
      \/ \E c \in r.recs : s = [r EXCEPT !.recs = @ \ {c}]
  BY DEF After
<1>2. QED BY <1>1 DEF Runs

LEMMA ChangesFacts ==
  ASSUME StoreInv, NEW r \in running \cup late, NEW s \in After(r), Changes(r, s),
         UNCHANGED <<of, made>>
  PROVE  /\ title' \in [Convs -> Titles] /\ named' \in [Convs -> SUBSET Titles]
         /\ stored' \subseteq Msgs /\ UNCHANGED <<erased, doomed>>
         /\ \A c \in Convs :
              /\ title'[c] = IF c \in r.recs \ s.recs THEN r.gives ELSE title[c]
              /\ named[c] \subseteq named'[c]
              /\ c \in r.recs \ s.recs /\ r.write.kind \in Names => r.gives \in named'[c]
         /\ Known \subseteq Known'
         /\ \A c \in Known' : /\ c \in Known \/ c \in r.recs \ s.recs
                              /\ c \in Known \/ (r.write.kind = "create" /\ c = r.write.conv)
         /\ \A m \in Msgs : /\ m \in stored' => m \in stored \/ (r.write.kind = "put" /\ m = r.write.msg)
                            /\ m \in stored' \ stored => of[m] = r.write.conv
                            /\ r.write.kind \in Deletes /\ m \in r.msgs =>
                                 m \in s.msgs \/ m \notin stored'
<1> DEFINE w == r.write
           recs == r.recs \ s.recs
<1>1. Typed /\ Snapshots
  BY DEF StoreInv
<1>2. r \in Runs /\ Bounded(r) /\ w \in Writes
  BY <1>1 DEF Typed, Snapshots, Runs
<1>3. /\ stored' = IF w.kind = "put" THEN stored \cup (r.msgs \ s.msgs) ELSE stored \ (r.msgs \ s.msgs)
      /\ title' = [c \in Convs |-> IF c \in recs THEN r.gives ELSE title[c]]
      /\ named' = [c \in Convs |-> IF c \in recs /\ w.kind \in Names
                                   THEN named[c] \cup {r.gives} ELSE named[c]]
      /\ UNCHANGED <<erased, doomed>>
  BY DEF Changes
<1>4. r.gives \in Titles /\ r.msgs \subseteq Msgs
  BY <1>2 DEF Runs
<1>5. title' \in [Convs -> Titles] /\ named' \in [Convs -> SUBSET Titles]
  BY <1>1, <1>3, <1>4 DEF Typed
<1>6. stored' \subseteq Msgs
  BY <1>1, <1>3, <1>4 DEF Typed
<1>7. \A c \in Convs : /\ title'[c] = IF c \in recs THEN r.gives ELSE title[c]
                       /\ named'[c] = IF c \in recs /\ w.kind \in Names
                                      THEN named[c] \cup {r.gives} ELSE named[c]
  BY <1>3
<1>8. Known \subseteq Known'
  BY <1>7 DEF Known
<1>9. \A c \in Known' : c \in Known \/ (c \in recs /\ w.kind \in Names)
  BY <1>7 DEF Known
<1>10. \A c \in recs : c \in Known \/ (w.kind = "create" /\ c = w.conv)
  BY <1>2 DEF Bounded
<1>11. \A m \in Msgs : /\ m \in stored' => m \in stored \/ (w.kind = "put" /\ m = w.msg)
                       /\ m \in stored' \ stored => of[m] = w.conv
  BY <1>2, <1>3 DEF Bounded
<1>12. \A m \in r.msgs : w.kind \in Deletes => m \in s.msgs \/ m \notin stored'
  BY <1>3 DEF Deletes
<1> HIDE DEF recs
<1>13. QED BY <1>3, <1>5, <1>6, <1>7, <1>8, <1>9, <1>10, <1>11, <1>12 DEF recs

\* The write in progress, or an abandoned one, goes on.
LEMMA WorkStep ==
  ASSUME StoreInv, NEW r \in running \cup late, NEW s \in After(r), Changes(r, s),
         UNCHANGED <<current, stage, batch, buffer, flushing, of, queue, disturbed, made>>,
         \/ r \in running /\ running' = {s} /\ late' = late
         \/ r \in late /\ late' = (late \ {r}) \cup {s} /\ running' = running
  PROVE  StoreInv'
<1> DEFINE w == r.write
<1>1. Typed /\ InOrder /\ Messages /\ NamedOnce /\ Snapshots /\ Abandoned
      /\ TitleIsLast /\ GoneIsGone
  BY DEF StoreInv
<1>2. r \in Runs /\ Bounded(r) /\ w \in Writes /\ running \subseteq Runs /\ late \subseteq Runs
  BY <1>1 DEF Typed, Snapshots, Runs
<1>3. /\ s \in Runs /\ s.write = w /\ s.gives = r.gives /\ s.convs = r.convs
      /\ s.doomed = r.doomed /\ s.recs \subseteq r.recs /\ s.msgs \subseteq r.msgs
  BY <1>2, AfterFacts
<1>4. /\ title' \in [Convs -> Titles] /\ named' \in [Convs -> SUBSET Titles]
      /\ stored' \subseteq Msgs /\ UNCHANGED <<erased, doomed>>
      /\ \A c \in Convs :
           /\ title'[c] = IF c \in r.recs \ s.recs THEN r.gives ELSE title[c]
           /\ named[c] \subseteq named'[c]
           /\ c \in r.recs \ s.recs /\ w.kind \in Names => r.gives \in named'[c]
      /\ Known \subseteq Known'
      /\ \A c \in Known' : /\ c \in Known \/ c \in r.recs \ s.recs
                           /\ c \in Known \/ (w.kind = "create" /\ c = w.conv)
      /\ \A m \in Msgs : /\ m \in stored' => m \in stored \/ (w.kind = "put" /\ m = w.msg)
                         /\ m \in stored' \ stored => of[m] = w.conv
                         /\ w.kind \in Deletes /\ m \in r.msgs => m \in s.msgs \/ m \notin stored'
  BY ChangesFacts
<1>5. r \in running => running = {r} /\ w \in Pending /\ Good(w) /\ \A c \in Convs \ disturbed : Faithful(r, c)
  BY <1>1 DEF Snapshots, Pending, InOrder
<1>6. Pending' = Pending /\ Waits' = Waits
  BY <1>3, <1>5 DEF Pending, Waits
<1>7. r \in late => \A c \in Convs \ disturbed : c \notin r.convs /\ c # w.conv
  <2> SUFFICES ASSUME r \in late, NEW c \in Convs \ disturbed PROVE c \notin r.convs /\ c # w.conv
    OBVIOUS
  <2>1. Strayed(w)
    BY <1>1 DEF Abandoned
  <2>2. QED BY <1>2, <2>1 DEF Strayed, Bounded
<1>8. Typed'
  BY <1>1, <1>2, <1>3, <1>4 DEF Typed
<1>9. InOrder'
  <2>1. \A v \in Pending : Good(v)'
    BY <1>1, <1>4, <1>6 DEF InOrder, Good
  <2>2. \A v \in Range(queue) : Unmade(v)'
    <3> SUFFICES ASSUME NEW v \in Range(queue), v.kind = "create", v.conv \in Known' PROVE FALSE
      BY DEF Unmade
    <3>1. v \in Pending /\ v.conv \notin Known
      BY <1>1 DEF InOrder, Unmade, Pending
    <3>2. w.kind = "create" /\ v.conv = w.conv
      BY <1>4, <3>1
    <3>3. CASE r \in running
      BY <1>1, <3>2, <3>3 DEF InOrder, Follows
    <3>4. CASE r \in late
      BY <1>1, <3>1, <3>2, <3>4 DEF Abandoned, Strayed
    <3>5. QED BY <3>3, <3>4
  <2>3. \A x \in running' : \A v \in Range(queue) : Follows(x.write, v)
    BY <1>1, <1>3 DEF InOrder
  <2>4. QED BY <1>1, <1>6, <2>1, <2>2, <2>3 DEF InOrder, Ordered
<1>10. Messages'
  <2>1. \A m \in stored' : of[m] # 0
    BY <1>1, <1>2, <1>4 DEF Messages, Bounded
  <2>2. QED BY <1>1, <1>4, <1>6, <2>1 DEF Messages
<1>11. NamedOnce'
  <2>1. \A c \in Convs : title'[c] # "none" => c \in Known'
    <3> SUFFICES ASSUME NEW c \in Convs, title'[c] # "none" PROVE c \in Known'
      OBVIOUS
    <3>1. CASE c \in r.recs \ s.recs
      <4>1. w.kind # "create" => c \in Known
        BY <1>2, <3>1 DEF Bounded
      <4>2. w.kind = "create" => c \in Known'
        BY <1>4, <3>1 DEF Known, Names
      <4>3. QED BY <1>4, <4>1, <4>2
    <3>2. CASE c \notin r.recs \ s.recs
      BY <1>1, <1>4, <3>2 DEF NamedOnce
    <3>3. QED BY <3>1, <3>2
  <2>2. \A c \in Known' : c <= made
    BY <1>1, <1>2, <1>4 DEF NamedOnce, Bounded, Known
  <2>3. QED BY <1>1, <1>4, <2>1, <2>2 DEF NamedOnce
<1>12. Snapshots'
  <2>1. \A x \in running \cup late : Bounded(x)'
    <3>1. made \in Nat /\ made <= made'
      BY <1>1 DEF Typed
    <3>2. QED BY <1>1, <1>2, <1>4, <3>1, BoundedKept DEF Snapshots
  <2>2. Bounded(s)'
    <3>1. Bounded(r)'
      BY <2>1
    <3>2. QED BY <1>3, <3>1 DEF Bounded
  <2>3. ASSUME NEW x \in running', NEW c \in Convs \ disturbed PROVE Faithful(x, c)'
    <3>1. CASE r \in running /\ running' = {s}
      <4>1. x = s /\ Faithful(r, c)
        BY <1>5, <2>3, <3>1
      <4>2. CASE c \in r.recs \ s.recs
        <5>1. title'[c] = r.gives /\ c \in r.convs
          BY <1>2, <1>4, <4>2 DEF Bounded
        <5>2. w.kind \in Deletes => r.gives = "none"
          BY <1>2 DEF Bounded
        <5>3. \A m \in r.doomed : of[m] = c => m \in s.msgs \/ m \notin stored'
          BY <1>2, <1>4, <4>1 DEF Faithful, Bounded, Runs, Deletes
        <5>4. QED BY <1>3, <4>1, <4>2, <5>1, <5>2, <5>3 DEF Faithful
      <4>3. CASE c \notin r.recs \ s.recs
        <5>1. title'[c] = title[c] /\ (c \in Known' => c \in Known)
          BY <1>4, <4>3
        <5>2. \A m \in r.doomed : of[m] = c => m \in s.msgs \/ m \notin stored'
          BY <1>2, <1>4, <4>1 DEF Faithful, Bounded, Runs, Deletes
        <5>3. QED BY <1>3, <4>1, <4>3, <5>1, <5>2 DEF Faithful
      <4>4. QED BY <4>2, <4>3
    <3>2. CASE r \in late /\ running' = running
      <4>1. Faithful(x, c) /\ x \in Runs /\ Bounded(x)
        BY <1>1, <1>2, <2>3, <3>2 DEF Snapshots
      <4>2. c \notin r.recs \ s.recs /\ c # w.conv
        BY <1>2, <1>7, <3>2 DEF Bounded
      <4>3. title'[c] = title[c] /\ (c \in Known' => c \in Known)
        BY <1>4, <4>2
      <4>4. \A m \in x.doomed : of[m] = c /\ m \in stored' => m \in stored
        BY <1>4, <4>1, <4>2 DEF Runs
      <4>5. QED BY <4>1, <4>3, <4>4 DEF Faithful
    <3>3. QED BY <3>1, <3>2
  <2>4. \A x, y \in running' : x = y
    BY <1>1 DEF Snapshots
  <2>5. \A x \in running' \cup late' : Bounded(x)'
    BY <2>1, <2>2
  <2>6. QED BY <2>3, <2>4, <2>5 DEF Snapshots
<1>13. Abandoned'
  <2> SUFFICES ASSUME NEW x \in late' PROVE Strayed(x.write)'
    BY DEF Abandoned
  <2>1. \E y \in late : y.write = x.write
    BY <1>3
  <2>2. Strayed(x.write)
    BY <1>1, <2>1 DEF Abandoned
  <2>3. QED BY <1>6, <2>2 DEF Strayed
<1>14. TitleIsLast'
  <2> SUFFICES ASSUME NEW c \in Convs \ disturbed PROVE title'[c] \in {"none"} \cup named'[c]
    BY DEF TitleIsLast
  <2>1. title[c] \in {"none"} \cup named[c]
    BY <1>1 DEF TitleIsLast
  <2>2. CASE c \in r.recs \ s.recs
    <3>1. r \in running /\ Faithful(r, c) /\ title'[c] = r.gives
      BY <1>2, <1>4, <1>5, <1>7, <2>2 DEF Bounded
    <3>2. CASE w.kind = "put"
      BY <1>4, <2>1, <2>2, <3>1, <3>2 DEF Faithful
    <3>3. CASE w.kind \in Deletes
      BY <1>2, <3>1, <3>3 DEF Bounded
    <3>4. CASE w.kind \in Names
      BY <1>4, <2>2, <3>1, <3>4
    <3>5. QED BY <1>2, <3>2, <3>3, <3>4, KindFacts DEF Kinds
  <2>3. CASE c \notin r.recs \ s.recs
    BY <1>4, <2>1, <2>3
  <2>4. QED BY <2>2, <2>3
<1>15. GoneIsGone'
  <2> SUFFICES ASSUME NEW c \in erased \ disturbed
               PROVE  title'[c] = "none" /\ \A m \in doomed : of[m] = c => m \notin stored'
    BY <1>4 DEF GoneIsGone
  <2>1. c \in Convs /\ c \in Known /\ title[c] = "none" /\ \A m \in doomed : of[m] = c => m \notin stored
    BY <1>1 DEF Typed, NamedOnce, GoneIsGone
  <2>2. title'[c] = "none"
    <3>1. CASE c \in r.recs \ s.recs
      <4>1. r \in running /\ Faithful(r, c) /\ title'[c] = r.gives
        BY <1>2, <1>4, <1>5, <1>7, <2>1, <3>1 DEF Bounded
      <4>2. w.kind \in Deletes
        BY <2>1, <3>1, <4>1 DEF Faithful
      <4>3. QED BY <1>2, <4>1, <4>2 DEF Bounded
    <3>2. CASE c \notin r.recs \ s.recs
      BY <1>4, <2>1, <3>2
    <3>3. QED BY <3>1, <3>2
  <2>3. ASSUME NEW m \in doomed, of[m] = c PROVE m \notin stored'
    <3>1. m \in Msgs /\ m \notin stored
      BY <1>1, <2>1, <2>3 DEF Typed
    <3>2. SUFFICES ASSUME m \in stored' PROVE FALSE
      OBVIOUS
    <3>3. w.kind = "put" /\ m = w.msg /\ c = w.conv
      BY <1>4, <2>3, <3>1, <3>2
    <3>4. r \in running
      BY <1>7, <2>1, <3>3
    <3>5. QED BY <1>5, <2>3, <3>3, <3>4 DEF Good
  <2>4. QED BY <2>2, <2>3
<1>16. QED BY <1>8, <1>9, <1>10, <1>11, <1>12, <1>13, <1>14, <1>15 DEF StoreInv

----------------------------------------------------------------------------
(* The actions of the queue.                                               *)

LEMMA AnswerTyped ==
  ASSUME StoreInv, NEW w \in Pending, NEW ok \in BOOLEAN, NEW rest \in Seq(Writes),
         Settle(w, ok, rest), made' = made, running' \subseteq Runs, late' \subseteq Runs,
         title' \in [Convs -> Titles], named' \in [Convs -> SUBSET Titles],
         stored' \subseteq Msgs, doomed' \subseteq Msgs, erased' \subseteq Convs
  PROVE  Typed'
<1>1. Typed /\ InOrder
  BY DEF StoreInv
<1>2. w \in Writes /\ (w.kind = "create" => w.msg \in Msgs)
  <2>1. Good(w) /\ Pending \subseteq Writes
    BY <1>1, RangeFacts DEF InOrder, Typed, Pending, Runs
  <2>2. QED BY <2>1 DEF Good
<1>3. /\ UNCHANGED <<of, buffer>> /\ current' \in Nat /\ flushing' \in Seq(Msgs)
      /\ batch' \in [ids : SUBSET Convs, rest : Seq(Convs), hit : BOOLEAN]
      /\ stage' \in [Msgs -> Stages]
      /\ queue' = rest \/ \E x \in Writes : queue' = Append(rest, x)
  BY <1>2, SettleShape
<1>4. queue' \in Seq(Writes)
  <2>1. \A x \in Writes : Append(rest, x) \in Seq(Writes)
    BY RangeFacts
  <2>2. QED BY <1>3, <2>1
<1>5. QED BY <1>1, <1>3, <1>4 DEF Typed

LEMMA SucceedsStep ==
  ASSUME StoreInv, NEW r \in running, Succeeds(r)
  PROVE  StoreInv'
<1> DEFINE w == r.write
           gone == IF w.kind \in Deletes THEN r.convs ELSE {}
<1>1. Typed /\ InOrder /\ Messages /\ NamedOnce /\ Snapshots /\ Abandoned
      /\ TitleIsLast /\ GoneIsGone
  BY DEF StoreInv
<1>2. /\ running' = {} /\ r.msgs = {} /\ r.recs = {} /\ Settle(w, TRUE, queue)
      /\ UNCHANGED <<late, title, stored, disturbed, made>>
      /\ named' = [c \in Convs |-> IF c \in r.convs /\ w.kind \in Names THEN {r.gives} ELSE named[c]]
      /\ erased' = erased \cup gone /\ doomed' = doomed \cup r.doomed
  <2>1. running = {r}
    BY <1>1 DEF Snapshots
  <2>2. QED BY <2>1 DEF Succeeds
<1>3. /\ w \in Pending /\ w \in Writes /\ Good(w) /\ r \in Runs /\ Bounded(r)
      /\ \A c \in Convs \ disturbed : Faithful(r, c)
  BY <1>1 DEF InOrder, Typed, Pending, Runs, Snapshots
<1>4. UNCHANGED of
  BY <1>1, <1>2, <1>3, SettleShape DEF Typed, Good
<1>5. /\ named' \in [Convs -> SUBSET Titles] /\ doomed' \subseteq Msgs
      /\ gone \subseteq Known /\ erased' \subseteq Convs
      /\ \A m \in r.doomed : m \in w.before /\ of[m] \in gone
  <2>1. r.gives \in Titles /\ r.doomed \subseteq Msgs
    BY <1>3 DEF Runs
  <2>2. named' \in [Convs -> SUBSET Titles]
    BY <1>1, <1>2, <2>1 DEF Typed
  <2>3. gone \subseteq Known
    BY <1>3 DEF Bounded, Deletes
  <2>4. \A m \in r.doomed : m \in w.before /\ of[m] \in gone
    BY <1>3 DEF Bounded
  <2>5. QED BY <1>1, <1>2, <2>1, <2>2, <2>3, <2>4 DEF Typed, Known
<1>6. Known \subseteq Known' /\ \A c \in Known' : c \in Known \/ (w.kind = "create" /\ c = w.conv)
  <2>1. \A c \in Convs : named'[c] = IF c \in r.convs /\ w.kind \in Names THEN {r.gives} ELSE named[c]
    BY <1>2
  <2>2. \A c \in r.convs : c \in Known \/ (w.kind = "create" /\ c = w.conv)
    BY <1>3 DEF Bounded
  <2>3. QED BY <2>1, <2>2 DEF Known
<1>7. Typed'
  BY <1>1, <1>2, <1>3, <1>5, AnswerTyped DEF Typed
<1>8. /\ InOrder' /\ Messages'
      /\ \A d \in Range(batch'.rest) : d \in Known'
      /\ \A x \in Pending' : x.kind = "create" => x \in Range(queue)
  <2>1. /\ queue \in Seq(Writes) /\ Ordered(queue)
        /\ \A v \in Range(queue) : Follows(w, v) /\ Good(v) /\ Unmade(v)
    BY <1>1, <1>3 DEF Typed, InOrder, Pending
  <2>2. \A v \in Range(queue) :
          /\ Unmade(v)'
          /\ v.kind = "put" /\ v.conv \notin disturbed' => v.msg \notin doomed'
    <3> TAKE v \in Range(queue)
    <3>1. Unmade(v)'
      BY <1>6, <2>1 DEF Unmade, Follows
    <3>2. v.kind = "put" /\ v.conv \notin disturbed' => v.msg \notin doomed'
      BY <1>2, <1>5, <2>1 DEF Good, Follows
    <3>3. QED BY <3>1, <3>2
  <2>3. \A m \in doomed' : of[m] \in erased' /\ of[m] # 0 /\ (of[m] \notin disturbed' => m \notin Waits)
    BY <1>1, <1>2, <1>3, <1>5 DEF Messages, Good
  <2>4. \A m \in stored' : of[m] # 0
    BY <1>1, <1>2 DEF Messages
  <2>5. QED BY <1>2, <1>3, <1>6, <1>7, <2>1, <2>2, <2>3, <2>4, EndStep
<1>9. NamedOnce'
  <2>1. \A c \in Convs : /\ title'[c] # "none" \/ c \in erased' => c \in Known'
                         /\ c \in Known' => c <= made'
    BY <1>1, <1>2, <1>3, <1>5, <1>6 DEF NamedOnce, Good
  <2>2. QED BY <1>8, <2>1 DEF NamedOnce
<1>10. Snapshots'
  <2>1. made \in Nat /\ made <= made' /\ made' \in Nat
    BY <1>1, <1>2 DEF Typed
  <2>2. \A s \in late : Bounded(s)'
    BY <1>1, <1>4, <1>6, <2>1, BoundedKept DEF Snapshots, Typed
  <2>3. QED BY <1>2, <2>2 DEF Snapshots
<1>11. Abandoned'
  <2> SUFFICES ASSUME NEW s \in late PROVE Strayed(s.write)'
    BY <1>2 DEF Abandoned
  <2>1. Strayed(s.write)
    BY <1>1 DEF Abandoned
  <2>2. \A x \in Range(queue) : x \in Pending
    BY DEF Pending
  <2>3. QED BY <1>2, <1>8, <2>1, <2>2 DEF Strayed
<1>12. TitleIsLast'
  <2> SUFFICES ASSUME NEW d \in Convs \ disturbed PROVE title[d] \in {"none"} \cup named'[d]
    BY <1>2 DEF TitleIsLast
  <2>1. title[d] \in {"none"} \cup named[d] /\ Faithful(r, d)
    BY <1>1, <1>3 DEF TitleIsLast
  <2>2. named'[d] = IF d \in r.convs /\ w.kind \in Names THEN {r.gives} ELSE named[d]
    BY <1>2
  <2>3. d \in r.convs /\ w.kind \in Names => title[d] = r.gives
    BY <1>2, <2>1 DEF Faithful
  <2>4. QED BY <2>1, <2>2, <2>3
<1>13. GoneIsGone'
  <2> SUFFICES ASSUME NEW d \in erased' \ disturbed
               PROVE  title[d] = "none" /\ \A m \in doomed' : of[m] = d => m \notin stored
    BY <1>2, <1>4 DEF GoneIsGone
  <2>1. d \in Convs /\ Faithful(r, d)
    BY <1>3, <1>5
  <2>2. title[d] = "none"
    <3>1. CASE d \in gone
      BY <1>2, <2>1, <3>1 DEF Faithful
    <3>2. CASE d \notin gone
      BY <1>1, <1>2, <3>2 DEF GoneIsGone
    <3>3. QED BY <3>1, <3>2
  <2>3. ASSUME NEW m \in doomed', of[m] = d PROVE m \notin stored
    <3>1. CASE m \in doomed
      BY <1>1, <2>3, <3>1 DEF Messages, GoneIsGone
    <3>2. CASE m \in r.doomed
      BY <1>2, <2>1, <2>3, <3>2 DEF Faithful
    <3>3. QED BY <1>2, <3>1, <3>2
  <2>4. QED BY <2>2, <2>3
<1>14. QED BY <1>7, <1>8, <1>9, <1>10, <1>11, <1>12, <1>13 DEF StoreInv

LEMMA RejectStep ==
  ASSUME StoreInv, NEW w \in Pending, NEW rest \in Seq(Writes), Reject(w, rest),
         UNCHANGED disk, running' = {}, made' = made, disturbed \subseteq disturbed',
         Ordered(rest), Range(rest) \subseteq Range(queue), \A v \in Range(rest) : Follows(w, v),
         \A s \in late' :
           \/ s \in late
           \/ /\ s \in running /\ s.write = w
              /\ IF w.kind = "clear" THEN Convs \subseteq disturbed' ELSE w.conv \in disturbed'
  PROVE  StoreInv'
<1>1. Typed /\ InOrder /\ Messages /\ NamedOnce /\ Snapshots /\ Abandoned
      /\ TitleIsLast /\ GoneIsGone
  BY DEF StoreInv
<1>2. /\ Settle(w, FALSE, rest)
      /\ UNCHANGED <<title, stored, named, erased, doomed>> /\ Known' = Known
  BY DEF Reject, disk, Known
<1>3. /\ Pending \subseteq Writes /\ \A v \in Pending : Good(v)
      /\ Range(rest) \subseteq Pending
  BY <1>1, RangeFacts DEF InOrder, Typed, Pending, Runs
<1>4. Typed'
  <2>1. running' \subseteq Runs /\ late' \subseteq Runs
    BY <1>1 DEF Typed
  <2>2. QED BY <1>1, <1>2, <2>1, AnswerTyped DEF Typed
<1>5. /\ InOrder' /\ Messages'
      /\ \A d \in Range(batch'.rest) : d \in Known'
      /\ \A x \in Pending' : x.kind = "create" => x \in Range(rest)
  <2>1. \A v \in Range(rest) :
          /\ Unmade(v)'
          /\ v.kind = "put" /\ v.conv \notin disturbed' => v.msg \notin doomed'
    BY <1>1, <1>2, <1>3 DEF Good, InOrder, Unmade
  <2>2. \A m \in doomed' : of[m] \in erased' /\ of[m] # 0 /\ (of[m] \notin disturbed' => m \notin Waits)
    BY <1>1, <1>2 DEF Messages
  <2>3. \A m \in stored' : of[m] # 0
    BY <1>1, <1>2 DEF Messages
  <2>4. Known \subseteq Known'
    BY <1>2
  <2>5. QED BY <1>2, <1>4, <2>1, <2>2, <2>3, <2>4, EndStep
<1>6. UNCHANGED of
  BY <1>1, <1>2, <1>3, SettleShape DEF Good
<1>7. NamedOnce'
  BY <1>1, <1>2, <1>5 DEF NamedOnce
<1>8. Snapshots'
  <2>1. made \in Nat /\ made <= made' /\ made' \in Nat
    BY <1>1 DEF Typed
  <2>2. \A s \in running \cup late : Bounded(s)'
    BY <1>1, <1>2, <1>6, <2>1, BoundedKept DEF Snapshots, Typed
  <2>3. QED BY <2>2 DEF Snapshots
<1>9. Abandoned'
  <2> SUFFICES ASSUME NEW s \in late' PROVE Strayed(s.write)'
    BY DEF Abandoned
  <2>1. CASE s \in late
    <3>1. Strayed(s.write)
      BY <1>1, <2>1 DEF Abandoned
    <3>2. QED BY <1>3, <1>5, <3>1 DEF Strayed
  <2>2. CASE s \notin late
    <3>1. s.write = w /\ IF w.kind = "clear" THEN Convs \subseteq disturbed' ELSE w.conv \in disturbed'
      BY <2>2
    <3>2. w.kind = "create" => \A x \in Pending' : x.kind = "create" => x.conv # w.conv
      BY <1>5 DEF Follows
    <3>3. QED BY <3>1, <3>2 DEF Strayed
  <2>3. QED BY <2>1, <2>2
<1>10. TitleIsLast' /\ GoneIsGone'
  BY <1>1, <1>2, <1>6 DEF TitleIsLast, GoneIsGone
<1>11. QED BY <1>4, <1>5, <1>7, <1>8, <1>9, <1>10 DEF StoreInv

LEMMA LateEndsStep ==
  ASSUME StoreInv, NEW r \in late, LateEnds(r)
  PROVE  StoreInv'
<1>1. /\ late' \subseteq late
      /\ UNCHANGED <<current, stage, batch, buffer, flushing, of, queue, running, disturbed, made,
                     title, stored, named, erased, doomed>>
  BY DEF LateEnds, agent, pending, disk
<1>2. Typed' /\ InOrder' /\ Messages' /\ NamedOnce' /\ Snapshots'
  BY <1>1 DEF StoreInv, Typed, InOrder, Good, Unmade, Ordered, Messages, NamedOnce, Snapshots,
              Bounded, Faithful, Known, Pending, Waits
<1>3. Abandoned' /\ TitleIsLast' /\ GoneIsGone'
  BY <1>1 DEF StoreInv, Abandoned, Strayed, Pending, TitleIsLast, GoneIsGone
<1>4. QED BY <1>2, <1>3 DEF StoreInv

\* A write begins, or hangs.
LEMMA RunningStep ==
  ASSUME StoreInv, UNCHANGED <<agent, pending, late, disk, disturbed, made>>,
         queue' \in Seq(Writes), Ordered(queue'), Range(queue') \subseteq Range(queue),
         \A r, s \in running' : r = s,
         \A r \in running' :
           /\ r \in Runs /\ r.write \in Pending /\ \A w \in Range(queue') : Follows(r.write, w)
           /\ Bounded(r) /\ \A c \in Convs \ disturbed : Faithful(r, c)
  PROVE  StoreInv'
<1>1. Typed /\ InOrder /\ Messages /\ NamedOnce /\ Snapshots /\ Abandoned
      /\ TitleIsLast /\ GoneIsGone
  BY DEF StoreInv
<1>2. UNCHANGED <<current, stage, batch, buffer, flushing, of, late, title, stored, named,
                  erased, doomed, disturbed, made>>
  BY DEF agent, pending, disk
<1>3. Waits' = Waits /\ Pending' \subseteq Pending /\ Known' = Known
  BY <1>2 DEF Waits, Pending, Known
<1>4. Typed'
  BY <1>1, <1>2 DEF Typed
<1>5. InOrder'
  <2>1. \A w \in Pending' : Good(w)'
    BY <1>1, <1>2, <1>3 DEF InOrder, Good
  <2>2. \A w \in Range(queue') : Unmade(w)'
    BY <1>1, <1>3 DEF InOrder, Unmade
  <2>3. QED BY <2>1, <2>2 DEF InOrder, Ordered
<1>6. Messages' /\ NamedOnce' /\ TitleIsLast' /\ GoneIsGone'
  BY <1>1, <1>2, <1>3 DEF Messages, NamedOnce, TitleIsLast, GoneIsGone
<1>7. Snapshots'
  <2>1. \A r \in running' \cup late' : Bounded(r)'
    BY <1>1, <1>2, <1>3 DEF Snapshots, Bounded
  <2>2. \A r \in running' : \A c \in Convs \ disturbed : Faithful(r, c)'
    BY <1>2, <1>3 DEF Faithful
  <2>3. QED BY <1>2, <2>1, <2>2 DEF Snapshots
<1>8. Abandoned'
  BY <1>1, <1>2, <1>3 DEF Abandoned, Strayed
<1>9. QED BY <1>4, <1>5, <1>6, <1>7, <1>8 DEF StoreInv

LEMMA FoundFacts ==
  ASSUME NEW S, NEW T \in Found(S)
  PROVE  T \subseteq S /\ (Cardinality(S) <= DeleteMax => T = S)
BY DEF Found

\* What a write has read when it begins.
LEMMA RunFacts ==
  ASSUME StoreInv, NEW w \in Range(queue), NEW convs \in Records(w), NEW msgs \in Entries(w, convs)
  PROVE  /\ Run(w, convs, msgs) \in Runs /\ Run(w, convs, msgs).write = w
         /\ Bounded(Run(w, convs, msgs))
         /\ \A c \in Convs \ disturbed : Faithful(Run(w, convs, msgs), c)
<1>1. Typed /\ InOrder /\ NamedOnce
  BY DEF StoreInv
<1>2. w \in Writes /\ Good(w) /\ Unmade(w)
  BY <1>1, RangeFacts DEF Typed, InOrder, Pending
<1>3. w.kind \in Kinds /\ w.conv \in Nat /\ w.before \subseteq Msgs
      /\ (w.kind \in Deletes <=> w.kind \in {"delete", "clear"})
  BY <1>2, KindFacts
<1>4. Present \subseteq Known /\ Known \subseteq Convs /\ Convs \subseteq Nat
  BY <1>1 DEF NamedOnce, Present, Known, Convs
<1>5. /\ w.kind \in {"create", "delete"} => convs = {w.conv}
      /\ w.kind = "clear" => convs \subseteq Present
      /\ w.kind \in {"put", "rename", "name"} => convs = {w.conv} \cap Present
  <2>1. w.kind = "clear" => convs \in Found(Present)
    BY DEF Records
  <2>2. QED BY <2>1, FoundFacts DEF Records
<1>6. /\ w.kind = "put" => msgs = {w.msg}
      /\ w.kind \in Deletes => /\ msgs \subseteq stored /\ \A m \in msgs : of[m] \in convs
                               /\ \A c \in convs : EntriesOf(c, msgs) \in Found(EntriesOf(c, stored))
      /\ w.kind \notin Deletes \cup {"put"} => msgs = {}
  BY <1>3 DEF Entries
<1> DEFINE doom == {m \in w.before : /\ of[m] \in convs
                                     /\ Cardinality(EntriesOf(of[m], stored)) <= DeleteMax}
           r == Run(w, convs, msgs)
<1>7. /\ Gives(w) \in Titles /\ (w.kind = "put" /\ w.conv \in Present => Gives(w) = title[w.conv])
      /\ w.kind \in Deletes => Gives(w) = "none"
  BY <1>1, <1>3 DEF Gives, Titles, Typed, Present, Kinds
<1>8. r = [write |-> w, gives |-> Gives(w), convs |-> convs, recs |-> convs, msgs |-> msgs,
           doomed |-> doom, hung |-> FALSE]
  BY DEF Run
<1>9. doom \subseteq w.before /\ \A m \in doom : /\ of[m] \in convs
                                                 /\ Cardinality(EntriesOf(of[m], stored)) <= DeleteMax
  OBVIOUS
<1> HIDE DEF doom, r
<1>10. /\ r.write = w /\ r.gives = Gives(w) /\ r.convs = convs /\ r.recs = convs /\ r.msgs = msgs
       /\ r.doomed = doom /\ r.hung = FALSE
  BY <1>8
<1>11. r \in Runs
  <2>1. convs \subseteq Nat
    BY <1>3, <1>4, <1>5 DEF Kinds
  <2>2. msgs \subseteq Msgs
    BY <1>1, <1>2, <1>6 DEF Good, Typed
  <2>3. doom \subseteq Msgs
    BY <1>3, <1>9
  <2>4. QED BY <1>2, <1>7, <1>8, <2>1, <2>2, <2>3 DEF Runs
<1>12. Bounded(r)
  <2>1. w.kind \notin Deletes => doom = {}
    BY <1>2, <1>9 DEF Good
  <2>2. IF w.kind = "clear" THEN convs \subseteq Convs ELSE convs \subseteq {w.conv}
    BY <1>3, <1>4, <1>5 DEF Kinds
  <2>3. IF w.kind = "create" THEN w.conv <= made ELSE convs \subseteq Known
    BY <1>2, <1>3, <1>4, <1>5 DEF Good, Kinds
  <2>4. w.kind = "put" => w.msg \in Msgs /\ of[w.msg] = w.conv /\ w.conv # 0
    BY <1>2 DEF Good
  <2>5. QED BY <1>6, <1>7, <1>9, <1>10, <2>1, <2>2, <2>3, <2>4 DEF Bounded
<1>13. ASSUME NEW c \in Convs \ disturbed PROVE Faithful(r, c)
  <2>1. ASSUME NEW m \in doom, of[m] = c PROVE m \in msgs \/ m \notin stored
    <3>1. w.kind \in Deletes /\ c \in convs /\ Cardinality(EntriesOf(c, stored)) <= DeleteMax
      BY <1>2, <1>9, <2>1 DEF Good
    <3>2. EntriesOf(c, msgs) = EntriesOf(c, stored)
      BY <1>6, <3>1, FoundFacts
    <3>3. QED BY <2>1, <3>2 DEF EntriesOf
  <2>2. c \in convs => /\ w.kind = "put"    => Gives(w) = title[c]
                       /\ w.kind = "create" => c \notin Known
                       /\ w.kind \notin Deletes \cup {"create"} => title[c] # "none"
    BY <1>2, <1>3, <1>5, <1>7 DEF Unmade, Present, Kinds
  <2>3. QED BY <1>10, <2>1, <2>2 DEF Faithful
<1>14. QED BY <1>10, <1>11, <1>12, <1>13 DEF r

LEMMA BeginStep ==
  ASSUME StoreInv, Begin
  PROVE  StoreInv'
<1>1. Typed /\ InOrder
  BY DEF StoreInv
<1>2. queue # <<>> /\ running = {} /\ UNCHANGED <<late, disk, disturbed, made>>
  BY DEF Begin
<1>3. /\ queue \in Seq(Writes) /\ Ordered(queue)
      /\ Head(queue) \in Range(queue) /\ Range(Tail(queue)) \subseteq Range(queue)
      /\ Tail(queue) \in Seq(Writes)
  BY <1>1, <1>2, RangeFacts DEF Typed, InOrder
<1>4. Ordered(Tail(queue)) /\ \A w \in Range(Tail(queue)) : Follows(Head(queue), w)
  BY <1>2, <1>3, OrderedFacts
<1>5. Head(queue) \in Pending
  BY <1>3 DEF Pending
<1>6. CASE db
  <2>1. PICK convs \in Records(Head(queue)) : \E msgs \in Entries(Head(queue), convs) :
          running' = {Run(Head(queue), convs, msgs)}
    BY <1>6 DEF Begin
  <2>2. PICK msgs \in Entries(Head(queue), convs) : running' = {Run(Head(queue), convs, msgs)}
    BY <2>1
  <2> DEFINE r == Run(Head(queue), convs, msgs)
  <2>3. queue' = Tail(queue) /\ UNCHANGED <<agent, pending>>
    BY <1>6 DEF Begin
  <2>4. r \in Runs /\ r.write = Head(queue) /\ Bounded(r) /\ \A c \in Convs \ disturbed : Faithful(r, c)
    BY <1>3, RunFacts
  <2>5. running' = {r}
    BY <2>2
  <2> HIDE DEF r
  <2>6. QED BY <1>2, <1>3, <1>4, <1>5, <2>3, <2>4, <2>5, RunningStep
<1>7. CASE ~db
  <2>1. Reject(Head(queue), Tail(queue)) /\ running' = {}
    BY <1>2, <1>7 DEF Begin
  <2>2. QED BY <1>2, <1>3, <1>4, <1>5, <2>1, RejectStep
<1>8. QED BY <1>6, <1>7

LEMMA RunEndsStep ==
  ASSUME StoreInv, NEW r \in running, Works(r) \/ Fails(r) \/ Hangs(r) \/ TimesOut(r)
  PROVE  StoreInv'
<1>1. Typed /\ InOrder /\ Snapshots /\ running = {r}
  BY DEF StoreInv, Snapshots
<1>2. /\ queue \in Seq(Writes) /\ Ordered(queue)
      /\ \A v \in Range(queue) : Follows(r.write, v)
      /\ r.write \in Pending /\ r \in Runs
  BY <1>1 DEF Typed, InOrder, Pending
<1>3. CASE Fails(r)
  <2>1. /\ Reject(r.write, queue) /\ running' = {} /\ UNCHANGED <<late, disk, disturbed, made>>
    BY <1>1, <1>3 DEF Fails
  <2>2. QED BY <1>2, <2>1, RejectStep
<1>4. CASE TimesOut(r)
  <2>1. /\ Reject(r.write, queue) /\ running' = {} /\ UNCHANGED <<disk, made>>
        /\ late' = late \cup {r}
        /\ disturbed' = disturbed \cup (IF r.write.kind = "clear" THEN Convs ELSE {r.write.conv})
    BY <1>1, <1>4 DEF TimesOut
  <2>2. IF r.write.kind = "clear" THEN Convs \subseteq disturbed' ELSE r.write.conv \in disturbed'
    BY <2>1
  <2>3. QED BY <1>2, <2>1, <2>2, RejectStep
<1>5. CASE Hangs(r)
  <2> DEFINE h == [r EXCEPT !.hung = TRUE]
  <2>1. /\ running' = {h}
        /\ UNCHANGED <<agent, pending, queue, late, disk, disturbed, made>>
    BY <1>1, <1>5 DEF Hangs
  <2>2. h \in Runs /\ h.write = r.write /\ h.gives = r.gives /\ h.convs = r.convs
        /\ h.recs = r.recs /\ h.msgs = r.msgs /\ h.doomed = r.doomed
    BY <1>2 DEF Runs
  <2> HIDE DEF h
  <2>3. Bounded(h) /\ \A c \in Convs \ disturbed : Faithful(h, c)
    BY <1>1, <2>2 DEF Snapshots, Bounded, Faithful
  <2>4. QED BY <1>2, <2>1, <2>2, <2>3, RunningStep
<1>6. CASE Works(r)
  <2>1. PICK s \in After(r) : running' = {s} /\ Changes(r, s)
    BY <1>1, <1>6 DEF Works
  <2>2. UNCHANGED <<current, stage, batch, buffer, flushing, of, queue, late, disturbed, made>>
    BY <1>6 DEF Works, agent, pending
  <2>3. QED BY <2>1, <2>2, WorkStep
<1>7. QED BY <1>3, <1>4, <1>5, <1>6

LEMMA LateStep ==
  ASSUME StoreInv, NEW r \in late, LateWorks(r) \/ LateEnds(r)
  PROVE  StoreInv'
<1>1. CASE LateWorks(r)
  <2>1. PICK s \in After(r) : late' = (late \ {r}) \cup {s} /\ Changes(r, s)
    BY <1>1 DEF LateWorks
  <2>2. UNCHANGED <<current, stage, batch, buffer, flushing, of, queue, running, disturbed, made>>
    BY <1>1 DEF LateWorks, agent, pending
  <2>3. QED BY <2>1, <2>2, WorkStep
<1>2. QED BY <1>1, LateEndsStep

----------------------------------------------------------------------------
(* The actions of the handlers.                                            *)

\* storeUserMessage and the entries of the daemon.
LEMMA PersistStep ==
  ASSUME StoreInv, NEW m \in Msgs, NEW c \in Nat, NEW v \in {"sent", "entry"},
         stage[m] \notin {"sent", "entry", "creating"}, stage' = [stage EXCEPT ![m] = v],
         Persist(m, c),
         UNCHANGED <<current, batch, flushing, running, late, disk, disturbed, made>>
  PROVE  StoreInv'
<1>1. Typed /\ Messages /\ NamedOnce
  BY DEF StoreInv
<1>2. UNCHANGED <<title, stored, named, erased, doomed>> /\ of[m] = 0 /\ m \notin Waits \cup doomed
  BY <1>1 DEF disk, Messages
<1>3. stage' \in [Msgs -> Stages] /\ stage'[m] = v /\ \A k \in Msgs : k # m => stage'[k] = stage[k]
  <2>1. v \in Stages
    BY DEF Stages
  <2>2. QED BY <1>1, <2>1 DEF Typed
<1> DEFINE Sent(x) == /\ queue' = Append(queue, x) /\ x.kind = "put" /\ x.msg = m
                      /\ x.conv = c /\ c # 0 /\ x.before = {}
<1>4. /\ of' \in [Msgs -> Nat] /\ of'[m] = c /\ \A k \in Msgs : k # m => of'[k] = of[k]
      /\ buffer' \in Seq(Msgs) /\ Range(buffer') \subseteq Range(buffer) \cup {m}
      /\ m \in Range(buffer') => c # 0
      /\ queue' = queue \/ \E x \in Writes : Sent(x)
  <2>1. CASE c = 0
    <3>1. UNCHANGED <<of, queue, buffer>>
      BY <2>1 DEF Persist
    <3>2. QED BY <1>1, <1>2, <2>1, <3>1 DEF Typed, Waits
  <2>2. CASE c # 0 /\ ready
    <3>1. /\ of' = [of EXCEPT ![m] = c] /\ buffer' = buffer
          /\ queue' = Append(queue, Write("put", c, m))
      BY <2>2 DEF Persist
    <3> DEFINE x == Write("put", c, m)
    <3>2. m \in Nat
      BY DEF Msgs
    <3>3. x \in Writes /\ x.kind = "put" /\ x.msg = m /\ x.conv = c /\ x.before = {}
      BY <3>2, PutMade
    <3> HIDE DEF x
    <3>4. Sent(x)
      BY <2>2, <3>1, <3>3 DEF x
    <3>5. of' \in [Msgs -> Nat] /\ of'[m] = c /\ \A k \in Msgs : k # m => of'[k] = of[k]
      BY <1>1, <3>1 DEF Typed
    <3>6. QED BY <1>1, <2>2, <3>1, <3>3, <3>4, <3>5 DEF Typed
  <2>3. CASE c # 0 /\ ~ready
    <3>1. /\ of' = [of EXCEPT ![m] = c] /\ queue' = queue
          /\ buffer' = Append(buffer, m) \/ buffer' = buffer
      BY <2>3 DEF Persist
    <3>2. Append(buffer, m) \in Seq(Msgs) /\ Range(Append(buffer, m)) = Range(buffer) \cup {m}
      BY <1>1, RangeFacts DEF Typed
    <3>3. of' \in [Msgs -> Nat] /\ of'[m] = c /\ \A k \in Msgs : k # m => of'[k] = of[k]
      BY <1>1, <3>1 DEF Typed
    <3>4. buffer' \in Seq(Msgs) /\ Range(buffer') \subseteq Range(buffer) \cup {m}
      BY <1>1, <3>1, <3>2 DEF Typed
    <3>5. QED BY <2>3, <3>1, <3>3, <3>4
  <2>4. QED BY <2>1, <2>2, <2>3
<1>5. \/ queue' = queue
      \/ \E x \in Writes : queue' = Append(queue, x) /\ Added(x) /\ Fits(x)'
  <2> SUFFICES ASSUME NEW x \in Writes, Sent(x) PROVE Added(x) /\ Fits(x)'
    BY <1>4
  <2>1. QED BY <1>2, <1>4 DEF Added, Fits, Good, Unmade
<1>6. Typed'
  <2>1. queue' \in Seq(Writes)
    <3>1. \A x \in Writes : Append(queue, x) \in Seq(Writes)
      BY <1>1, RangeFacts DEF Typed
    <3>2. QED BY <1>1, <1>5, <3>1 DEF Typed
  <2>2. QED BY <1>1, <1>2, <1>3, <1>4, <2>1 DEF Typed
<1>7. \A k \in Msgs : /\ of[k] # 0 => of'[k] = of[k]
                      /\ stage[k] = "creating" => stage'[k] = "creating"
                      /\ stage'[k] \notin {"sent", "entry"} => of'[k] = 0
  BY <1>1, <1>2, <1>3, <1>4 DEF Messages
<1>8. \A k \in Waits' : of'[k] # 0 /\ (k \in Waits \/ of[k] = 0)
  <2> TAKE k \in Waits'
  <2>1. CASE k = m
    <3>1. k \in Range(buffer')
      BY <1>2, <2>1 DEF Waits
    <3>2. QED BY <1>2, <1>4, <2>1, <3>1
  <2>2. CASE k # m
    <3>1. k \in Waits
      BY <1>4, <2>2 DEF Waits
    <3>2. k \in Msgs
      BY <1>1, <3>1, RangeFacts DEF Typed, Waits
    <3>3. QED BY <1>1, <1>4, <2>2, <3>1, <3>2 DEF Messages
  <2>3. QED BY <2>1, <2>2
<1>9. \A d \in Range(batch'.rest) : d \in Known
  BY <1>1 DEF NamedOnce
<1>10. made <= made'
  BY <1>1 DEF Typed
<1>11. QED BY <1>5, <1>6, <1>7, <1>8, <1>9, <1>10, FrontStep

\* createNewConversation for a first message.
LEMMA CreatesStep ==
  ASSUME StoreInv, NEW m \in Msgs, stage[m] \in {"new", "ensured"}, Creates(m),
         UNCHANGED <<current, batch, pending, running, late, disk, disturbed>>
  PROVE  StoreInv'
<1>1. Typed /\ Messages /\ NamedOnce
  BY DEF StoreInv
<1>2. /\ UNCHANGED <<title, stored, named, erased, doomed, buffer, flushing, of>>
      /\ Known' = Known
  BY DEF disk, pending, Known
<1>3. /\ stage' = [stage EXCEPT ![m] = "creating"] /\ made' = made + 1
      /\ queue' = Append(queue, Write("create", made + 1, m))
  BY DEF Creates
<1>4. m \in Nat /\ made \in Nat /\ made' \in Nat /\ made <= made'
  BY <1>1, <1>3 DEF Msgs, Typed
<1>5. /\ stage' \in [Msgs -> Stages] /\ stage'[m] = "creating"
      /\ \A k \in Msgs : k # m => stage'[k] = stage[k]
  BY <1>1, <1>3 DEF Typed, Stages
<1>6. PICK x \in Writes : /\ queue' = Append(queue, x) /\ x.kind = "create" /\ x.msg = m
                         /\ x.conv = made + 1 /\ x.before = {}
  BY <1>3, <1>4, WriteMade DEF Kinds
<1>7. made + 1 \notin Known
  BY <1>1, <1>4 DEF NamedOnce, Known
<1>8. x.conv > made /\ x.conv <= made'
  BY <1>3, <1>4, <1>6
<1>9. Added(x) /\ Fits(x)'
  BY <1>2, <1>5, <1>6, <1>7, <1>8 DEF Added, Fits, Good, Unmade
<1>10. queue' \in Seq(Writes)
  BY <1>1, <1>6, RangeFacts DEF Typed
<1>11. Typed'
  BY <1>1, <1>2, <1>4, <1>5, <1>10 DEF Typed
<1>12. \A k \in Msgs : /\ of[k] # 0 => of'[k] = of[k]
                       /\ stage[k] = "creating" => stage'[k] = "creating"
                       /\ stage'[k] \notin {"sent", "entry"} => of'[k] = 0
  BY <1>1, <1>2, <1>5 DEF Messages
<1>13. \A k \in Waits' : of'[k] # 0 /\ k \in Waits
  BY <1>1, <1>2 DEF Messages, Waits
<1>14. \A d \in Range(batch'.rest) : d \in Known
  BY <1>1 DEF NamedOnce
<1>15. QED BY <1>3, <1>4, <1>6, <1>9, <1>11, <1>12, <1>13, <1>14, FrontStep

\* Messages wait, the store is opened, and phones ask for writes.
LEMMA AskStep ==
  ASSUME StoreInv, UNCHANGED <<of, running, late, disk, disturbed, made>>, current' \in Nat,
         stage' \in [Msgs -> Stages],
         \A k \in Msgs : \/ stage'[k] = stage[k]
                         \/ /\ stage[k] \notin {"creating", "sent", "entry"}
                            /\ stage'[k] \notin {"sent", "entry"},
         batch' \in [ids : SUBSET Convs, rest : Seq(Convs), hit : BOOLEAN],
         \A d \in Range(batch'.rest) : d \in Known,
         buffer' \in Seq(Msgs), flushing' \in Seq(Msgs), Waits' \subseteq Waits,
         queue' = queue \/ \E x \in Writes : queue' = Append(queue, x) /\ Onward(x)
  PROVE  StoreInv'
<1>1. Typed /\ Messages /\ NamedOnce
  BY DEF StoreInv
<1>2. UNCHANGED <<title, stored, named, erased, doomed>>
  BY DEF disk
<1>3. Typed'
  <2>1. \A x \in Writes : Append(queue, x) \in Seq(Writes)
    BY <1>1, RangeFacts DEF Typed
  <2>2. queue' \in Seq(Writes)
    BY <1>1, <2>1 DEF Typed
  <2>3. QED BY <1>1, <1>2, <2>2 DEF Typed
<1>4. ASSUME NEW x \in Writes, Onward(x) PROVE Added(x) /\ Fits(x)'
  <2>1. CASE x.kind = "put" /\ x.msg \in Waits /\ x.msg \in Msgs /\ x.conv = of[x.msg] /\ x.before = {}
    BY <1>1, <1>2, <2>1 DEF Added, Fits, Good, Unmade, Messages
  <2>2. CASE /\ x.kind \in {"delete", "clear", "rename", "name"}
             /\ x.kind = "delete" => x.conv \in Known
             /\ x.kind \notin Deletes => x.before = {}
             /\ \A b \in x.before : of[b] # 0 /\ b \notin Waits
    <3>1. Known' = Known
      BY <1>2 DEF Known
    <3>2. QED BY <1>2, <2>2, <3>1 DEF Added, Fits, Good, Unmade
  <2>3. QED BY <1>4, <2>1, <2>2 DEF Onward
<1>5. \A k \in Msgs : /\ stage[k] = "creating" => stage'[k] = "creating"
                      /\ stage'[k] \notin {"sent", "entry"} => of'[k] = 0
  BY <1>1 DEF Messages
<1>6. \A k \in Waits' : of'[k] # 0 /\ k \in Waits
  BY <1>1 DEF Messages
<1>7. made <= made'
  BY <1>1 DEF Typed
<1>8. \/ queue' = queue
      \/ \E x \in Writes : queue' = Append(queue, x) /\ Added(x) /\ Fits(x)'
  BY <1>4
<1>9. QED BY <1>3, <1>5, <1>6, <1>7, <1>8, FrontStep

\* A write that does not wait for a message.
LEMMA AskedWrite ==
  ASSUME NEW k \in {"delete", "clear", "rename", "name"}, NEW c \in 0..MaxConvs,
         k = "delete" => c \in Known
  PROVE  \E x \in Writes : x = Write(k, c, 0) /\ Onward(x)
<1>1. c \in Nat /\ \A d \in Convs : d # 0
  BY StoreAssumption DEF Convs
<1>2. \A b \in Write(k, c, 0).before :
        b \notin Waits /\ IF k = "delete" THEN of[b] = c ELSE of[b] \in Convs
  BY <1>1, WriteMade DEF Kinds
<1>3. Write(k, c, 0) \in Writes /\ Write(k, c, 0).kind = k /\ Write(k, c, 0).conv = c
  BY <1>1, WriteMade DEF Kinds
<1>4. \A b \in Write(k, c, 0).before : of[b] # 0
  BY <1>1, <1>2 DEF Known
<1>5. k \notin Deletes => Write(k, c, 0).before = {}
  BY <1>1, WriteMade DEF Kinds, Deletes
<1>6. Onward(Write(k, c, 0))
  BY <1>2, <1>3, <1>4, <1>5 DEF Onward
<1>7. QED BY <1>3, <1>6

LEMMA OpenerStep ==
  ASSUME StoreInv, CloseEnds \/ CloseTimesOut \/ InitEnds \/ InitFails \/ StrayEnds
  PROVE  StoreInv'
<1>1. Typed /\ Messages /\ NamedOnce
  BY DEF StoreInv
<1>2. UNCHANGED <<current, batch, of, running, late, disk, disturbed, made>>
  BY DEF CloseEnds, CloseTimesOut, InitEnds, InitFails, StrayEnds, OpenerUnchanged
<1>3. /\ stage' \in [Msgs -> Stages]
      /\ \A k \in Msgs : \/ stage'[k] = stage[k]
                         \/ /\ stage[k] \notin {"creating", "sent", "entry"}
                            /\ stage'[k] \notin {"sent", "entry"}
  <2>1. ASSUME NEW told \in {"ensured", "refused"}, Answer(told)
        PROVE  /\ stage' \in [Msgs -> Stages]
               /\ \A k \in Msgs : \/ stage'[k] = stage[k]
                                  \/ /\ stage[k] \notin {"creating", "sent", "entry"}
                                     /\ stage'[k] \notin {"sent", "entry"}
    <3>1. told \in Stages /\ stage' = [k \in Msgs |-> IF stage[k] = "ensuring" THEN told ELSE stage[k]]
      BY <2>1 DEF Answer, Stages
    <3>2. stage \in [Msgs -> Stages]
      BY <1>1 DEF Typed
    <3>3. QED BY <3>1, <3>2
  <2>2. stage' = stage \/ Answer("ensured") \/ Answer("refused")
    BY DEF CloseEnds, CloseTimesOut, InitEnds, InitFails, StrayEnds
  <2>3. CASE stage' = stage
    BY <1>1, <2>3 DEF Typed
  <2>4. QED BY <2>1, <2>2, <2>3
<1>4. /\ buffer' \in Seq(Msgs) /\ flushing' \in Seq(Msgs) /\ Waits' \subseteq Waits
      /\ queue' = queue \/ \E x \in Writes : queue' = Append(queue, x) /\ Onward(x)
  <2>1. CASE InitEnds
    <3>1. flushing' = buffer /\ buffer' = <<>> /\ queue' = queue \o FlushNext(buffer)
      BY <2>1 DEF InitEnds
    <3>2. Waits' \subseteq Waits
      BY <3>1 DEF Waits, Range
    <3>3. queue' = queue \/ \E x \in Writes : queue' = Append(queue, x) /\ Onward(x)
      BY <1>1, <3>1, NextOfFlush DEF Typed, Onward, Waits
    <3>4. QED BY <1>1, <3>1, <3>2, <3>3 DEF Typed
  <2>2. CASE ~InitEnds
    <3>1. UNCHANGED <<buffer, flushing, queue>>
      BY <2>2 DEF CloseEnds, CloseTimesOut, InitFails, StrayEnds
    <3>2. QED BY <1>1, <3>1 DEF Typed, Waits
  <2>3. QED BY <2>1, <2>2
<1>5. \A d \in Range(batch'.rest) : d \in Known
  BY <1>1, <1>2 DEF NamedOnce
<1>6. current' \in Nat /\ batch' \in [ids : SUBSET Convs, rest : Seq(Convs), hit : BOOLEAN]
  BY <1>1, <1>2 DEF Typed
<1>7. QED BY <1>2, <1>3, <1>4, <1>5, <1>6, AskStep

LEMMA PhoneStep ==
  ASSUME StoreInv,
         \/ NewConversation \/ HandlerGivesUp \/ DeleteConversation(0)
         \/ \E c \in Convs : \/ LoadConversation(c) \/ RenameConversation(c)
                             \/ DeleteConversation(c) \/ NameReads(c)
                             \/ \E d \in Convs : DeleteMultiple(c, d)
  PROVE  StoreInv'
<1>1. Typed /\ NamedOnce
  BY DEF StoreInv
<1> DEFINE Others == /\ UNCHANGED <<of, running, late, disk, disturbed, made, stage, buffer, flushing>>
                     /\ current' \in Nat
           Quiet == UNCHANGED queue
           Asks(k, c) == queue' = Append(queue, Write(k, c, 0))
                         /\ (k = "delete" => c \in Known)
           Batched == /\ batch' \in [ids : SUBSET Convs, rest : Seq(Convs), hit : BOOLEAN]
                      /\ \A d \in Range(batch'.rest) : d \in Known
<1>2. \A c \in Convs : c \in Nat /\ c \in 0..MaxConvs
  BY StoreAssumption DEF Convs
<1>3. 0 \in 0..MaxConvs /\ 0 \in Nat
  BY StoreAssumption
<1>4. UNCHANGED batch => Batched
  BY <1>1 DEF Typed, NamedOnce
<1>5. batch' = NoBatch => Batched
  <2> SUFFICES ASSUME batch' = NoBatch PROVE Batched
    OBVIOUS
  <2>1. batch'.rest = <<>> /\ batch' \in [ids : SUBSET Convs, rest : Seq(Convs), hit : BOOLEAN]
    BY DEF NoBatch
  <2>2. Range(batch'.rest) = {}
    BY <2>1 DEF Range
  <2>3. QED BY <2>1, <2>2
<1>6. ASSUME NEW c \in Convs, NEW d \in Convs,
             batch' = [ids |-> {c, d}, rest |-> <<c, d>>, hit |-> FALSE], {c, d} \subseteq Known
      PROVE  Batched
  <2>1. batch'.rest = <<c, d>> /\ batch' \in [ids : SUBSET Convs, rest : Seq(Convs), hit : BOOLEAN]
    BY <1>6
  <2>2. Range(batch'.rest) = {c, d}
    BY <2>1 DEF Range
  <2>3. QED BY <1>6, <2>1, <2>2 DEF Known
<1> HIDE DEF Batched
<1>7. ASSUME Others, Batched,
             \/ Quiet
             \/ \E k \in {"delete", "clear", "rename", "name"}, c \in 0..MaxConvs : Asks(k, c)
      PROVE  StoreInv'
  <2>1. queue' = queue \/ \E x \in Writes : queue' = Append(queue, x) /\ Onward(x)
    BY <1>7, AskedWrite
  <2>2. Waits' \subseteq Waits /\ stage' \in [Msgs -> Stages] /\ buffer' \in Seq(Msgs)
        /\ flushing' \in Seq(Msgs)
    BY <1>1, <1>7 DEF Typed, Waits
  <2>3. QED BY <1>7, <2>1, <2>2, AskStep DEF Batched
<1>8. ASSUME NewConversation PROVE StoreInv'
  BY <1>3, <1>4, <1>7, <1>8 DEF NewConversation, Request, pending
<1>9. ASSUME HandlerGivesUp PROVE StoreInv'
  <2>1. Batched
    BY <1>4, <1>5, <1>9 DEF HandlerGivesUp
  <2>2. Others /\ Quiet
    BY <1>1, <1>9 DEF HandlerGivesUp, pending, Typed
  <2>3. QED BY <1>7, <2>1, <2>2
<1>10. ASSUME NEW c \in Convs \cup {0}, DeleteConversation(c) PROVE StoreInv'
  <2>1. Others /\ Batched
    BY <1>1, <1>4, <1>10 DEF DeleteConversation, Request, pending, Typed
  <2>2. c \in 0..MaxConvs /\ IF c = 0 THEN Asks("clear", c) ELSE Asks("delete", c)
    BY <1>2, <1>3, <1>10 DEF DeleteConversation, Known
  <2>3. QED BY <1>7, <2>1, <2>2
<1>11. ASSUME NEW c \in Convs, LoadConversation(c) PROVE StoreInv'
  BY <1>2, <1>4, <1>7, <1>11 DEF LoadConversation, Request, pending
<1>12. ASSUME NEW c \in Convs, RenameConversation(c) PROVE StoreInv'
  <2>1. Others /\ Batched /\ Asks("rename", c)
    BY <1>1, <1>4, <1>12 DEF RenameConversation, Request, pending, Typed
  <2>2. QED BY <1>2, <1>7, <2>1
<1>13. ASSUME NEW c \in Convs, NameReads(c) PROVE StoreInv'
  <2>1. Others /\ Batched /\ (Asks("name", c) \/ Quiet)
    BY <1>1, <1>4, <1>13 DEF NameReads, pending, Typed
  <2>2. QED BY <1>2, <1>7, <2>1
<1>14. ASSUME NEW c \in Convs, NEW d \in Convs, DeleteMultiple(c, d) PROVE StoreInv'
  <2>1. {c, d} \subseteq Known /\ batch' = [ids |-> {c, d}, rest |-> <<c, d>>, hit |-> FALSE]
    BY <1>14 DEF DeleteMultiple
  <2>2. Batched /\ Others /\ Asks("delete", c)
    BY <1>1, <1>6, <1>14, <2>1 DEF DeleteMultiple, Request, pending, Typed, Known
  <2>3. QED BY <1>2, <1>7, <2>2
<1>15. QED BY <1>8, <1>9, <1>10, <1>11, <1>12, <1>13, <1>14

LEMMA MessageStep ==
  ASSUME StoreInv, NEW m \in Msgs,
         \/ Arrives(m) \/ ArrivesFirst(m) \/ ArrivesUnready(m) \/ Proceeds(m)
         \/ \E c \in Convs : EntryArrives(m, c)
  PROVE  StoreInv'
<1>1. Typed /\ NamedOnce /\ current \in Nat
  BY DEF StoreInv, Typed
<1>2. ASSUME Deliver(m), stage[m] \notin {"sent", "entry", "creating"},
             UNCHANGED <<current, batch, flushing, running, late, disk, disturbed, made>>
      PROVE  StoreInv'
  <2>1. stage' = [stage EXCEPT ![m] = "sent"] /\ Persist(m, current)
    BY <1>2 DEF Deliver
  <2>2. QED BY <1>1, <1>2, <2>1, PersistStep
<1>3. CASE Arrives(m)
  BY <1>2, <1>3 DEF Arrives, Fresh
<1>4. CASE ArrivesFirst(m)
  BY <1>4, CreatesStep DEF ArrivesFirst, Fresh
<1>5. CASE ArrivesUnready(m)
  <2>1. stage[m] = "new" /\ stage' = [stage EXCEPT ![m] = "ensuring"]
        /\ UNCHANGED <<current, batch, buffer, flushing, of, queue, running, late, disk,
                       disturbed, made>>
    BY <1>5 DEF ArrivesUnready, Fresh, pending
  <2>2. stage' \in [Msgs -> Stages] /\ \A k \in Msgs : k # m => stage'[k] = stage[k]
    BY <1>1, <2>1 DEF Typed, Stages
  <2>3. stage'[m] = "ensuring"
    BY <1>1, <2>1 DEF Typed
  <2>4. Waits' \subseteq Waits
    BY <2>1 DEF Waits
  <2>5. \A d \in Range(batch'.rest) : d \in Known
    BY <1>1, <2>1 DEF NamedOnce
  <2>6. \A k \in Msgs : \/ stage'[k] = stage[k]
                        \/ /\ stage[k] \notin {"creating", "sent", "entry"}
                           /\ stage'[k] \notin {"sent", "entry"}
    BY <2>1, <2>2, <2>3
  <2>7. /\ batch' \in [ids : SUBSET Convs, rest : Seq(Convs), hit : BOOLEAN]
        /\ buffer' \in Seq(Msgs) /\ flushing' \in Seq(Msgs) /\ current' \in Nat
    BY <1>1, <2>1 DEF Typed
  <2>8. QED BY <2>1, <2>2, <2>4, <2>5, <2>6, <2>7, AskStep
<1>6. CASE Proceeds(m)
  <2>1. CASE /\ stage[m] = "ensured" /\ Creates(m)
             /\ UNCHANGED <<current, first, naming, waiting, batch, opener, pending, running,
                            late, disk, disturbed, events>>
    BY <2>1, CreatesStep
  <2>2. CASE /\ stage[m] \in {"refused", "announcing"} /\ Deliver(m)
             /\ UNCHANGED <<current, waiting, batch, opener, flushing, running, late, disk,
                            disturbed, made, events>>
    BY <1>2, <2>2
  <2>3. QED BY <1>6, <2>1, <2>2 DEF Proceeds
<1>7. ASSUME NEW c \in Convs, EntryArrives(m, c) PROVE StoreInv'
  <2>1. /\ stage[m] = "new" /\ stage' = [stage EXCEPT ![m] = "entry"] /\ Persist(m, c)
        /\ UNCHANGED <<current, batch, flushing, running, late, disk, disturbed, made>>
    BY <1>7 DEF EntryArrives, Fresh
  <2>2. c \in Nat
    BY DEF Convs
  <2>3. QED BY <2>1, <2>2, PersistStep
<1>8. QED BY <1>3, <1>4, <1>5, <1>6, <1>7

----------------------------------------------------------------------------
(* The theorems.                                                           *)

LEMMA StoreInitInv == StoreInit => StoreInv
<1> SUFFICES ASSUME StoreInit PROVE StoreInv
  OBVIOUS
<1>1. /\ buffer = <<>> /\ flushing = <<>> /\ queue = <<>> /\ running = {} /\ late = {}
      /\ stored = {} /\ made = 1 /\ of = [m \in Msgs |-> 0] /\ stage = [m \in Msgs |-> "new"]
      /\ batch = NoBatch /\ named = [c \in Convs |-> {title[c]} \ {"none"}]
      /\ erased = {} /\ doomed = {} /\ disturbed = {} /\ current \in Nat
  BY DEF StoreInit
<1>2. /\ title \in [Convs -> Titles] /\ \A c \in Convs : title[c] # "none" => c = 1
      /\ named \in [Convs -> SUBSET Titles]
      /\ \A c \in Convs : named[c] = {title[c]} \ {"none"}
  <2>1. title \in [Convs -> Titles] /\ \A c \in Convs : title[c] # "none" => c = 1
    BY DEF StoreInit, Titles
  <2>2. QED BY <1>1, <2>1
<1>3. Waits = {} /\ Pending = {} /\ batch.rest = <<>> /\ Range(batch.rest) = {}
  BY <1>1 DEF Waits, Pending, Range, NoBatch
<1>4. batch \in [ids : SUBSET Convs, rest : Seq(Convs), hit : BOOLEAN]
  BY <1>1 DEF NoBatch
<1>5. Typed
  BY <1>1, <1>2, <1>4 DEF Typed, Stages
<1>6. InOrder
  BY <1>1, <1>3 DEF InOrder, Ordered, Range
<1>7. Messages /\ Snapshots /\ Abandoned
  BY <1>1, <1>3 DEF Messages, Snapshots, Abandoned
<1>8. NamedOnce
  BY <1>1, <1>2, <1>3 DEF NamedOnce, Known
<1>9. TitleIsLast /\ GoneIsGone
  BY <1>1, <1>2 DEF TitleIsLast, GoneIsGone
<1>10. QED BY <1>5, <1>6, <1>7, <1>8, <1>9 DEF StoreInv

LEMMA StoreStepInv == StoreInv /\ [StoreNext]_storeVars => StoreInv'
<1> SUFFICES ASSUME StoreInv, [StoreNext]_storeVars PROVE StoreInv'
  OBVIOUS
<1>1. ASSUME NEW m \in Msgs,
             \/ Arrives(m) \/ ArrivesFirst(m) \/ ArrivesUnready(m) \/ Proceeds(m)
             \/ \E c \in Convs : EntryArrives(m, c)
      PROVE  StoreInv'
  BY <1>1, MessageStep
<1>2. CASE CloseEnds \/ CloseTimesOut \/ InitEnds \/ InitFails \/ StrayEnds
  BY <1>2, OpenerStep
<1>3. CASE Begin
  BY <1>3, BeginStep
<1>4. ASSUME NEW r \in running,
             Works(r) \/ Succeeds(r) \/ Fails(r) \/ Hangs(r) \/ TimesOut(r)
      PROVE  StoreInv'
  BY <1>4, SucceedsStep, RunEndsStep
<1>5. ASSUME NEW r \in late, LateWorks(r) \/ LateEnds(r) PROVE StoreInv'
  BY <1>5, LateStep
<1>6. CASE \/ NewConversation \/ HandlerGivesUp \/ DeleteConversation(0)
           \/ \E c \in Convs : \/ LoadConversation(c) \/ RenameConversation(c)
                               \/ DeleteConversation(c) \/ NameReads(c)
                               \/ \E d \in Convs : DeleteMultiple(c, d)
  BY <1>6, PhoneStep
<1>7. CASE UNCHANGED storeVars
  <2>1. UNCHANGED <<current, stage, batch, buffer, flushing, of, queue, running, late, title,
                    stored, named, erased, doomed, disturbed, made>>
    BY <1>7 DEF storeVars, agent, pending, disk
  <2>2. Typed' /\ InOrder' /\ Messages' /\ NamedOnce' /\ Snapshots'
    BY <2>1 DEF StoreInv, Typed, InOrder, Good, Unmade, Ordered, Messages, NamedOnce,
                Snapshots, Bounded, Faithful, Known, Pending, Waits
  <2>3. Abandoned' /\ TitleIsLast' /\ GoneIsGone'
    BY <2>1 DEF StoreInv, Abandoned, Strayed, Pending, TitleIsLast, GoneIsGone
  <2>4. QED BY <2>2, <2>3 DEF StoreInv
<1>8. QED BY <1>1, <1>2, <1>3, <1>4, <1>5, <1>6, <1>7 DEF StoreNext

\* A conversation has the title of the last rename that succeeded, or one that a
\* rename begun since has left when it failed: no write of the store brings an
\* older record back, unless one of that conversation has been abandoned
\* (TitleIsLast).
THEOREM TitleIsLastCorrect == StoreSpec => []TitleIsLast
<1>1. StoreInv => TitleIsLast
  BY DEF StoreInv
<1>2. QED BY <1>1, StoreInitInv, StoreStepInv, PTL DEF StoreSpec

\* A conversation whose deletion has succeeded stays deleted, and with it every
\* message that the store had been given before the request, unless the
\* conversation had more than the limit of a deletion (GoneIsGone).
THEOREM GoneIsGoneCorrect == StoreSpec => []GoneIsGone
<1>1. StoreInv => GoneIsGone
  BY DEF StoreInv
<1>2. QED BY <1>1, StoreInitInv, StoreStepInv, PTL DEF StoreSpec

----------------------------------------------------------------------------
(* ConversationStore: nothing that waits is forgotten.                     *)

\* There is a flush only after the store has become ready, once.
DriverInv ==
  /\ opening # "no" => ~ready
  /\ ~ready => flushing = <<>>
  /\ NoneForgotten

\* The steps that neither answer a write nor begin a flush.
LEMMA KeptDriven ==
  ASSUME DriverInv, Pending \subseteq Pending', ready' = ready, flushing' = flushing,
         opening' # "no" => ~ready,
         \A m \in Msgs : \/ stage'[m] = stage[m] /\ (stage[m] = "ensuring" => opening' # "no")
                         \/ stage'[m] \notin {"ensuring", "creating"}
                         \/ stage'[m] = "ensuring" /\ opening' # "no"
                         \/ /\ stage'[m] = "creating"
                            /\ \E w \in Pending' : w.kind = "create" /\ w.msg = m
  PROVE  DriverInv'
<1>1. \A kind, m : InProgress(kind, m) => \E w \in Pending' : w.kind = kind /\ w.msg = m
  BY DEF InProgress, Pending
<1>2. NoneForgotten'
  BY <1>1 DEF DriverInv, NoneForgotten, InProgress, Pending
<1>3. QED BY <1>2 DEF DriverInv

\* The flush goes on with the write of its first entry.
LEMMA FlushFacts ==
  ASSUME Typed, NEW q \in Seq(Msgs), NEW rest \in Seq(Writes)
  PROVE  /\ Range(rest) \subseteq Range(rest \o FlushNext(q))
         /\ q # <<>> =>
              \E x \in Range(rest \o FlushNext(q)) : x.kind = "put" /\ x.msg = Head(q)
<1>1. CASE q = <<>>
  <2>1. rest \o FlushNext(q) = rest
    BY <1>1, ConcatOne DEF FlushNext
  <2>2. QED BY <1>1, <2>1
<1>2. CASE q # <<>>
  <2> DEFINE x == Write("put", of[Head(q)], Head(q))
  <2>1. Head(q) \in Msgs
    BY <1>2
  <2>2. Head(q) \in Nat /\ of[Head(q)] \in Nat
    BY <2>1 DEF Typed, Msgs
  <2>3. x \in Writes /\ x.kind = "put" /\ x.msg = Head(q)
    BY <2>2, PutMade
  <2>4. FlushNext(q) = <<x>>
    BY <1>2 DEF FlushNext
  <2> HIDE DEF x
  <2>5. rest \o FlushNext(q) = Append(rest, x)
    BY <2>3, <2>4, ConcatOne
  <2>6. Range(rest \o FlushNext(q)) = Range(rest) \cup {x}
    BY <2>3, <2>5, RangeFacts
  <2>7. QED BY <2>3, <2>6
<1>3. QED BY <1>1, <1>2

\* The answer of a write, and of no other.
LEMMA AnsweredDriven ==
  ASSUME DriverInv, Typed, NEW w \in Writes, NEW ok \in BOOLEAN, NEW rest \in Seq(Writes),
         w.kind = "create" => w.msg \in Msgs, Settle(w, ok, rest), UNCHANGED opener,
         Pending \ {w} \subseteq Range(rest) \cup {r.write : r \in running'}
  PROVE  DriverInv'
<1> DEFINE Left == Range(rest) \cup {r.write : r \in running'}
<1>1. UNCHANGED <<ready, opening>>
  BY DEF opener
<1>2. \A kind, m : InProgress(kind, m) =>
                     \/ w.kind = kind /\ w.msg = m
                     \/ \E v \in Left : v.kind = kind /\ v.msg = m
  BY DEF InProgress, Pending
<1>3. CASE w.kind = "put" /\ flushing # <<>> /\ w.msg = Head(flushing)
  <2>1. /\ flushing' = Tail(flushing) /\ queue' = rest \o FlushNext(Tail(flushing))
        /\ UNCHANGED <<stage, of>>
    BY <1>3 DEF Settle, PutSettles, agent
  <2>2. Tail(flushing) \in Seq(Msgs)
    BY <1>3 DEF Typed
  <2>3. /\ Range(rest) \subseteq Range(queue')
        /\ Tail(flushing) # <<>> =>
             \E x \in Range(queue') : x.kind = "put" /\ x.msg = Head(Tail(flushing))
    BY <2>1, <2>2, FlushFacts
  <2>4. \A m \in Msgs : stage[m] = "creating" => InProgress("create", m)'
    <3>1. Left \subseteq Range(queue') \cup {r.write : r \in running'}
      BY <2>3
    <3>2. \A m \in Msgs : stage[m] = "creating" => \E v \in Left : v.kind = "create" /\ v.msg = m
      BY <1>2, <1>3 DEF DriverInv, NoneForgotten
    <3> HIDE DEF Left
    <3>3. QED BY <3>1, <3>2 DEF InProgress
  <2>5. QED BY <1>1, <2>1, <2>3, <2>4 DEF DriverInv, NoneForgotten, InProgress
<1>4. CASE ~(w.kind = "put" /\ flushing # <<>> /\ w.msg = Head(flushing))
  <2>1. /\ flushing' = flushing
        /\ \/ queue' = rest
           \/ \E x \in Writes : queue' = Append(rest, x)
        /\ \A m \in Msgs : \/ stage'[m] = stage[m]
                           \/ stage'[m] \in {"announcing", "sent"}
        /\ w.kind = "create" => stage'[w.msg] \in {"announcing", "sent"}
    <3>1. CASE w.kind = "create"
      <4>1. CreateSettles(w, ok, rest)
        BY <3>1 DEF Settle
      <4>2. stage \in [Msgs -> Stages] /\ w.msg \in Msgs
        BY <3>1 DEF Typed
      <4>3. QED BY <4>1, <4>2 DEF CreateSettles, pending
    <3>2. CASE w.kind = "put"
      BY <1>4, <3>2 DEF Settle, PutSettles, agent
    <3>3. CASE w.kind \in {"delete", "clear"} /\ w.conv \in waiting
      BY <3>3 DEF Settle, DeleteSettles, pending
    <3>4. CASE w.kind = "delete" /\ w.conv \notin waiting /\ w.conv \in Range(batch.rest)
      <4>1. BatchSettles(w, ok, rest)
        BY <3>4 DEF Settle
      <4>2. \/ queue' = rest
            \/ Len(batch.rest) > 1 /\ queue' = Append(rest, Write("delete", batch.rest[2], 0))
        BY <4>1 DEF BatchSettles
      <4>3. Len(batch.rest) > 1 => Write("delete", batch.rest[2], 0) \in Writes
        <5>1. batch.rest \in Seq(Convs)
          BY DEF Typed
        <5>2. Len(batch.rest) > 1 => batch.rest[2] \in Convs
          BY <5>1
        <5>3. QED BY <5>2, WriteMade DEF Kinds, Convs
      <4>4. QED BY <3>4, <4>1, <4>2, <4>3 DEF BatchSettles, pending
    <3>5. CASE /\ w.kind \notin {"create", "put"}
               /\ ~(w.kind \in {"delete", "clear"} /\ w.conv \in waiting)
               /\ ~(w.kind = "delete" /\ w.conv \in Range(batch.rest) \ waiting)
      BY <3>5 DEF Settle, agent, pending
    <3>6. QED BY <3>1, <3>2, <3>3, <3>4, <3>5
  <2>2. Range(rest) \subseteq Range(queue')
    <3>1. ASSUME NEW x \in Writes, queue' = Append(rest, x) PROVE Range(rest) \subseteq Range(queue')
      BY <3>1, RangeFacts
    <3>2. QED BY <2>1, <3>1
  <2>3. Left \subseteq Pending'
    BY <2>2 DEF Pending
  <2>4. \A kind, m : (\E v \in Left : v.kind = kind /\ v.msg = m) =>
                       (\E v \in Pending' : v.kind = kind /\ v.msg = m)
    BY <2>3
  <2>5. \A m \in Msgs : stage'[m] = "creating" =>
                          stage[m] = "creating" /\ ~(w.kind = "create" /\ w.msg = m)
    BY <2>1
  <2>6. \A m \in Msgs : stage'[m] = "creating" =>
                          \E v \in Pending' : v.kind = "create" /\ v.msg = m
    <3> SUFFICES ASSUME NEW m \in Msgs, stage'[m] = "creating"
                 PROVE  \E v \in Pending' : v.kind = "create" /\ v.msg = m
      OBVIOUS
    <3>1. InProgress("create", m) /\ ~(w.kind = "create" /\ w.msg = m)
      BY <2>5 DEF DriverInv, NoneForgotten
    <3> HIDE DEF Left
    <3>2. \E v \in Left : v.kind = "create" /\ v.msg = m
      BY <1>2, <3>1
    <3>3. QED BY <2>4, <3>2
  <2>7. flushing # <<>> => \E v \in Pending' : v.kind = "put" /\ v.msg = Head(flushing)
    BY <1>2, <1>4, <2>4 DEF DriverInv, NoneForgotten
  <2>8. \A m \in Msgs : stage'[m] = "ensuring" => stage[m] = "ensuring"
    BY <2>1
  <2> HIDE DEF Left
  <2>9. NoneForgotten'
    BY <1>1, <2>1, <2>6, <2>7, <2>8 DEF DriverInv, NoneForgotten, InProgress, Pending
  <2>10. QED BY <1>1, <2>1, <2>9 DEF DriverInv
<1>5. QED BY <1>3, <1>4

\* The steps that append a write, or none.
LEMMA AskedDriven ==
  ASSUME DriverInv, Typed, running' = running,
         queue' = queue \/ \E x \in Writes : queue' = Append(queue, x)
  PROVE  Pending \subseteq Pending' /\ \A x \in Writes : queue' = Append(queue, x) => x \in Pending'
<1>1. queue \in Seq(Writes)
  BY DEF Typed
<1>2. \A x \in Writes : queue' = Append(queue, x) => Range(queue') = Range(queue) \cup {x}
  BY <1>1, RangeFacts
<1>3. QED BY <1>2 DEF Pending

LEMMA MessageDriven ==
  ASSUME DriverInv, Typed, NEW m \in Msgs,
         \/ Arrives(m) \/ ArrivesFirst(m) \/ ArrivesUnready(m) \/ Proceeds(m)
         \/ \E c \in Convs : EntryArrives(m, c)
  PROVE  DriverInv'
<1>1. m \in Nat /\ stage \in [Msgs -> Stages] /\ current \in Nat /\ made \in Nat
  BY DEF Typed, Msgs
<1>2. ASSUME NEW c \in Nat, NEW v \in {"sent", "entry"}, Persist(m, c),
             stage' = [stage EXCEPT ![m] = v], UNCHANGED <<opener, flushing, running>>
      PROVE  DriverInv'
  <2>1. queue' = queue \/ \E x \in Writes : queue' = Append(queue, x)
    <3>1. Write("put", c, m) \in Writes
      BY <1>1, PutMade
    <3>2. queue' = queue \/ queue' = Append(queue, Write("put", c, m))
      BY <1>2 DEF Persist
    <3>3. QED BY <3>1, <3>2
  <2>2. Pending \subseteq Pending'
    BY <1>2, <2>1, AskedDriven
  <2>3. \A k \in Msgs : stage'[k] = IF k = m THEN v ELSE stage[k]
    BY <1>1, <1>2
  <2>4. QED BY <1>2, <2>2, <2>3, KeptDriven DEF opener, DriverInv, NoneForgotten
<1>3. ASSUME Creates(m), UNCHANGED <<opener, flushing, running>>
      PROVE  DriverInv'
  <2> DEFINE x == Write("create", made + 1, m)
  <2>1. x \in Writes /\ x.kind = "create" /\ x.msg = m /\ queue' = Append(queue, x)
    <3>1. made + 1 \in Nat /\ "create" \in Kinds /\ m \in Nat
      BY <1>1 DEF Kinds
    <3>2. \A k \in Kinds, c, n \in Nat : /\ Write(k, c, n) \in Writes
                                         /\ Write(k, c, n).kind = k /\ Write(k, c, n).msg = n
      BY WriteMade
    <3>3. x \in Writes /\ x.kind = "create" /\ x.msg = m
      BY <3>1, <3>2
    <3>4. queue' = Append(queue, x)
      BY <1>3 DEF Creates
    <3>5. QED BY <3>3, <3>4
  <2> HIDE DEF x
  <2>2. Pending \subseteq Pending' /\ x \in Pending'
    BY <1>3, <2>1, AskedDriven
  <2>3. \A k \in Msgs : stage'[k] = IF k = m THEN "creating" ELSE stage[k]
    BY <1>1, <1>3 DEF Creates
  <2>4. QED BY <1>3, <2>1, <2>2, <2>3, KeptDriven DEF opener, DriverInv, NoneForgotten
<1>4. CASE Arrives(m)
  BY <1>1, <1>2, <1>4 DEF Arrives, Deliver
<1>5. CASE ArrivesFirst(m)
  BY <1>3, <1>5 DEF ArrivesFirst, pending
<1>6. CASE ArrivesUnready(m)
  <2>1. /\ stage' = [stage EXCEPT ![m] = "ensuring"] /\ opening' # "no" /\ ~ready
        /\ UNCHANGED <<ready, flushing, queue, running>>
    BY <1>6 DEF ArrivesUnready, pending
  <2>2. \A k \in Msgs : stage'[k] = IF k = m THEN "ensuring" ELSE stage[k]
    BY <1>1, <2>1
  <2>3. Pending' = Pending
    BY <2>1 DEF Pending
  <2>4. QED BY <2>1, <2>2, <2>3, KeptDriven
<1>7. CASE Proceeds(m)
  BY <1>1, <1>2, <1>3, <1>7 DEF Proceeds, Deliver, pending
<1>8. CASE \E c \in Convs : EntryArrives(m, c)
  BY <1>2, <1>8 DEF EntryArrives, Convs
<1>9. QED BY <1>4, <1>5, <1>6, <1>7, <1>8

LEMMA OpenerDriven ==
  ASSUME DriverInv, Typed, CloseEnds \/ CloseTimesOut \/ InitEnds \/ InitFails \/ StrayEnds
  PROVE  DriverInv'
<1>1. stage \in [Msgs -> Stages] /\ queue \in Seq(Writes)
  BY DEF Typed
<1>2. CASE CloseEnds \/ StrayEnds
  <2>1. /\ UNCHANGED <<stage, ready, flushing, queue, running>>
        /\ opening' = opening \/ (opening # "no" /\ opening' # "no")
    BY <1>2 DEF CloseEnds, StrayEnds, OpenerUnchanged
  <2>2. Pending' = Pending
    BY <2>1 DEF Pending
  <2>3. QED BY <2>1, <2>2, KeptDriven DEF DriverInv, NoneForgotten
<1>3. CASE CloseTimesOut \/ InitFails
  <2>1. /\ UNCHANGED <<ready, flushing, queue, running>> /\ Answer("refused")
    BY <1>3 DEF CloseTimesOut, InitFails, OpenerUnchanged
  <2>2. Pending' = Pending
    BY <2>1 DEF Pending
  <2>3. QED BY <2>1, <2>2, KeptDriven DEF Answer
<1>4. CASE InitEnds
  <2>1. /\ ready' = TRUE /\ Answer("ensured") /\ flushing' = buffer /\ UNCHANGED running
        /\ queue' = queue \o FlushNext(buffer)
    BY <1>4 DEF InitEnds, OpenerUnchanged
  <2>2. /\ Range(queue) \subseteq Range(queue')
        /\ buffer # <<>> => \E x \in Range(queue') : x.kind = "put" /\ x.msg = Head(buffer)
    BY <1>1, <2>1, FlushFacts DEF Typed
  <2>3. \A m \in Msgs : stage'[m] = "creating" => InProgress("create", m)'
    BY <2>1, <2>2 DEF DriverInv, NoneForgotten, InProgress, Answer
  <2>4. NoneForgotten'
    BY <2>1, <2>2, <2>3 DEF NoneForgotten, InProgress, Answer
  <2>5. QED BY <2>1, <2>4 DEF DriverInv, Answer
<1>5. QED BY <1>2, <1>3, <1>4

LEMMA WritesDriven ==
  ASSUME DriverInv, Typed, InOrder,
         \/ Begin
         \/ \E r \in running : Works(r) \/ Succeeds(r) \/ Fails(r) \/ Hangs(r) \/ TimesOut(r)
  PROVE  DriverInv'
<1>1. /\ queue \in Seq(Writes) /\ running \subseteq Runs /\ stage \in [Msgs -> Stages]
      /\ \A w \in Pending : w.kind = "create" => w.msg \in Msgs
  BY DEF Typed, InOrder, Good
<1>2. Pending \subseteq Writes
  BY <1>1, RangeFacts DEF Pending, Runs
<1>3. CASE Begin
  <2>1. /\ queue # <<>> /\ running = {} /\ UNCHANGED opener
        /\ Head(queue) \in Pending /\ Tail(queue) \in Seq(Writes)
        /\ Range(queue) \subseteq {Head(queue)} \cup Range(Tail(queue))
    <3>1. queue # <<>> /\ running = {} /\ UNCHANGED opener
      BY <1>3 DEF Begin
    <3>2. /\ Head(queue) \in Range(queue) /\ Tail(queue) \in Seq(Writes)
      BY <1>1, <3>1, RangeFacts
    <3>3. Range(queue) \subseteq {Head(queue)} \cup Range(Tail(queue))
      <4> SUFFICES ASSUME NEW i \in DOMAIN queue
                   PROVE  queue[i] = Head(queue) \/ queue[i] \in Range(Tail(queue))
        BY DEF Range
      <4>1. i # 1 => i - 1 \in DOMAIN Tail(queue) /\ Tail(queue)[i - 1] = queue[i]
        BY <1>1, <3>1
      <4>2. QED BY <1>1, <3>1, <4>1 DEF Range
    <3>4. QED BY <3>1, <3>2, <3>3 DEF Pending
  <2>2. CASE db
    <3>1. /\ \E convs, msgs : running' = {Run(Head(queue), convs, msgs)}
          /\ queue' = Tail(queue) /\ UNCHANGED <<stage, flushing, ready, opening>>
      BY <1>3, <2>2 DEF Begin, agent, pending, opener
    <3>2. \E r : running' = {r} /\ r.write = Head(queue)
      <4>1. \A convs, msgs : Run(Head(queue), convs, msgs).write = Head(queue)
        BY DEF Run
      <4>2. QED BY <3>1, <4>1
    <3>3. Pending \subseteq Pending'
      BY <2>1, <3>1, <3>2 DEF Pending
    <3>4. QED BY <3>1, <3>3, KeptDriven DEF DriverInv, NoneForgotten
  <2>3. CASE ~db
    <3>1. Settle(Head(queue), FALSE, Tail(queue)) /\ running' = {}
      BY <1>3, <2>1, <2>3 DEF Begin, Reject
    <3>2. Pending \ {Head(queue)} \subseteq Range(Tail(queue)) \cup {r.write : r \in running'}
      BY <2>1 DEF Pending
    <3>3. QED BY <1>1, <1>2, <2>1, <3>1, <3>2, AnsweredDriven
  <2>4. QED BY <2>2, <2>3
<1>4. ASSUME NEW r \in running, Succeeds(r) \/ Fails(r) \/ TimesOut(r)
      PROVE  DriverInv'
  <2>1. \E ok \in BOOLEAN : Settle(r.write, ok, queue)
    BY <1>4 DEF Succeeds, Fails, TimesOut, Reject
  <2>2. running' = running \ {r} /\ UNCHANGED opener
    BY <1>4 DEF Succeeds, Fails, TimesOut
  <2>3. r.write \in Pending
    BY DEF Pending
  <2>4. Pending \ {r.write} \subseteq Range(queue) \cup {s.write : s \in running'}
    BY <2>2 DEF Pending
  <2>5. QED BY <1>1, <1>2, <2>1, <2>2, <2>3, <2>4, AnsweredDriven
<1>5. ASSUME NEW r \in running, Hangs(r) PROVE DriverInv'
  <2>1. /\ running' = (running \ {r}) \cup {[r EXCEPT !.hung = TRUE]}
        /\ UNCHANGED <<stage, ready, opening, flushing, queue>>
    BY <1>5 DEF Hangs, agent, opener, pending
  <2>2. [r EXCEPT !.hung = TRUE].write = r.write
    BY <1>1 DEF Runs
  <2>3. Pending \subseteq Pending'
    BY <2>1, <2>2 DEF Pending
  <2>4. QED BY <2>1, <2>3, KeptDriven DEF DriverInv, NoneForgotten
<1>6. ASSUME NEW r \in running, Works(r) PROVE DriverInv'
  <2>1. PICK s \in After(r) : running' = (running \ {r}) \cup {s}
    BY <1>6 DEF Works
  <2>2. UNCHANGED <<stage, ready, opening, flushing, queue>>
    BY <1>6 DEF Works, agent, opener, pending
  <2>3. s.write = r.write
    BY <1>1, AfterFacts
  <2>4. Pending \subseteq Pending'
    BY <2>1, <2>2, <2>3 DEF Pending
  <2>5. QED BY <2>2, <2>4, KeptDriven DEF DriverInv, NoneForgotten
<1>7. QED BY <1>3, <1>4, <1>5, <1>6

LEMMA PhoneDriven ==
  ASSUME DriverInv, Typed,
         \/ NewConversation \/ DeleteConversation(0) \/ HandlerGivesUp
         \/ \E c \in Convs : \/ NameReads(c) \/ LoadConversation(c)
                             \/ RenameConversation(c) \/ DeleteConversation(c)
                             \/ \E d \in Convs : DeleteMultiple(c, d)
  PROVE  DriverInv'
<1>1. ASSUME UNCHANGED <<stage, opener, flushing, running>>,
             queue' = queue \/ \E x \in Writes : queue' = Append(queue, x)
      PROVE  DriverInv'
  <2>1. Pending \subseteq Pending'
    BY <1>1, AskedDriven
  <2>2. UNCHANGED <<ready, opening>>
    BY <1>1 DEF opener
  <2>3. QED BY <1>1, <2>1, <2>2, KeptDriven DEF DriverInv, NoneForgotten
<1>2. \A k \in Kinds, c \in Convs \cup {0} : Write(k, c, 0) \in Writes
  BY WriteMade DEF Convs
<1>3. CASE NewConversation \/ \E c \in Convs : LoadConversation(c)
  BY <1>1, <1>3 DEF NewConversation, LoadConversation, Request, pending
<1>4. CASE HandlerGivesUp
  BY <1>1, <1>4 DEF HandlerGivesUp, pending
<1>5. ASSUME NEW c \in Convs \cup {0}, DeleteConversation(c) PROVE DriverInv'
  <2>1. queue' = Append(queue, Write(IF c = 0 THEN "clear" ELSE "delete", c, 0))
    BY <1>5 DEF DeleteConversation
  <2>2. Write(IF c = 0 THEN "clear" ELSE "delete", c, 0) \in Writes
    BY <1>2 DEF Kinds
  <2>3. QED BY <1>1, <1>5, <2>1, <2>2 DEF DeleteConversation, Request, pending
<1>6. ASSUME NEW c \in Convs, NameReads(c) \/ RenameConversation(c) PROVE DriverInv'
  <2>1. \/ queue' = queue \/ queue' = Append(queue, Write("name", c, 0))
        \/ queue' = Append(queue, Write("rename", c, 0))
    BY <1>6 DEF NameReads, RenameConversation
  <2>2. Write("name", c, 0) \in Writes /\ Write("rename", c, 0) \in Writes
    BY <1>2 DEF Kinds
  <2>3. QED BY <1>1, <1>6, <2>1, <2>2 DEF NameReads, RenameConversation, Request, pending
<1>7. ASSUME NEW c \in Convs, NEW d \in Convs, DeleteMultiple(c, d) PROVE DriverInv'
  <2>1. queue' = Append(queue, Write("delete", c, 0)) /\ Write("delete", c, 0) \in Writes
    BY <1>2, <1>7 DEF DeleteMultiple, Kinds
  <2>2. QED BY <1>1, <1>7, <2>1 DEF DeleteMultiple, Request, pending
<1>8. QED BY <1>3, <1>4, <1>5, <1>6, <1>7

LEMMA DriverStep == StoreInv /\ DriverInv /\ [StoreNext]_storeVars => DriverInv'
<1> SUFFICES ASSUME StoreInv, DriverInv, [StoreNext]_storeVars PROVE DriverInv'
  OBVIOUS
<1>1. Typed /\ InOrder
  BY DEF StoreInv
<1>2. CASE \E r \in late : LateWorks(r) \/ LateEnds(r)
  <2>1. UNCHANGED <<stage, opening, ready, flushing, queue, running>>
    BY <1>2 DEF LateWorks, LateEnds, agent, opener, pending
  <2>2. Pending' = Pending
    BY <2>1 DEF Pending
  <2>3. QED BY <2>1, <2>2, KeptDriven DEF DriverInv, NoneForgotten
<1>3. CASE UNCHANGED storeVars
  <2>1. UNCHANGED <<stage, opening, ready, flushing, queue, running>>
    BY <1>3 DEF storeVars, agent, opener, pending
  <2>2. Pending' = Pending
    BY <2>1 DEF Pending
  <2>3. QED BY <2>1, <2>2, KeptDriven DEF DriverInv, NoneForgotten
<1>4. QED BY <1>1, <1>2, <1>3, MessageDriven, OpenerDriven, WritesDriven, PhoneDriven
          DEF StoreNext

\* A message that waits, for the store or for the record of its conversation, has
\* what it waits for under way, and so has the flush of the write buffer: no
\* failure, timeout or request in between leaves one of them behind.
THEOREM NoneForgottenCorrect == StoreSpec => []NoneForgotten
<1>1. StoreInit => DriverInv
  BY DEF StoreInit, DriverInv, NoneForgotten
<1>2. DriverInv => NoneForgotten
  BY DEF DriverInv
<1>3. QED BY <1>1, <1>2, StoreInitInv, StoreStepInv, DriverStep, PTL DEF StoreSpec

=============================================================================
