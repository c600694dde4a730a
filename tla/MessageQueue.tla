---------------------------- MODULE MessageQueue ----------------------------
(***************************************************************************)
(* The daemon's MessageQueue: one consumer loop, a bounded FIFO, lock and  *)
(* unlock, and abortAndDrain, which empties the queue and makes the        *)
(* dispatch in flight keep quiet.                                          *)
(*                                                                         *)
(* Items are numbered in arrival order, so the array of the code is the    *)
(* set of queued items and its head the smallest of them.  processQueue    *)
(* runs without interruption from one await of dispatch to the next, so    *)
(* each action below runs it that far.                                     *)
(***************************************************************************)
EXTENDS Integers, FiniteSets

CONSTANTS
  MaxItems,    \* bound: calls of enqueue
  MaxDepth,    \* maxDepth
  MaxAborts    \* bound: calls of abortAndDrain

ASSUME QueueAssumption ==
  MaxItems \in Nat /\ MaxDepth \in Nat \ {0} /\ MaxAborts \in Nat

VARIABLES
  st,          \* what became of each item
  arrived,     \* how many items have been offered to enqueue
  processing, aborted, locked, epoch,
  runEpoch,    \* epoch captured for the item in flight
  cooling,     \* a backpressure signal was sent less than 10 s ago
  signals,     \* history: the enqueues that signalled backpressure
  stale,       \* history: items queued or in flight at an abortAndDrain
  window       \* history: items accepted while the loop was to be aborted

vars == <<st, arrived, processing, aborted, locked, epoch, runEpoch, cooling,
          signals, stale, window>>

Items  == 1..MaxItems
Status == {"new", "queued", "inFlight", "answered", "suppressed", "dropped",
           "drained"}

QueuedIn(s) == {i \in Items : s[i] = "queued"}
Queue       == QueuedIn(st)
InFlight    == {i \in Items : st[i] = "inFlight"}

Threshold == (MaxDepth * 4) \div 5        \* Math.floor(maxDepth * 0.8)

\* The type invariant includes the bound on the queue and the single consumer.
TypeOK ==
  /\ Cardinality(Queue) <= MaxDepth
  /\ \A i, j \in InFlight : i = j
  /\ st \in [Items -> Status]
  /\ arrived \in 0..MaxItems
  /\ processing \in BOOLEAN /\ aborted \in BOOLEAN /\ locked \in BOOLEAN
  /\ epoch \in 0..MaxAborts /\ runEpoch \in 0..MaxAborts
  /\ cooling \in BOOLEAN
  /\ signals \subseteq Items /\ stale \subseteq Items /\ window \subseteq Items

Init ==
  /\ st = [i \in Items |-> "new"]
  /\ arrived = 0
  /\ processing = FALSE /\ aborted = FALSE /\ locked = FALSE
  /\ epoch = 0 /\ runEpoch = 0
  /\ cooling = FALSE
  /\ signals = {} /\ stale = {} /\ window = {}

----------------------------------------------------------------------------
\* Mutant: processQueue takes the newest item.
ProcessQueue_Pop(s, busy) ==
  IF busy \/ QueuedIn(s) = {} \/ locked'
  THEN st' = s /\ processing' = busy /\ UNCHANGED runEpoch
  ELSE \E i \in QueuedIn(s) :
         /\ \A j \in QueuedIn(s) : j <= i
         /\ st' = [s EXCEPT ![i] = "inFlight"]
         /\ processing' = TRUE
         /\ runEpoch' = epoch

\* processQueue entered with status s: nothing to do, or shift the oldest
\* item and dispatch it under the current epoch.
ProcessQueue(s, busy) ==
  IF busy \/ QueuedIn(s) = {} \/ locked'
  THEN st' = s /\ processing' = busy /\ UNCHANGED runEpoch
  ELSE \E i \in QueuedIn(s) :
         /\ \A j \in QueuedIn(s) : i <= j
         /\ st' = [s EXCEPT ![i] = "inFlight"]
         /\ processing' = TRUE
         /\ runEpoch' = epoch

Full == Cardinality(Queue) >= MaxDepth

EnqueueDropped(i) ==
  /\ Full
  /\ st' = [st EXCEPT ![i] = "dropped"]
  /\ arrived' = i
  /\ UNCHANGED <<processing, aborted, locked, epoch, runEpoch, cooling,
                 signals, stale, window>>

EnqueueAccepted(i) ==
  /\ ~Full
  /\ arrived' = i
  /\ window' = IF aborted THEN window \union {i} ELSE window
  /\ IF Cardinality(Queue) >= Threshold /\ ~cooling
     THEN cooling' = TRUE /\ signals' = signals \union {i}
     ELSE UNCHANGED <<cooling, signals>>
  /\ UNCHANGED <<aborted, locked, epoch, stale>>
  /\ ProcessQueue([st EXCEPT ![i] = "queued"], processing)

Enqueue ==
  /\ arrived < MaxItems
  /\ EnqueueDropped(arrived + 1) \/ EnqueueAccepted(arrived + 1)

\* Mutant: the waiting items survive the switch of conversation.
AbortAndDrain_KeepsQueue ==
  /\ epoch < MaxAborts
  /\ aborted' = (aborted \/ processing)
  /\ epoch' = epoch + 1
  /\ stale' = stale \union Queue \union InFlight
  /\ UNCHANGED <<st, arrived, processing, locked, runEpoch, cooling, signals, window>>

AbortAndDrain ==
  /\ epoch < MaxAborts
  /\ st' = [i \in Items |-> IF st[i] = "queued" THEN "drained" ELSE st[i]]
  /\ aborted' = (aborted \/ processing)
  /\ epoch' = epoch + 1
  /\ stale' = stale \union Queue \union InFlight
  /\ UNCHANGED <<arrived, processing, locked, runEpoch, cooling, signals, window>>

Lock ==
  /\ locked' = TRUE
  /\ UNCHANGED <<st, arrived, processing, aborted, epoch, runEpoch, cooling,
                 signals, stale, window>>

\* Mutant: unlock does not kick the loop.
Unlock_NoKick ==
  /\ locked' = FALSE
  /\ UNCHANGED <<st, arrived, processing, aborted, epoch, runEpoch, cooling,
                 signals, stale, window>>

Unlock ==
  /\ locked' = FALSE
  /\ UNCHANGED <<arrived, aborted, epoch, cooling, signals, stale, window>>
  /\ ProcessQueue(st, processing)

\* The dispatch in flight settles, successfully or not: it is reported unless
\* the loop was aborted or the epoch moved on.  Then the while loop takes the
\* next item; when it ends, by exhaustion or by the aborted flag, the finally
\* block resets the flags and starts processQueue again if items are left.
DispatchSettles(i) ==
  /\ st[i] = "inFlight"
  /\ aborted' = FALSE
  /\ UNCHANGED <<arrived, locked, epoch, cooling, signals, stale, window>>
  /\ LET s == [st EXCEPT ![i] = IF ~aborted /\ runEpoch = epoch
                                THEN "answered" ELSE "suppressed"]
     IN IF aborted \/ QueuedIn(s) = {}
        THEN ProcessQueue(s, FALSE)
        ELSE \E j \in QueuedIn(s) :
               /\ \A k \in QueuedIn(s) : j <= k
               /\ st' = [s EXCEPT ![j] = "inFlight"]
               /\ runEpoch' = epoch
               /\ UNCHANGED processing

\* BACKPRESSURE_SIGNAL_COOLDOWN_MS has passed.
CooldownOver ==
  /\ cooling
  /\ cooling' = FALSE
  /\ UNCHANGED <<st, arrived, processing, aborted, locked, epoch, runEpoch,
                 signals, stale, window>>

Next ==
  \/ Enqueue \/ AbortAndDrain \/ Lock \/ Unlock \/ CooldownOver
  \/ \E i \in Items : DispatchSettles(i)

Spec == Init /\ [][Next]_vars

\* Dispatches settle (the plugin layer bounds them), and every lock is paired
\* with an unlock, as lock() demands of its callers.
FairSpec ==
  /\ Spec
  /\ WF_vars(\E i \in Items : DispatchSettles(i))
  /\ WF_vars(locked /\ Unlock)

----------------------------------------------------------------------------
(* Properties.                                                             *)

\* What was waiting or running when the user switched conversation is never
\* reported, however late its dispatch settles and whatever was enqueued,
\* locked or aborted in between (abortAndDrain, the epoch and aborted checks).
StaleIsSilent == \A i \in stale : st[i] # "answered"

\* The loop never sleeps over a queue that has items and is not locked: each
\* of the four places that can leave items behind starts it again.
NotStalled == Queue # {} /\ ~locked => processing

\* Nobody loses a message to overflow without an earlier warning at 80 %: the
\* client of a dropped item was sent queue_backpressure before.
WarnedBeforeDrop ==
  \A i \in Items : st[i] = "dropped" => \E j \in signals : j < i

\* An accepted item is served or drained: no order of locks, aborts and
\* settling dispatches strands it.
QueuedIsServed == \A i \in Items : st[i] = "queued" ~> st[i] # "queued"

\* The queue is a FIFO service with one server: FifoService under the mapping
\* of its stages.
Stage(x) == CASE x = "new"      -> "new"
              [] x = "queued"   -> "waiting"
              [] x = "inFlight" -> "serving"
              [] OTHER          -> "over"
Service == INSTANCE FifoService WITH stage <- [i \in Items |-> Stage(st[i])]
IsFifoService == Service!Spec

\* queue.ts:121 "discarding any items that arrived between the drain and the
\* loop check".
DrainWindowDiscarded ==
  \A i \in window : st[i] \notin {"inFlight", "answered"}
============================================================================
