------------------------- MODULE ConversationChain -------------------------
(***************************************************************************)
(* Serialization of user messages inside one conversation.                 *)
(*                                                                         *)
(* handleUserMessage links each message behind the promise stored for its  *)
(* conversation; routeMessage runs it.  Two maps, conversationChains and   *)
(* chainActivity, remember the last promise and the time of the last       *)
(* activity; a one-minute sweep drops entries that were silent for too     *)
(* long; every running message owns a heartbeat that refreshes the         *)
(* activity and a safety-net timeout that stops the heartbeat.             *)
(*                                                                         *)
(* Messages are numbered in arrival order.  Time is discrete: Tick is one  *)
(* sweep interval and cannot pass while a timer or a microtask is due.     *)
(***************************************************************************)
EXTENDS Integers, FiniteSets

CONSTANTS
  Conv,           \* conversation identifiers
  MaxMsgs,        \* bound: messages that ever arrive
  MaxAge,         \* CHAIN_MAX_AGE_MS, in ticks
  Heartbeat,      \* CHAIN_HEARTBEAT_INTERVAL_MS, in ticks
  MaxDispatch,    \* longest time routeMessage takes unless it hangs, in ticks
  MaxHung,        \* bound: dispatches whose promise never settles
  MaxConcurrent,  \* MAX_CONCURRENT_P2P_DISPATCHES
  Capacity,       \* burst of the dispatch token bucket
  Refill          \* tokens the bucket regains in a tick

ASSUME BoundAssumption ==
  MaxMsgs \in Nat /\ MaxDispatch \in Nat /\ MaxHung \in Nat

ASSUME TimingAssumption ==
  MaxAge \in Nat /\ Heartbeat \in Nat /\ 0 < Heartbeat /\ Heartbeat < MaxAge

ASSUME LimitAssumption ==
  MaxConcurrent \in Nat /\ Capacity \in Nat /\ Refill \in Nat

VARIABLES
  arrived,   \* how many messages have arrived
  conv,      \* conversation of each message
  pred,      \* message whose promise a message waits for, 0 for none
  phase,     \* progress of each message
  tail,      \* conversationChains: newest message of the chain, 0 if absent
  age,       \* chainActivity: ticks since the last activity, NoEntry if absent
  beat,      \* heartbeat: ticks since it last fired, Off when cleared
  elapsed,   \* ticks since the message's handler started
  swept,     \* the sweep of this tick has run
  active,    \* activeP2PDispatches
  tokens,    \* dispatchBucket
  reaped     \* history: conversations the sweep has ever reaped

vars == <<arrived, conv, pred, phase, tail, age, beat, elapsed, swept,
          active, tokens, reaped>>

Msgs     == 1..MaxMsgs
NoMsg    == 0
NoEntry  == -1
Off      == -1
SafetyNet == MaxAge + Heartbeat
Horizon  == SafetyNet + MaxDispatch   \* elapsed time saturates here

Phases == {"unsent", "limited", "queued", "routing", "dispatching", "hung",
           "settled"}

Running(m)   == phase[m] \in {"routing", "dispatching", "hung"}
Unsettled(m) == phase[m] = "queued" \/ Running(m)
\* Mutant: a message starts only while its conversation has an entry.
Due_NeedsEntry(m) == /\ phase[m] = "queued"
                     /\ pred[m] # NoMsg => phase[pred[m]] = "settled"
                     /\ tail[conv[m]] # NoMsg
Due(m)       == /\ phase[m] = "queued"
                /\ pred[m] # NoMsg => phase[pred[m]] = "settled"
NetDue(m)    == beat[m] # Off /\ elapsed[m] >= SafetyNet

TypeOK ==
  /\ arrived \in 0..MaxMsgs
  /\ conv \in [Msgs -> Conv]
  /\ pred \in [Msgs -> 0..MaxMsgs]
  /\ phase \in [Msgs -> Phases]
  /\ tail \in [Conv -> 0..MaxMsgs]
  /\ age \in [Conv -> NoEntry..MaxAge + 1]
  /\ beat \in [Msgs -> Off..Heartbeat]
  /\ elapsed \in [Msgs -> 0..Horizon]
  /\ swept \in BOOLEAN
  /\ active \in Nat
  /\ tokens \in 0..Capacity
  /\ reaped \subseteq Conv

Init ==
  /\ arrived = 0
  /\ conv \in [Msgs -> Conv]
  /\ pred = [m \in Msgs |-> NoMsg]
  /\ phase = [m \in Msgs |-> "unsent"]
  /\ tail = [c \in Conv |-> NoMsg]
  /\ age = [c \in Conv |-> NoEntry]
  /\ beat = [m \in Msgs |-> Off]
  /\ elapsed = [m \in Msgs |-> 0]
  /\ swept = FALSE
  /\ active = 0
  /\ tokens = Capacity
  /\ reaped = {}

----------------------------------------------------------------------------
\* handleUserMessage: the next message arrives over IPC.

RateLimited(m) ==
  /\ tokens = 0
  /\ arrived' = m
  /\ phase' = [phase EXCEPT ![m] = "limited"]
  /\ UNCHANGED <<conv, pred, tail, age, beat, elapsed, swept, active, tokens,
                 reaped>>

Enqueue(m) ==
  /\ tokens > 0
  /\ tokens' = tokens - 1
  /\ arrived' = m
  /\ phase' = [phase EXCEPT ![m] = "queued"]
  /\ pred' = [pred EXCEPT ![m] = tail[conv[m]]]
  /\ tail' = [tail EXCEPT ![conv[m]] = m]
  /\ age' = [age EXCEPT ![conv[m]] = 0]
  /\ UNCHANGED <<conv, beat, elapsed, swept, active, reaped>>

HandleUserMessage ==
  /\ arrived < MaxMsgs
  /\ RateLimited(arrived + 1) \/ Enqueue(arrived + 1)

\* The promise the message waits for has settled: its handler starts.
Start(m) ==
  /\ Due(m)
  /\ phase' = [phase EXCEPT ![m] = "routing"]
  /\ beat' = [beat EXCEPT ![m] = 0]
  /\ elapsed' = [elapsed EXCEPT ![m] = 0]
  /\ UNCHANGED <<arrived, conv, pred, tail, age, swept, active, tokens, reaped>>

----------------------------------------------------------------------------
\* Mutant: a settled chain deletes the entry even if a newer chain replaced it.
Settle_Unconditional(m) ==
  /\ phase' = [phase EXCEPT ![m] = "settled"]
  /\ beat' = [beat EXCEPT ![m] = Off]
  /\ tail' = [tail EXCEPT ![conv[m]] = NoMsg]
  /\ age' = [age EXCEPT ![conv[m]] = NoEntry]
  /\ UNCHANGED <<arrived, conv, pred, elapsed, swept, tokens, reaped>>

\* The handler's finally block clears both timers; the chain's own finally
\* frees the conversation's slot unless a newer message took it over.
Settle(m) ==
  /\ phase' = [phase EXCEPT ![m] = "settled"]
  /\ beat' = [beat EXCEPT ![m] = Off]
  /\ tail' = [tail EXCEPT ![conv[m]] = IF @ = m THEN NoMsg ELSE @]
  /\ age' = [age EXCEPT ![conv[m]] = IF tail[conv[m]] = m THEN NoEntry ELSE @]
  /\ UNCHANGED <<arrived, conv, pred, elapsed, swept, tokens, reaped>>

\* routeMessage: a control message is blocked, or a slash command answered.
RouteWithoutPlugin(m) ==
  /\ phase[m] = "routing"
  /\ Settle(m)
  /\ UNCHANGED active

\* Backpressure ceiling: too many dispatches in flight.
RejectBusy(m) ==
  /\ phase[m] = "routing"
  /\ active >= MaxConcurrent
  /\ Settle(m)
  /\ UNCHANGED active

RouteToPlugin(m) ==
  /\ phase[m] = "routing"
  /\ active < MaxConcurrent
  /\ active' = active + 1
  /\ phase' = [phase EXCEPT ![m] = "dispatching"]
  /\ UNCHANGED <<arrived, conv, pred, tail, age, beat, elapsed, swept, tokens,
                 reaped>>

\* The plugin's promise settles; the finally block takes the message off the
\* counter.
DispatchSettles(m) ==
  /\ phase[m] = "dispatching"
  /\ active' = IF active > 0 THEN active - 1 ELSE 0
  /\ Settle(m)

\* The plugin's promise will never settle (crashed or deadlocked plugin).
DispatchHangs(m) ==
  /\ phase[m] = "dispatching"
  /\ Cardinality({n \in Msgs : phase[n] = "hung"}) < MaxHung
  /\ phase' = [phase EXCEPT ![m] = "hung"]
  /\ UNCHANGED <<arrived, conv, pred, tail, age, beat, elapsed, swept, active,
                 tokens, reaped>>

Route(m) == RouteWithoutPlugin(m) \/ RejectBusy(m) \/ RouteToPlugin(m)

----------------------------------------------------------------------------
\* Timers.

\* Mutant: the heartbeat does not refresh the activity.
HeartbeatFires_NoRefresh(m) ==
  /\ beat[m] = Heartbeat
  /\ beat' = [beat EXCEPT ![m] = 0]
  /\ UNCHANGED <<arrived, conv, pred, phase, tail, age, elapsed, swept, active,
                 tokens, reaped>>

\* refreshChainActivity, guarded by hasChainActivity: it looks the entry up by
\* conversation, whichever chain the entry belongs to by now.
HeartbeatFires(m) ==
  /\ beat[m] = Heartbeat
  /\ beat' = [beat EXCEPT ![m] = 0]
  /\ age' = [age EXCEPT ![conv[m]] = IF @ = NoEntry THEN NoEntry ELSE 0]
  /\ UNCHANGED <<arrived, conv, pred, phase, tail, elapsed, swept, active,
                 tokens, reaped>>

SafetyNetFires(m) ==
  /\ NetDue(m)
  /\ beat' = [beat EXCEPT ![m] = Off]
  /\ UNCHANGED <<arrived, conv, pred, phase, tail, age, elapsed, swept, active,
                 tokens, reaped>>

Stale == {c \in Conv : age[c] > MaxAge}

Sweep ==
  /\ ~swept
  /\ swept' = TRUE
  /\ tail' = [c \in Conv |-> IF c \in Stale THEN NoMsg ELSE tail[c]]
  /\ age' = [c \in Conv |-> IF c \in Stale THEN NoEntry ELSE age[c]]
  /\ reaped' = reaped \union Stale
  /\ UNCHANGED <<arrived, conv, pred, phase, beat, elapsed, active, tokens>>

\* Time passes once nothing is due any more.
Tick ==
  /\ swept
  /\ \A m \in Msgs :
       /\ ~Due(m)
       /\ beat[m] # Heartbeat
       /\ ~NetDue(m)
       /\ phase[m] \in {"routing", "dispatching"} => elapsed[m] < MaxDispatch
  /\ swept' = FALSE
  /\ tokens' = IF tokens + Refill > Capacity THEN Capacity ELSE tokens + Refill
  /\ age' = [c \in Conv |-> IF age[c] \in 0..MaxAge THEN age[c] + 1 ELSE age[c]]
  /\ beat' = [m \in Msgs |-> IF beat[m] = Off THEN Off ELSE beat[m] + 1]
  /\ elapsed' = [m \in Msgs |-> IF Running(m) /\ elapsed[m] < Horizon
                                THEN elapsed[m] + 1 ELSE elapsed[m]]
  /\ UNCHANGED <<arrived, conv, pred, phase, tail, active, reaped>>

----------------------------------------------------------------------------
Step(m) ==
  \/ Start(m)
  \/ Route(m)
  \/ DispatchSettles(m)
  \/ DispatchHangs(m)
  \/ HeartbeatFires(m)
  \/ SafetyNetFires(m)

Next == HandleUserMessage \/ (\E m \in Msgs : Step(m)) \/ Sweep \/ Tick

Spec == Init /\ [][Next]_vars

\* The event loop runs every microtask and timer that is due; a dispatch that
\* does not hang settles.  Nothing forces a message to arrive or to hang.
Fairness ==
  /\ WF_vars(Tick)
  /\ WF_vars(Sweep)
  /\ \A m \in Msgs :
       /\ WF_vars(Start(m))
       /\ WF_vars(Route(m))
       /\ WF_vars(DispatchSettles(m) \/ DispatchHangs(m))
       /\ WF_vars(HeartbeatFires(m))
       /\ WF_vars(SafetyNetFires(m))

FairSpec == Spec /\ Fairness

----------------------------------------------------------------------------
(* Properties.                                                             *)

\* Until the sweep has reaped a conversation, its messages run one at a time
\* and in arrival order: a running message is the oldest unsettled one and the
\* only one running (the promise chain of handleUserMessage).
OldestRunsAlone ==
  \A m, n \in Msgs :
    /\ conv[m] = conv[n]
    /\ conv[m] \notin reaped
    /\ Running(m)
    /\ Unsettled(n)
    => m <= n /\ (Running(n) => m = n)

\* The two maps hold the same conversations, and an entry always stands for a
\* message that has not settled: no entry outlives its chain, so the maps do
\* not grow with the conversations ever seen.
EntriesAreLive ==
  \A c \in Conv :
    /\ tail[c] = NoMsg <=> age[c] = NoEntry
    /\ tail[c] # NoMsg => Unsettled(tail[c]) /\ conv[tail[c]] = c

\* activeP2PDispatches counts exactly the plugin dispatches in flight, also
\* when chains are reaped, dispatches hang or conversations overlap, and it
\* never passes the backpressure ceiling.
InFlight == {m \in Msgs : phase[m] \in {"dispatching", "hung"}}
CounterExact == active = Cardinality(InFlight) /\ active <= MaxConcurrent

\* The sweep never reaps a conversation one of whose dispatches has an armed
\* heartbeat that has been running for a full period.  (It can reap one whose
\* heartbeat has not had its first chance to fire.)
ReapSparesBeatingDispatch ==
  [][Sweep => \A m \in Msgs :
       Running(m) /\ beat[m] # Off /\ elapsed[m] > Heartbeat
         => conv[m] \notin Stale]_vars

\* A queued message is eventually started unless an older message of its
\* conversation hangs: reaping the entry of a chain does not lose the messages
\* already linked behind it.
QueuedIsStarted ==
  \A m \in Msgs :
    phase[m] = "queued" ~>
      \/ phase[m] # "queued"
      \/ \E n \in Msgs : n < m /\ conv[n] = conv[m] /\ phase[n] = "hung"

(* What the comments of the code say of the sweep and the heartbeat.       *)

\* conversation-chain.ts:55 "Must be shorter than CHAIN_MAX_AGE_MS so the sweep
\* never fires while the heartbeat is active."
SweepSparesHeartbeat ==
  [][\A m \in Msgs :
       Running(m) /\ beat[m] # Off => conv[m] \notin reaped' \ reaped]_vars

\* conversation-chain.ts:5 "ensuring messages within the same conversation are
\* processed sequentially", a dispatch running at most 30 minutes (line 48).
Sequential ==
  \A m, n \in Msgs :
    conv[m] = conv[n] /\ Running(m) /\ Running(n) => m = n

\* agent-message-handlers.ts:190 "by that point the sweep has already reaped
\* the chain and the heartbeat is doing nothing".
NetFindsReapedChain ==
  [][\A m \in Msgs : SafetyNetFires(m) => conv[m] \in reaped]_vars
============================================================================
