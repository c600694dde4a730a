---------------------- MODULE ConversationChain_proofs ----------------------
(***************************************************************************)
(* Proofs about ConversationChain, for every number of conversations and   *)
(* messages and every timing with Heartbeat < MaxAge.                      *)
(***************************************************************************)
EXTENDS ConversationChain, FiniteSetTheorems, TLAPS

----------------------------------------------------------------------------
(* Type correctness.                                                       *)

\* Settling a message, whichever way it ends, keeps the types.
LEMMA SettleType ==
  ASSUME TypeOK, NEW m \in Msgs, Settle(m), active' \in Nat
  PROVE  TypeOK'
<1>1. phase' \in [Msgs -> Phases]
  BY DEF TypeOK, Settle, Phases
<1>2. beat' \in [Msgs -> Off..Heartbeat]
  BY TimingAssumption DEF TypeOK, Settle, Off
<1>3. tail' \in [Conv -> 0..MaxMsgs]
  BY BoundAssumption DEF TypeOK, Settle, NoMsg
<1>4. age' \in [Conv -> NoEntry..MaxAge + 1]
  BY TimingAssumption DEF TypeOK, Settle, NoEntry
<1>5. QED BY <1>1, <1>2, <1>3, <1>4 DEF TypeOK, Settle

\* Every variable stays within its type, for all bounds.
THEOREM TypeCorrect == Spec => []TypeOK
<1>1. Init => TypeOK
  <2> SUFFICES ASSUME Init PROVE TypeOK
    OBVIOUS
  <2>1. /\ arrived \in 0..MaxMsgs
        /\ tail \in [Conv -> 0..MaxMsgs]
        /\ pred \in [Msgs -> 0..MaxMsgs]
    BY BoundAssumption DEF Init, NoMsg
  <2>2. age \in [Conv -> NoEntry..MaxAge + 1] /\ beat \in [Msgs -> Off..Heartbeat]
    BY TimingAssumption DEF Init, NoEntry, Off
  <2>3. elapsed \in [Msgs -> 0..Horizon] /\ tokens \in 0..Capacity
    BY BoundAssumption, TimingAssumption, LimitAssumption
       DEF Init, SafetyNet, Horizon
  <2>4. QED BY <2>1, <2>2, <2>3 DEF Init, TypeOK, Phases
<1>2. TypeOK /\ [Next]_vars => TypeOK'
  <2> SUFFICES ASSUME TypeOK, [Next]_vars PROVE TypeOK'
    OBVIOUS
  <2>1. CASE HandleUserMessage
    <3>1. arrived + 1 \in Msgs /\ arrived + 1 \in 0..MaxMsgs
      BY <2>1, BoundAssumption DEF TypeOK, HandleUserMessage, Msgs
    <3>2. CASE RateLimited(arrived + 1)
      BY <3>1, <3>2 DEF TypeOK, RateLimited, Phases
    <3>3. CASE Enqueue(arrived + 1)
      <4>1. age' \in [Conv -> NoEntry..MaxAge + 1]
        BY <3>1, <3>3, TimingAssumption DEF TypeOK, Enqueue, NoEntry
      <4>2. tokens' \in 0..Capacity
        BY <3>3, LimitAssumption DEF TypeOK, Enqueue
      <4>3. QED BY <3>1, <3>3, <4>1, <4>2 DEF TypeOK, Enqueue, Phases
    <3>4. QED BY <2>1, <3>2, <3>3 DEF HandleUserMessage
  <2>2. ASSUME NEW m \in Msgs, Step(m) PROVE TypeOK'
    <3>1. CASE Start(m)
      BY <3>1, BoundAssumption, TimingAssumption
         DEF TypeOK, Start, Phases, Off, SafetyNet, Horizon
    <3>2. CASE RouteWithoutPlugin(m) \/ RejectBusy(m) \/ DispatchSettles(m)
      <4>1. Settle(m) /\ active' \in Nat
        BY <3>2 DEF TypeOK, RouteWithoutPlugin, RejectBusy, DispatchSettles
      <4>2. QED BY <4>1, SettleType
    <3>3. CASE RouteToPlugin(m) \/ DispatchHangs(m)
      BY <3>3 DEF TypeOK, RouteToPlugin, DispatchHangs, Phases
    <3>4. CASE HeartbeatFires(m)
      BY <3>4, TimingAssumption DEF TypeOK, HeartbeatFires, NoEntry, Off
    <3>5. CASE SafetyNetFires(m)
      BY <3>5, TimingAssumption DEF TypeOK, SafetyNetFires, Off
    <3>6. QED BY <2>2, <3>1, <3>2, <3>3, <3>4, <3>5 DEF Step, Route
  <2>3. CASE Sweep
    <3>1. tail' \in [Conv -> 0..MaxMsgs]
      BY <2>3, BoundAssumption DEF TypeOK, Sweep, NoMsg
    <3>2. age' \in [Conv -> NoEntry..MaxAge + 1]
      BY <2>3, TimingAssumption DEF TypeOK, Sweep, NoEntry
    <3>3. QED BY <2>3, <3>1, <3>2 DEF TypeOK, Sweep, Stale
  <2>4. CASE Tick
    <3>1. age' \in [Conv -> NoEntry..MaxAge + 1]
      BY <2>4, TimingAssumption DEF TypeOK, Tick, NoEntry
    <3>2. beat' \in [Msgs -> Off..Heartbeat]
      BY <2>4, TimingAssumption DEF TypeOK, Tick, Off
    <3>3. elapsed' \in [Msgs -> 0..Horizon]
      BY <2>4, BoundAssumption, TimingAssumption
         DEF TypeOK, Tick, SafetyNet, Horizon
    <3>4. tokens' \in 0..Capacity
      BY <2>4, LimitAssumption DEF TypeOK, Tick
    <3>5. QED BY <2>4, <3>1, <3>2, <3>3, <3>4 DEF TypeOK, Tick
  <2>5. CASE UNCHANGED vars
    BY <2>5 DEF TypeOK, vars
  <2>6. QED BY <2>1, <2>2, <2>3, <2>4, <2>5 DEF Next
<1>3. QED BY <1>1, <1>2, PTL DEF Spec

\* What a message waits for is nothing or another message.
LEMMA PredIsMessage ==
  ASSUME TypeOK, NEW n \in Msgs, pred[n] # NoMsg
  PROVE  pred[n] \in Msgs
<1>1. pred[n] \in 0..MaxMsgs
  BY DEF TypeOK
<1>2. QED BY <1>1, BoundAssumption DEF Msgs, NoMsg

----------------------------------------------------------------------------
(* Messages are numbered in arrival order.                                 *)

\* A message that has not arrived has not been touched.
Fresh == \A m \in Msgs : m > arrived => phase[m] = "unsent"

\* Arrivals are the only way out of "unsent", and they go in order.
LEMMA FreshHolds == Spec => []Fresh
<1>1. Init => Fresh
  BY DEF Init, Fresh
<1>2. TypeOK /\ Fresh /\ [Next]_vars => Fresh'
  <2> SUFFICES ASSUME TypeOK, Fresh, [Next]_vars PROVE Fresh'
    OBVIOUS
  <2>1. CASE HandleUserMessage
    <3>1. arrived' = arrived + 1
      BY <2>1 DEF HandleUserMessage, RateLimited, Enqueue
    <3>2. \A m \in Msgs : m # arrived + 1 => phase'[m] = phase[m]
      BY <2>1 DEF TypeOK, HandleUserMessage, RateLimited, Enqueue
    <3>3. \A m \in Msgs : m > arrived + 1 => m > arrived /\ m # arrived + 1
      BY BoundAssumption DEF TypeOK, Msgs
    <3>4. QED BY <3>1, <3>2, <3>3 DEF Fresh
  <2>2. ASSUME NEW m \in Msgs, Step(m) PROVE Fresh'
    <3>1. phase[m] # "unsent" \/ UNCHANGED phase
      BY <2>2 DEF Step, Start, Due, Route, RouteWithoutPlugin, RejectBusy,
                  RouteToPlugin, DispatchSettles, DispatchHangs,
                  HeartbeatFires, SafetyNetFires
    <3>2. /\ UNCHANGED arrived
          /\ \A n \in Msgs : n # m => phase'[n] = phase[n]
      BY <2>2 DEF TypeOK, Step, Start, Route, RouteWithoutPlugin, RejectBusy,
                  RouteToPlugin, DispatchSettles, DispatchHangs, Settle,
                  HeartbeatFires, SafetyNetFires
    <3>3. QED BY <3>1, <3>2 DEF Fresh
  <2>3. CASE Sweep \/ Tick \/ UNCHANGED vars
    BY <2>3 DEF Fresh, Sweep, Tick, vars
  <2>4. QED BY <2>1, <2>2, <2>3 DEF Next
<1>3. QED BY <1>1, <1>2, TypeCorrect, PTL DEF Spec

\* The next message is a message, numbered after all that are unsettled.
LEMMA NextMessage ==
  ASSUME TypeOK, Fresh, arrived < MaxMsgs
  PROVE  /\ arrived + 1 \in Msgs
         /\ arrived + 1 # NoMsg
         /\ ~Unsettled(arrived + 1)
         /\ \A n \in Msgs : Unsettled(n) => n < arrived + 1
BY BoundAssumption DEF TypeOK, Fresh, Msgs, NoMsg, Unsettled, Running

----------------------------------------------------------------------------
(* The maps hold live entries only.                                        *)

\* Settling a message clears its entry if it is still the tail, so entries
\* stay live.
LEMMA SettleEntries ==
  ASSUME TypeOK, EntriesAreLive, NEW m \in Msgs, Settle(m)
  PROVE  EntriesAreLive'
<1> SUFFICES ASSUME NEW c \in Conv
             PROVE  /\ tail'[c] = NoMsg <=> age'[c] = NoEntry
                    /\ tail'[c] # NoMsg => /\ Unsettled(tail[c])'
                                           /\ conv'[tail'[c]] = c
  BY DEF EntriesAreLive
<1>1. CASE tail[c] = m
  BY <1>1, BoundAssumption
     DEF TypeOK, EntriesAreLive, Settle, Unsettled, Running
<1>2. CASE tail[c] # m
  BY <1>2, BoundAssumption
     DEF TypeOK, EntriesAreLive, Settle, Unsettled, Running
<1>3. QED BY <1>1, <1>2

\* conversationChains and chainActivity always agree and never keep an entry
\* for a chain that has settled.
THEOREM EntriesLive == Spec => []EntriesAreLive
<1>1. Init => EntriesAreLive
  BY DEF Init, EntriesAreLive
<1>2. TypeOK /\ Fresh /\ EntriesAreLive /\ [Next]_vars => EntriesAreLive'
  <2> SUFFICES ASSUME TypeOK, Fresh, EntriesAreLive, [Next]_vars
               PROVE  EntriesAreLive'
    OBVIOUS
  <2>1. CASE HandleUserMessage
    <3> DEFINE m == arrived + 1
    <3>1. m \in Msgs /\ m # NoMsg /\ ~Unsettled(m)
      BY <2>1, NextMessage DEF HandleUserMessage
    <3>2. CASE RateLimited(m)
      BY <3>1, <3>2 DEF TypeOK, EntriesAreLive, RateLimited, Unsettled, Running
    <3>3. CASE Enqueue(m)
      BY <3>1, <3>3 DEF TypeOK, EntriesAreLive, Enqueue, Unsettled, Running,
                        NoEntry
    <3>4. QED BY <2>1, <3>2, <3>3 DEF HandleUserMessage
  <2>2. ASSUME NEW m \in Msgs, Step(m) PROVE EntriesAreLive'
    <3>1. CASE Start(m)
      BY <3>1 DEF TypeOK, EntriesAreLive, Start, Due, Unsettled, Running
    <3>2. CASE RouteWithoutPlugin(m) \/ RejectBusy(m) \/ DispatchSettles(m)
      BY <3>2, SettleEntries DEF RouteWithoutPlugin, RejectBusy, DispatchSettles
    <3>3. CASE RouteToPlugin(m)
      BY <3>3 DEF TypeOK, EntriesAreLive, RouteToPlugin, Unsettled, Running
    <3>4. CASE DispatchHangs(m)
      BY <3>4 DEF TypeOK, EntriesAreLive, DispatchHangs, Unsettled, Running
    <3>5. CASE HeartbeatFires(m)
      BY <3>5 DEF TypeOK, EntriesAreLive, HeartbeatFires, Unsettled, Running,
                  NoEntry
    <3>6. CASE SafetyNetFires(m)
      BY <3>6 DEF TypeOK, EntriesAreLive, SafetyNetFires, Unsettled, Running
    <3>7. QED BY <2>2, <3>1, <3>2, <3>3, <3>4, <3>5, <3>6 DEF Step, Route
  <2>3. CASE Sweep
    BY <2>3 DEF TypeOK, EntriesAreLive, Sweep, Stale, Unsettled, Running
  <2>4. CASE Tick
    <3>1. \A c \in Conv : age'[c] = NoEntry <=> age[c] = NoEntry
      BY <2>4, TimingAssumption DEF TypeOK, Tick, NoEntry
    <3>2. QED BY <2>4, <3>1 DEF TypeOK, EntriesAreLive, Tick, Unsettled, Running
  <2>5. CASE UNCHANGED vars
    BY <2>5 DEF EntriesAreLive, vars, Unsettled, Running
  <2>6. QED BY <2>1, <2>2, <2>3, <2>4, <2>5 DEF Next
<1>3. QED BY <1>1, <1>2, TypeCorrect, FreshHolds, PTL DEF Spec

----------------------------------------------------------------------------
(* Serialization.  In a conversation that was never reaped the unsettled   *)
(* messages form one list: only the oldest may run, every other one waits  *)
(* for its immediate predecessor, and the map holds the newest.  Each part *)
(* is needed: OldestRunsAlone alone does not say whom the next message of  *)
(* the conversation will be linked behind.                                 *)

Pending(c) == {m \in Msgs : conv[m] = c /\ Unsettled(m)}
Ready(m)   == Running(m) \/ Due(m)

OnlyOldestReady(c) ==
  \A m, n \in Pending(c) : Ready(m) => m <= n

LinkedInOrder(c) ==
  \A n \in Pending(c) : ~Ready(n) =>
    /\ pred[n] \in Pending(c)
    /\ pred[n] < n
    /\ \A k \in Pending(c) : ~(pred[n] < k /\ k < n)

TailIsNewest(c) ==
  IF tail[c] = NoMsg THEN Pending(c) = {}
  ELSE tail[c] \in Pending(c) /\ \A n \in Pending(c) : n <= tail[c]

Chain(c) == OnlyOldestReady(c) /\ LinkedInOrder(c) /\ TailIsNewest(c)
ChainInv == \A c \in Conv : c \notin reaped => Chain(c)

\* The list is what the state says, so a step that leaves it alone keeps it.
LEMMA ChainFrame ==
  ASSUME NEW c \in Conv, Chain(c),
         Pending(c)' = Pending(c), tail'[c] = tail[c],
         \A m \in Pending(c) : pred'[m] = pred[m] /\ (Ready(m)' <=> Ready(m))
  PROVE  Chain(c)'
BY DEF Chain, OnlyOldestReady, LinkedInOrder, TailIsNewest

\* A new message is linked behind the newest one, or runs if there is none.
LEMMA ChainEnqueue ==
  ASSUME TypeOK, Fresh, arrived < MaxMsgs,
         NEW m \in Msgs, m = arrived + 1, Enqueue(m),
         NEW c \in Conv, Chain(c)
  PROVE  Chain(c)'
<1>1. /\ m # NoMsg /\ ~Unsettled(m)
      /\ \A n \in Msgs : Unsettled(n) => n < m
  BY NextMessage
<1>2. \A n \in Msgs : n # m => /\ phase'[n] = phase[n]
                               /\ pred'[n] = pred[n]
                               /\ conv'[n] = conv[n]
  BY DEF TypeOK, Enqueue
<1>3. /\ phase'[m] = "queued"
      /\ pred'[m] = tail[conv[m]]
      /\ conv'[m] = conv[m]
  BY <1>1 DEF TypeOK, Enqueue
<1>4. \A n \in Pending(c) :
        /\ n \in Msgs /\ n # m /\ n < m
        /\ Ready(n)' <=> Ready(n)
  <2> SUFFICES ASSUME NEW n \in Pending(c)
               PROVE  /\ n \in Msgs /\ n # m /\ n < m
                      /\ Ready(n)' <=> Ready(n)
    OBVIOUS
  <2>1. n \in Msgs /\ n # m /\ n < m
    BY <1>1 DEF Pending
  <2>2. CASE pred[n] = m
    <3>1. ~Ready(n) => pred[n] \in Pending(c)
      BY DEF Chain, LinkedInOrder
    <3>2. Ready(n)
      BY <1>1, <2>2, <3>1 DEF Pending
    <3>3. CASE Running(n)
      BY <1>2, <2>1, <3>3 DEF Ready, Running
    <3>4. CASE Due(n)
      BY <1>1, <2>2, <3>4 DEF Due, Fresh, TypeOK, Msgs, NoMsg
    <3>5. QED BY <3>2, <3>3, <3>4 DEF Ready
  <2>3. CASE pred[n] # m
    <3>1. pred[n] # NoMsg => pred[n] \in Msgs
      BY <2>1, PredIsMessage
    <3>2. /\ phase'[n] = phase[n] /\ pred'[n] = pred[n]
          /\ pred[n] # NoMsg => phase'[pred[n]] = phase[pred[n]]
      BY <1>2, <2>1, <2>3, <3>1
    <3>3. QED BY <2>1, <3>2 DEF Ready, Running, Due
  <2>4. QED BY <2>1, <2>2, <2>3
<1>5. CASE conv[m] # c
  <2>1. Pending(c)' = Pending(c)
    BY <1>1, <1>2, <1>3, <1>5 DEF Pending, Unsettled, Running
  <2>2. tail'[c] = tail[c]
    BY <1>5 DEF TypeOK, Enqueue
  <2>3. QED BY <1>2, <1>4, <2>1, <2>2, ChainFrame
<1>6. CASE conv[m] = c
  <2>1. Pending(c)' = Pending(c) \union {m}
    BY <1>1, <1>2, <1>3, <1>6 DEF Pending, Unsettled, Running
  <2>2. tail'[c] = m
    BY <1>6 DEF TypeOK, Enqueue
  <2>3. CASE tail[c] = NoMsg
    <3>1. Pending(c)' = {m}
      BY <2>1, <2>3 DEF Chain, TailIsNewest
    <3>2. Ready(m)'
      BY <1>3, <1>6, <2>3 DEF Ready, Due
    <3>3. QED
      BY <1>1, <2>2, <3>1, <3>2
         DEF Chain, OnlyOldestReady, LinkedInOrder, TailIsNewest, Msgs
  <2>4. CASE tail[c] # NoMsg
    <3>1. tail[c] \in Pending(c) /\ \A n \in Pending(c) : n <= tail[c]
      BY <2>4 DEF Chain, TailIsNewest
    <3>2. phase'[tail[c]] # "settled"
      BY <1>2, <1>4, <3>1 DEF Pending, Unsettled, Running
    <3>3. ~Ready(m)'
      BY <1>3, <1>6, <2>4, <3>2 DEF Ready, Running, Due
    <3>4. OnlyOldestReady(c)'
      BY <1>1, <1>4, <2>1, <3>3 DEF Chain, OnlyOldestReady, Pending, Msgs
    <3>5. LinkedInOrder(c)'
      <4> SUFFICES ASSUME NEW n \in Pending(c)', ~Ready(n)'
                   PROVE  /\ pred'[n] \in Pending(c)'
                          /\ pred'[n] < n
                          /\ \A k \in Pending(c)' : ~(pred'[n] < k /\ k < n)
        BY DEF LinkedInOrder
      <4>1. CASE n = m
        BY <1>1, <1>3, <1>4, <1>6, <2>1, <3>1, <4>1 DEF Pending, Msgs
      <4>2. CASE n # m
        <5>1. /\ n \in Pending(c) /\ ~Ready(n)
              /\ pred'[n] = pred[n]
          BY <1>2, <1>4, <2>1, <4>2
        <5>2. /\ pred[n] \in Pending(c)
              /\ pred[n] < n
              /\ \A k \in Pending(c) : ~(pred[n] < k /\ k < n)
          BY <5>1 DEF Chain, LinkedInOrder
        <5>3. ~(m < n)
          BY <1>1, <1>4, <5>1 DEF Msgs
        <5>4. QED BY <2>1, <5>1, <5>2, <5>3
      <4>3. QED BY <4>1, <4>2
    <3>6. TailIsNewest(c)'
      BY <1>1, <1>4, <2>1, <2>2 DEF TailIsNewest, Msgs
    <3>7. QED BY <3>4, <3>5, <3>6 DEF Chain
  <2>5. QED BY <2>3, <2>4
<1>7. QED BY <1>5, <1>6

\* Settling the running message hands the conversation to the one behind it.
LEMMA ChainSettle ==
  ASSUME TypeOK, NEW m \in Msgs, Running(m), Settle(m),
         NEW c \in Conv, Chain(c)
  PROVE  Chain(c)'
<1>1. /\ \A n \in Msgs : n # m => phase'[n] = phase[n]
      /\ phase'[m] = "settled"
      /\ UNCHANGED <<pred, conv>>
  BY DEF TypeOK, Settle
<1>2. Pending(c)' = Pending(c) \ {m}
  BY <1>1 DEF Pending, Unsettled, Running
<1>3. ASSUME NEW n \in Pending(c), n # m, pred[n] # m
      PROVE  Ready(n)' <=> Ready(n)
  <2>1. n \in Msgs /\ (pred[n] # NoMsg => pred[n] \in Msgs)
    BY PredIsMessage DEF Pending
  <2>2. /\ phase'[n] = phase[n] /\ pred'[n] = pred[n]
        /\ pred[n] # NoMsg => phase'[pred[n]] = phase[pred[n]]
    BY <1>1, <1>3, <2>1
  <2>3. QED BY <2>2 DEF Ready, Running, Due
<1>4. CASE conv[m] # c
  <2>1. m \notin Pending(c)
    BY <1>4 DEF Pending
  <2>2. ASSUME NEW n \in Pending(c) PROVE n # m /\ pred[n] = m => Ready(n)' /\ Ready(n)
    <3> SUFFICES ASSUME pred[n] = m PROVE Ready(n)' /\ Ready(n)
      BY <2>1
    <3>1. Ready(n)
      BY <2>1 DEF Chain, LinkedInOrder
    <3>2. n \in Msgs /\ n # m
      BY <2>1 DEF Pending
    <3>3. phase'[n] = phase[n]
      BY <1>1, <3>2
    <3>4. QED BY <1>1, <3>1, <3>3 DEF Ready, Running, Due
  <2>3. tail'[c] = tail[c]
    BY <1>4 DEF TypeOK, Settle
  <2>4. QED BY <1>1, <1>2, <1>3, <2>1, <2>2, <2>3, ChainFrame
<1>5. CASE conv[m] = c
  <2>1. m \in Pending(c) /\ \A n \in Pending(c) : m <= n
    BY <1>5 DEF Pending, Unsettled, Ready, Chain, OnlyOldestReady
  <2>2. \A n \in Pending(c) : n \in Int
    BY DEF Pending, Msgs
  <2>3. \A n \in Pending(c) : n # m => ~Ready(n)
    BY <2>1, <2>2 DEF Chain, OnlyOldestReady
  <2>4. ASSUME NEW n \in Pending(c), pred[n] = m, n # m
        PROVE  \A k \in Pending(c) : k # m => n <= k
    <3>1. /\ m < n
          /\ \A k \in Pending(c) : ~(m < k /\ k < n)
      BY <2>3, <2>4 DEF Chain, LinkedInOrder
    <3>2. QED BY <2>1, <2>2, <3>1
  <2>5. OnlyOldestReady(c)'
    BY <1>2, <1>3, <2>3, <2>4 DEF OnlyOldestReady
  <2>6. LinkedInOrder(c)'
    <3> SUFFICES ASSUME NEW n \in Pending(c)', ~Ready(n)'
                 PROVE  /\ pred'[n] \in Pending(c)'
                        /\ pred'[n] < n
                        /\ \A k \in Pending(c)' : ~(pred'[n] < k /\ k < n)
      BY DEF LinkedInOrder
    <3>1. n \in Pending(c) /\ n # m /\ ~Ready(n)
      BY <1>2, <2>3
    <3>2. /\ pred[n] \in Pending(c)
          /\ pred[n] < n
          /\ \A k \in Pending(c) : ~(pred[n] < k /\ k < n)
      BY <3>1 DEF Chain, LinkedInOrder
    <3>3. pred[n] # m
      <4> SUFFICES ASSUME pred[n] = m PROVE FALSE
        OBVIOUS
      <4>1. phase'[n] = "queued"
        BY <1>1, <3>1 DEF Pending, Unsettled, Ready
      <4>2. QED BY <1>1, <4>1 DEF Ready, Due
    <3>4. QED BY <1>1, <1>2, <3>2, <3>3
  <2>7. TailIsNewest(c)'
    <3>1. CASE tail[c] = m
      <4>1. tail'[c] = NoMsg
        BY <1>5, <3>1 DEF TypeOK, Settle
      <4>2. \A n \in Pending(c) : n <= m
        BY <2>1, <3>1 DEF Chain, TailIsNewest
      <4>3. Pending(c)' = {}
        BY <1>2, <2>1, <2>2, <4>2
      <4>4. QED BY <4>1, <4>3 DEF TailIsNewest
    <3>2. CASE tail[c] # m
      <4>1. tail'[c] = tail[c]
        BY <1>5, <3>2 DEF TypeOK, Settle
      <4>2. tail[c] \in Pending(c) /\ \A n \in Pending(c) : n <= tail[c]
        BY <2>1 DEF Chain, TailIsNewest
      <4>3. tail'[c] # NoMsg
        BY <4>1, <4>2 DEF Pending, Msgs, NoMsg
      <4>4. QED BY <1>2, <3>2, <4>1, <4>2, <4>3 DEF TailIsNewest
    <3>3. QED BY <3>1, <3>2
  <2>8. QED BY <2>5, <2>6, <2>7 DEF Chain
<1>6. QED BY <1>4, <1>5

\* Every other step leaves the list of an unreaped conversation alone.
LEMMA ChainInvHolds == Spec => []ChainInv
<1>1. Init => ChainInv
  <2> SUFFICES ASSUME Init, NEW c \in Conv PROVE Chain(c)
    BY DEF ChainInv
  <2>1. Pending(c) = {} /\ tail[c] = NoMsg
    BY DEF Init, Pending, Unsettled, Running
  <2>2. QED BY <2>1 DEF Chain, OnlyOldestReady, LinkedInOrder, TailIsNewest
<1>2. TypeOK /\ Fresh /\ ChainInv /\ [Next]_vars => ChainInv'
  <2> SUFFICES ASSUME TypeOK, Fresh, ChainInv, [Next]_vars,
                      NEW c \in Conv, c \notin reaped'
               PROVE  Chain(c)'
    BY DEF ChainInv
  <2>1. reaped \subseteq reaped'
    BY DEF Next, HandleUserMessage, RateLimited, Enqueue, Step, Start, Route,
           RouteWithoutPlugin, RejectBusy, RouteToPlugin, DispatchSettles,
           DispatchHangs, Settle, HeartbeatFires, SafetyNetFires, Sweep, Tick,
           vars
  <2>2. Chain(c)
    BY <2>1 DEF ChainInv
  <2>3. CASE HandleUserMessage
    <3>1. PICK m \in Msgs : m = arrived + 1
      BY <2>3, NextMessage DEF HandleUserMessage
    <3>2. CASE Enqueue(m)
      BY <2>2, <2>3, <3>1, <3>2, ChainEnqueue DEF HandleUserMessage
    <3>3. CASE RateLimited(m)
      <4>1. /\ ~Unsettled(m) /\ ~Unsettled(m)' /\ phase[m] # "settled"
            /\ phase'[m] # "settled"
            /\ \A n \in Msgs : n # m => phase'[n] = phase[n]
            /\ UNCHANGED <<conv, pred, tail>>
        BY <2>3, <3>1, <3>3, NextMessage
           DEF HandleUserMessage, RateLimited, Unsettled, Running, TypeOK, Fresh,
               Msgs
      <4>2. Pending(c)' = Pending(c)
        BY <4>1 DEF Pending, Unsettled, Running
      <4>3. ASSUME NEW n \in Pending(c) PROVE Ready(n)' <=> Ready(n)
        <5>1. n \in Msgs /\ n # m /\ (pred[n] # NoMsg => pred[n] \in Msgs)
          BY <4>1, PredIsMessage DEF Pending
        <5>2. pred[n] # NoMsg =>
                (phase'[pred[n]] = "settled" <=> phase[pred[n]] = "settled")
          BY <4>1, <5>1
        <5>3. QED BY <4>1, <5>1, <5>2 DEF Ready, Running, Due
      <4>4. QED BY <2>2, <4>1, <4>2, <4>3, ChainFrame
    <3>4. QED BY <2>3, <3>1, <3>2, <3>3 DEF HandleUserMessage
  <2>4. ASSUME NEW m \in Msgs, Step(m) PROVE Chain(c)'
    <3>1. CASE RouteWithoutPlugin(m) \/ RejectBusy(m) \/ DispatchSettles(m)
      BY <2>2, <3>1, ChainSettle
         DEF RouteWithoutPlugin, RejectBusy, DispatchSettles, Running
    <3>2. CASE Start(m) \/ RouteToPlugin(m) \/ DispatchHangs(m)
               \/ HeartbeatFires(m) \/ SafetyNetFires(m)
      <4>1. UNCHANGED <<conv, pred, tail>>
        BY <3>2 DEF Start, RouteToPlugin, DispatchHangs, HeartbeatFires,
                    SafetyNetFires
      <4>2. \A n \in Msgs :
              /\ Unsettled(n)' <=> Unsettled(n)
              /\ Running(n) => Running(n)'
              /\ Running(n)' => Running(n) \/ Due(n)
              /\ phase'[n] = "queued" => phase[n] = "queued"
              /\ phase'[n] = "settled" <=> phase[n] = "settled"
        BY <3>2 DEF TypeOK, Start, Due, RouteToPlugin, DispatchHangs,
                    HeartbeatFires, SafetyNetFires, Unsettled, Running
      <4>3. Pending(c)' = Pending(c)
        BY <4>1, <4>2 DEF Pending
      <4>4. ASSUME NEW n \in Pending(c) PROVE Ready(n)' <=> Ready(n)
        <5>1. n \in Msgs /\ (pred[n] # NoMsg => pred[n] \in Msgs)
          BY PredIsMessage DEF Pending
        <5>2. pred[n] # NoMsg =>
                (phase'[pred[n]] = "settled" <=> phase[pred[n]] = "settled")
          BY <4>2, <5>1
        <5>3. Due(n) => Due(n)' \/ Running(n)'
          BY <4>1, <4>2, <5>1, <5>2 DEF Due, Unsettled
        <5>4. Due(n)' => Due(n)
          BY <4>1, <4>2, <5>1, <5>2 DEF Due
        <5>5. QED BY <4>2, <5>1, <5>3, <5>4 DEF Ready
      <4>5. QED BY <2>2, <4>1, <4>3, <4>4, ChainFrame
    <3>3. QED BY <2>4, <3>1, <3>2 DEF Step, Route
  <2>5. CASE Sweep \/ Tick \/ UNCHANGED vars
    <3>1. UNCHANGED <<conv, pred, phase>> /\ tail'[c] = tail[c]
      BY <2>5 DEF TypeOK, Sweep, Tick, vars
    <3>2. Pending(c)' = Pending(c) /\ \A n : Ready(n)' <=> Ready(n)
      BY <3>1 DEF Pending, Ready, Unsettled, Running, Due
    <3>3. QED BY <2>2, <3>1, <3>2, ChainFrame
  <2>6. QED BY <2>3, <2>4, <2>5 DEF Next
<1>3. QED BY <1>1, <1>2, TypeCorrect, FreshHolds, PTL DEF Spec

\* In a conversation the sweep has never reaped, messages are handled one at a
\* time and in arrival order, whatever the load and the dispatch times.
THEOREM SerialUnlessReaped == Spec => []OldestRunsAlone
<1>1. TypeOK /\ ChainInv => OldestRunsAlone
  <2> SUFFICES ASSUME TypeOK, ChainInv, NEW m \in Msgs, NEW n \in Msgs,
                      conv[m] = conv[n], conv[m] \notin reaped,
                      Running(m), Unsettled(n)
               PROVE  m <= n /\ (Running(n) => m = n)
    BY DEF OldestRunsAlone
  <2>1. /\ m \in Pending(conv[m]) /\ n \in Pending(conv[m])
        /\ Ready(m) /\ (Running(n) => Ready(n))
    BY DEF Pending, Unsettled, Ready
  <2>2. OnlyOldestReady(conv[m])
    BY DEF TypeOK, ChainInv, Chain
  <2>3. QED BY <2>1, <2>2 DEF OnlyOldestReady, Msgs
<1>2. QED BY <1>1, TypeCorrect, ChainInvHolds, PTL

----------------------------------------------------------------------------
(* The heartbeat.  Once it has fired, the entry of its conversation is     *)
(* never older than the heartbeat itself; before, the heartbeat is as old  *)
(* as the dispatch.                                                        *)

BeatKeepsYoung ==
  \A m \in Msgs :
    beat[m] # Off =>
      /\ Running(m)
      /\ beat[m] = elapsed[m] \/ age[conv[m]] <= beat[m]

\* A step of one message leaves the others' heartbeats alone and can only
\* rejuvenate or remove an entry.
LEMMA BeatInvHolds == Spec => []BeatKeepsYoung
<1>1. Init => BeatKeepsYoung
  BY DEF Init, BeatKeepsYoung
<1>2. TypeOK /\ Fresh /\ BeatKeepsYoung /\ [Next]_vars => BeatKeepsYoung'
  <2> SUFFICES ASSUME TypeOK, Fresh, BeatKeepsYoung, [Next]_vars,
                      NEW n \in Msgs, beat'[n] # Off
               PROVE  /\ Running(n)'
                      /\ beat'[n] = elapsed'[n] \/ age'[conv'[n]] <= beat'[n]
    BY DEF BeatKeepsYoung
  <2>1. /\ age[conv[n]] \in Int /\ beat[n] \in Int /\ elapsed[n] \in Int
        /\ beat[n] # Off => 0 <= beat[n] /\ beat[n] <= Heartbeat
        /\ conv[n] \in Conv
    BY TimingAssumption, BoundAssumption DEF TypeOK, Off, NoEntry, Horizon, SafetyNet
  <2>2. beat[n] # Off => /\ Running(n)
                         /\ beat[n] = elapsed[n] \/ age[conv[n]] <= beat[n]
    BY DEF BeatKeepsYoung
  <2>3. CASE HandleUserMessage
    <3>1. PICK m \in Msgs : m = arrived + 1
      BY <2>3, BoundAssumption DEF TypeOK, HandleUserMessage, Msgs
    <3>2. /\ UNCHANGED <<conv, beat, elapsed>>
          /\ age'[conv[n]] = age[conv[n]] \/ age'[conv[n]] = 0
          /\ phase'[n] = phase[n] \/ n = m
      BY <2>1, <2>3, <3>1 DEF TypeOK, HandleUserMessage, RateLimited, Enqueue
    <3>3. n # m
      BY <2>2, <2>3, <3>1, <3>2, NextMessage DEF HandleUserMessage, Unsettled
    <3>4. QED BY <2>1, <2>2, <3>2, <3>3 DEF Running
  <2>4. ASSUME NEW m \in Msgs, Step(m)
        PROVE  /\ Running(n)'
               /\ beat'[n] = elapsed'[n] \/ age'[conv'[n]] <= beat'[n]
    <3>1. CASE Start(m)
      BY <2>1, <2>2, <3>1 DEF TypeOK, Start, Running
    <3>2. CASE RouteWithoutPlugin(m) \/ RejectBusy(m) \/ DispatchSettles(m)
      <4>1. Settle(m)
        BY <3>2 DEF RouteWithoutPlugin, RejectBusy, DispatchSettles
      <4>2. /\ UNCHANGED <<conv, elapsed>>
            /\ beat'[n] = beat[n] /\ phase'[n] = phase[n]
            /\ age'[conv[n]] = age[conv[n]] \/ age'[conv[n]] = NoEntry
        BY <2>1, <4>1 DEF TypeOK, Settle
      <4>3. QED BY <2>1, <2>2, <4>2 DEF NoEntry, Running
    <3>3. CASE RouteToPlugin(m) \/ DispatchHangs(m)
      BY <2>2, <3>3 DEF TypeOK, RouteToPlugin, DispatchHangs, Running
    <3>4. CASE HeartbeatFires(m)
      <4>1. /\ UNCHANGED <<conv, elapsed, phase>>
            /\ beat[n] # Off
            /\ beat'[n] = IF n = m THEN 0 ELSE beat[n]
            /\ age'[conv[n]] = age[conv[n]] \/ age'[conv[n]] = 0
            /\ n = m => age'[conv[n]] \in {0, NoEntry}
        BY <2>1, <3>4, TimingAssumption DEF TypeOK, HeartbeatFires, Off
      <4>2. QED BY <2>1, <2>2, <4>1 DEF NoEntry, Running
    <3>5. CASE SafetyNetFires(m)
      BY <2>2, <3>5 DEF TypeOK, SafetyNetFires, Running
    <3>6. QED BY <2>4, <3>1, <3>2, <3>3, <3>4, <3>5 DEF Step, Route
  <2>5. CASE Sweep
    <3>1. /\ UNCHANGED <<conv, elapsed, beat, phase>>
          /\ age'[conv[n]] = age[conv[n]] \/ age'[conv[n]] = NoEntry
      BY <2>1, <2>5 DEF TypeOK, Sweep
    <3>2. QED BY <2>1, <2>2, <3>1 DEF NoEntry, Running
  <2>6. CASE Tick
    <3>1. UNCHANGED <<conv, phase>>
      BY <2>6 DEF Tick
    <3>2. beat[n] # Off /\ beat'[n] = beat[n] + 1 /\ beat[n] < Heartbeat
      <4>1. /\ beat'[n] = IF beat[n] = Off THEN Off ELSE beat[n] + 1
            /\ beat[n] # Heartbeat
        BY <2>6 DEF TypeOK, Tick
      <4>2. QED BY <2>1, <4>1, TimingAssumption
    <3>3. age'[conv[n]] \in {age[conv[n]], age[conv[n]] + 1}
      BY <2>1, <2>6 DEF TypeOK, Tick
    <3>4. CASE age[conv[n]] <= beat[n]
      BY <2>1, <2>2, <3>1, <3>2, <3>3, <3>4 DEF Running
    <3>5. CASE beat[n] = elapsed[n]
      <4>1. elapsed[n] < Horizon
        BY <2>1, <3>2, <3>5, TimingAssumption, BoundAssumption
           DEF Horizon, SafetyNet
      <4>2. elapsed'[n] = elapsed[n] + 1
        BY <2>2, <2>6, <3>2, <4>1 DEF TypeOK, Tick
      <4>3. QED BY <2>2, <3>1, <3>2, <3>5, <4>2 DEF Running
    <3>6. QED BY <2>2, <3>2, <3>4, <3>5
  <2>7. CASE UNCHANGED vars
    BY <2>2, <2>7 DEF vars, Running
  <2>8. QED BY <2>3, <2>4, <2>5, <2>6, <2>7 DEF Next
<1>3. QED BY <1>1, <1>2, TypeCorrect, FreshHolds, PTL DEF Spec

\* The sweep cannot reap a conversation under a dispatch whose heartbeat has
\* had its first chance to fire and is still armed.
THEOREM SweepSparesBeating == Spec => ReapSparesBeatingDispatch
<1>1. ASSUME TypeOK, BeatKeepsYoung, NEW m \in Msgs,
             beat[m] # Off, elapsed[m] > Heartbeat
      PROVE  conv[m] \notin Stale
  <2>1. beat[m] \in Int /\ beat[m] <= Heartbeat
    <3>1. beat[m] \in Off..Heartbeat
      BY <1>1 DEF TypeOK
    <3>2. QED BY <3>1, TimingAssumption DEF Off
  <2>2. elapsed[m] \in Int /\ conv[m] \in Conv
    <3>1. elapsed[m] \in 0..Horizon /\ conv[m] \in Conv
      BY <1>1 DEF TypeOK
    <3>2. QED BY <3>1
  <2>3. age[conv[m]] \in Int
    <3>1. age[conv[m]] \in NoEntry..MaxAge + 1
      BY <1>1, <2>2 DEF TypeOK
    <3>2. QED BY <3>1, TimingAssumption DEF NoEntry
  <2>4. beat[m] = elapsed[m] \/ age[conv[m]] <= beat[m]
    BY <1>1 DEF BeatKeepsYoung
  <2>5. age[conv[m]] <= Heartbeat
    BY <1>1, <2>1, <2>4, <2>2, <2>3, TimingAssumption
  <2>6. QED BY <2>5, <2>3, TimingAssumption DEF Stale
<1>2. TypeOK /\ BeatKeepsYoung =>
        [Sweep => \A m \in Msgs :
           Running(m) /\ beat[m] # Off /\ elapsed[m] > Heartbeat
             => conv[m] \notin Stale]_vars
  BY <1>1
<1>3. QED
  BY <1>2, TypeCorrect, BeatInvHolds, PTL DEF ReapSparesBeatingDispatch

----------------------------------------------------------------------------
(* The dispatch counter.                                                   *)

\* Taking a message into or out of a finite set moves its size by one.
LEMMA InFlightFinite == IsFiniteSet(InFlight) /\ Cardinality(InFlight) \in Nat
<1>1. IsFiniteSet(Msgs)
  BY FS_Interval, BoundAssumption DEF Msgs
<1>2. IsFiniteSet(InFlight)
  BY <1>1, FS_Subset DEF InFlight
<1>3. QED BY <1>2, FS_CardinalityType

\* activeP2PDispatches is exact and never above MAX_CONCURRENT_P2P_DISPATCHES,
\* so the clamp at zero in the finally block is never what keeps it right.
THEOREM CounterIsExact == Spec => []CounterExact
<1>1. Init => CounterExact
  <2> SUFFICES ASSUME Init PROVE CounterExact
    OBVIOUS
  <2>1. InFlight = {}
    BY DEF Init, InFlight
  <2>2. QED BY <2>1, FS_EmptySet, LimitAssumption DEF Init, CounterExact
<1>2. TypeOK /\ Fresh /\ CounterExact /\ [Next]_vars => CounterExact'
  <2> SUFFICES ASSUME TypeOK, Fresh, CounterExact, [Next]_vars
               PROVE  CounterExact'
    OBVIOUS
  <2>1. ASSUME UNCHANGED active, InFlight' = InFlight
        PROVE  CounterExact'
    BY <2>1 DEF CounterExact
  <2>2. CASE HandleUserMessage
    <3>1. PICK m \in Msgs : m = arrived + 1
      BY <2>2, BoundAssumption DEF TypeOK, HandleUserMessage, Msgs
    <3>2. /\ phase[m] \notin {"dispatching", "hung"}
          /\ phase'[m] \notin {"dispatching", "hung"}
          /\ \A n \in Msgs : n # m => phase'[n] = phase[n]
          /\ UNCHANGED active
      BY <2>2, <3>1, NextMessage
         DEF TypeOK, HandleUserMessage, RateLimited, Enqueue, Unsettled, Running
    <3>3. InFlight' = InFlight
      BY <3>2 DEF InFlight
    <3>4. QED BY <2>1, <3>2, <3>3
  <2>3. ASSUME NEW m \in Msgs, Step(m) PROVE CounterExact'
    <3>1. CASE RouteToPlugin(m)
      <4>1. InFlight' = InFlight \union {m} /\ m \notin InFlight
        BY <3>1 DEF TypeOK, RouteToPlugin, InFlight
      <4>2. Cardinality(InFlight') = Cardinality(InFlight) + 1
        BY <4>1, InFlightFinite, FS_AddElement
      <4>3. QED
        BY <3>1, <4>2, LimitAssumption DEF TypeOK, RouteToPlugin, CounterExact
    <3>2. CASE DispatchSettles(m)
      <4>1. InFlight' = InFlight \ {m} /\ m \in InFlight
        BY <3>2 DEF TypeOK, DispatchSettles, Settle, InFlight
      <4>2. /\ Cardinality(InFlight') = Cardinality(InFlight) - 1
            /\ Cardinality(InFlight) # 0
        BY <4>1, InFlightFinite, FS_RemoveElement, FS_EmptySet
      <4>3. QED
        BY <3>2, <4>2, InFlightFinite, LimitAssumption
           DEF TypeOK, DispatchSettles, CounterExact
    <3>3. CASE RouteWithoutPlugin(m) \/ RejectBusy(m) \/ Start(m)
               \/ DispatchHangs(m) \/ HeartbeatFires(m) \/ SafetyNetFires(m)
      <4>1. UNCHANGED active /\ InFlight' = InFlight
        BY <3>3 DEF TypeOK, RouteWithoutPlugin, RejectBusy, Settle, Start, Due,
                    DispatchHangs, HeartbeatFires, SafetyNetFires, InFlight
      <4>2. QED BY <2>1, <4>1
    <3>4. QED BY <2>3, <3>1, <3>2, <3>3 DEF Step, Route
  <2>4. CASE Sweep \/ Tick \/ UNCHANGED vars
    BY <2>1, <2>4 DEF Sweep, Tick, vars, InFlight
  <2>5. QED BY <2>2, <2>3, <2>4 DEF Next
<1>3. QED BY <1>1, <1>2, TypeCorrect, FreshHolds, PTL DEF Spec
============================================================================
