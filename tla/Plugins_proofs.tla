--------------------------- MODULE Plugins_proofs ---------------------------
(***************************************************************************)
(* Proofs about the plugin dispatcher, PluginDispatch, for any plugins,    *)
(* fallback chain and number of overlapping dispatches, and about the      *)
(* OpenCode plugin, OpenCodePlugin, for any conversations and bounds: its  *)
(* servers, the places of its dispatches and what drains its queues.  The  *)
(* dispatcher's candidate list is built with SelectSeq, whose definition   *)
(* is recursive; nothing proved here depends on what it contains, so its   *)
(* type is left to TLC.                                                    *)
(***************************************************************************)
EXTENDS PluginDispatch, OpenCodePlugin, TLAPS

----------------------------------------------------------------------------
(* PluginDispatch: the inductive invariant.                                *)

\* The types the proofs rest on, of chain only that it is a function; a
\* dispatch that has not begun has no verdicts.
Types ==
  /\ stage \in [Dispatches -> {"new", "choosing", "running", "over"}]
  /\ chain = [d \in Dispatches |-> chain[d]]
  /\ verdicts \in [Dispatches -> Seq(Verdicts)]
  /\ \A d \in Dispatches : stage[d] = "new" => verdicts[d] = <<>>
  /\ probe \in [Dispatches -> BOOLEAN]
  /\ state \in [Plugins -> Circuit]
  /\ failures \in [Plugins -> Nat]
  /\ cooled \in [Plugins -> BOOLEAN] /\ probing \in [Plugins -> BOOLEAN]
  /\ threshold \in Thresholds

\* The start is well-typed.
LEMMA InitTypes == Init => Types
BY DispatchAssumption DEF Init, Types, Circuit, Verdicts

\* Every step keeps the types.
LEMMA StepTypes == Types /\ [Next]_vars => Types'
<1> SUFFICES ASSUME Types, [Next]_vars PROVE Types'
  OBVIOUS
<1>1. ASSUME NEW d \in Dispatches, NEW v \in Verdicts, NEW g, Conclude(d, v, g),
             \/ UNCHANGED circuits
             \/ CircuitOnSuccess(Current(d)) \/ CircuitOnFailure(Current(d))
      PROVE  Types'
  <2>1. /\ stage' \in [Dispatches -> {"new", "choosing", "running", "over"}]
        /\ verdicts' \in [Dispatches -> Seq(Verdicts)]
        /\ \A e \in Dispatches : stage'[e] = "new" => verdicts'[e] = <<>>
        /\ probe' \in [Dispatches -> BOOLEAN]
        /\ chain' = chain /\ threshold' = threshold
    BY <1>1 DEF Conclude, Types
  <2>2. /\ state' \in [Plugins -> Circuit] /\ failures' \in [Plugins -> Nat]
        /\ cooled' \in [Plugins -> BOOLEAN] /\ probing' \in [Plugins -> BOOLEAN]
    <3>1. CASE UNCHANGED circuits
      BY <3>1 DEF circuits, Types
    <3>2. CASE CircuitOnSuccess(Current(d))
      BY <3>2 DEF CircuitOnSuccess, Types, Circuit
    <3>3. CASE CircuitOnFailure(Current(d))
      <4>1. failures' \in [Plugins -> Nat] /\ probing' \in [Plugins -> BOOLEAN]
        <5>1. probing' = [probing EXCEPT ![Current(d)] = FALSE]
          BY <3>3 DEF CircuitOnFailure
        <5>2. failures' = [failures EXCEPT ![Current(d)] = failures[Current(d)] + 1]
          BY <3>3 DEF CircuitOnFailure
        <5>3. failures' \in [Plugins -> Nat]
          <6> DEFINE c == Current(d)
          <6>1. failures \in [Plugins -> Nat]
            BY DEF Types
          <6>2. failures' = [failures EXCEPT ![c] = failures[c] + 1]
            BY <5>2
          <6>3. c \in Plugins => failures[c] + 1 \in Nat
            BY <6>1
          <6> HIDE DEF c
          <6>4. QED BY <6>1, <6>2, <6>3
        <5>4. probing \in [Plugins -> BOOLEAN]
          BY DEF Types
        <5>5. probing' \in [Plugins -> BOOLEAN]
          BY <5>1, <5>4
        <5>6. QED BY <5>3, <5>5
      <4>2. state' \in [Plugins -> Circuit] /\ cooled' \in [Plugins -> BOOLEAN]
        <5>1. \/ /\ state' = [state EXCEPT ![Current(d)] = "OPEN"]
                 /\ cooled' = [cooled EXCEPT ![Current(d)] = FALSE]
              \/ state' = state /\ cooled' = cooled
          BY <3>3 DEF CircuitOnFailure
        <5>2. QED BY <5>1 DEF Types, Circuit
      <4>3. QED BY <4>1, <4>2
    <3>4. QED BY <1>1, <3>1, <3>2, <3>3
  <2>3. QED BY <2>1, <2>2 DEF Types
<1>2. ASSUME NEW d \in Dispatches,
             Unavailable(d) \/ CircuitRefuses(d) \/ Settles(d)
      PROVE  Types'
  BY <1>1, <1>2 DEF Unavailable, CircuitRefuses, Settles, PluginSucceeds,
     PluginFails, PluginAborted, AttemptThrows, Verdicts
<1>3. ASSUME NEW d \in Dispatches, Begin(d) \/ NoActivePlugin(d) PROVE Types'
  BY <1>3 DEF Begin, NoActivePlugin, Types, circuits
<1>4. ASSUME NEW d \in Dispatches, Attempt(d) PROVE Types'
  <2>1. state' \in [Plugins -> Circuit] /\ probing' \in [Plugins -> BOOLEAN]
    BY <1>4 DEF Attempt, Types, Circuit
  <2>2. probe' \in [Dispatches -> BOOLEAN]
    BY <1>4 DEF Attempt, Types
  <2>3. QED BY <1>4, <2>1, <2>2 DEF Attempt, Types
<1>5. ASSUME NEW p \in Plugins, CooldownElapses(p) PROVE Types'
  BY <1>5 DEF CooldownElapses, Types
<1>6. CASE ApplyConfig \/ UNCHANGED vars
  BY <1>6 DEF ApplyConfig, vars, Types, circuits
<1>7. QED BY <1>2, <1>3, <1>4, <1>5, <1>6 DEF Next

\* The types hold throughout.
THEOREM TypesHold == Spec => []Types
BY InitTypes, StepTypes, PTL DEF Spec

----------------------------------------------------------------------------
(* Probes.                                                                 *)

\* A dispatch that a step leaves alone keeps its place and its mark.
LEMMA OthersKeepProbe ==
  ASSUME Types, NEW d \in Dispatches, NEW e \in Dispatches, e # d,
         NEW v, NEW g, Conclude(d, v, g)
  PROVE  stage'[e] = stage[e] /\ Current(e)' = Current(e) /\ probe'[e] = probe[e]
BY DEF Conclude, Types, Current, Position

\* A mark of a probe in flight always has the dispatch that set it behind it:
\* no interleaving of failures, aborts, throws and successes loses it.
THEOREM ProbesHaveOwners == Spec => []ProbeHasOwner
<1>1. Init => ProbeHasOwner
  BY DEF Init, ProbeHasOwner
<1>2. Types /\ ProbeHasOwner /\ [Next]_vars => ProbeHasOwner'
  <2> SUFFICES ASSUME Types, ProbeHasOwner, [Next]_vars,
                      NEW p \in Plugins, probing'[p]
               PROVE  \E d \in RunningOn(p)' : probe'[d]
    BY DEF ProbeHasOwner
  <2>1. ASSUME NEW d \in Dispatches, Unavailable(d) \/ CircuitRefuses(d)
        PROVE  \E e \in RunningOn(p)' : probe'[e]
    <3>1. PICK e \in RunningOn(p) : probe[e]
      BY <2>1 DEF Unavailable, CircuitRefuses, circuits, ProbeHasOwner
    <3>2. PICK v : \E g : Conclude(d, v, g)
      BY <2>1 DEF Unavailable, CircuitRefuses
    <3>3. e # d /\ e \in Dispatches
      BY <2>1, <3>1 DEF Unavailable, CircuitRefuses, RunningOn
    <3>4. QED BY <3>1, <3>2, <3>3, OthersKeepProbe DEF RunningOn
  <2>2. ASSUME NEW d \in Dispatches, Settles(d)
        PROVE  \E e \in RunningOn(p)' : probe'[e]
    <3>1. CircuitOnSuccess(Current(d)) \/ CircuitOnFailure(Current(d))
      BY <2>2 DEF Settles, PluginSucceeds, PluginFails, PluginAborted, AttemptThrows
    <3>2. p # Current(d) /\ probing[p]
      BY <3>1 DEF CircuitOnSuccess, CircuitOnFailure, Types
    <3>3. PICK e \in RunningOn(p) : probe[e]
      BY <3>2 DEF ProbeHasOwner
    <3>4. PICK v : \E g : Conclude(d, v, g)
      BY <2>2 DEF Settles, PluginSucceeds, PluginFails, PluginAborted, AttemptThrows
    <3>5. e # d /\ e \in Dispatches
      BY <3>2, <3>3 DEF RunningOn
    <3>6. QED BY <3>3, <3>4, <3>5, OthersKeepProbe DEF RunningOn
  <2>3. ASSUME NEW d \in Dispatches, Attempt(d)
        PROVE  \E e \in RunningOn(p)' : probe'[e]
    <3>1. \A e \in Dispatches : Current(e)' = Current(e)
      BY <2>3 DEF Attempt, Current, Position
    <3>2. CASE p = Current(d) /\ state[p] = "OPEN"
      <4>1. d \in RunningOn(p)'
        BY <2>3, <3>1, <3>2 DEF Attempt, RunningOn, Types
      <4>2. probe'[d]
        BY <2>3, <3>2 DEF Attempt, Types
      <4>3. QED BY <4>1, <4>2
    <3>3. CASE ~(p = Current(d) /\ state[p] = "OPEN")
      <4>1. probing[p]
        BY <2>3, <3>3 DEF Attempt, Types
      <4>2. PICK e \in RunningOn(p) : probe[e]
        BY <4>1 DEF ProbeHasOwner
      <4>3. e # d /\ e \in Dispatches
        BY <2>3, <4>2 DEF Attempt, RunningOn
      <4>4. e \in RunningOn(p)' /\ probe'[e]
        BY <2>3, <3>1, <4>2, <4>3 DEF Attempt, RunningOn, Types
      <4>5. QED BY <4>4
    <3>4. QED BY <3>2, <3>3
  <2>4. ASSUME NEW d \in Dispatches, Begin(d) \/ NoActivePlugin(d)
        PROVE  \E e \in RunningOn(p)' : probe'[e]
    <3>1. PICK e \in RunningOn(p) : probe[e]
      BY <2>4 DEF Begin, NoActivePlugin, circuits, ProbeHasOwner
    <3>2. e # d /\ e \in Dispatches
      BY <2>4, <3>1 DEF Begin, NoActivePlugin, RunningOn
    <3>3. stage'[e] = stage[e] /\ Current(e)' = Current(e) /\ probe' = probe
      BY <2>4, <3>2 DEF Begin, NoActivePlugin, Types, Current, Position
    <3>4. QED BY <3>1, <3>2, <3>3 DEF RunningOn
  <2>5. CASE ApplyConfig \/ UNCHANGED vars \/ \E q \in Plugins : CooldownElapses(q)
    <3>1. UNCHANGED <<stage, chain, verdicts, probe, probing>>
      BY <2>5 DEF ApplyConfig, vars, CooldownElapses, circuits
    <3>2. QED BY <3>1 DEF ProbeHasOwner, RunningOn, Current, Position
  <2>6. QED BY <2>1, <2>2, <2>3, <2>4, <2>5 DEF Next
<1>3. QED BY <1>1, <1>2, TypesHold, PTL DEF Spec

----------------------------------------------------------------------------
(* The threshold.                                                          *)

\* A plugin that has failed as often as any threshold the configuration takes
\* is never behind a closed circuit.
THEOREM FailuresTrip == Spec => []TrippedWhenFailing
<1>1. Init => TrippedWhenFailing
  BY DispatchAssumption DEF Init, TrippedWhenFailing
<1>2. Types /\ TrippedWhenFailing /\ [Next]_vars => TrippedWhenFailing'
  <2> SUFFICES ASSUME Types, TrippedWhenFailing, [Next]_vars
               PROVE  TrippedWhenFailing'
    OBVIOUS
  <2>1. threshold \in Thresholds /\ threshold \in Nat \ {0}
    BY DispatchAssumption DEF Types
  <2>2. ASSUME NEW p, CircuitOnSuccess(p) \/ CircuitOnFailure(p),
               threshold' = threshold
        PROVE  TrippedWhenFailing'
    <3> SUFFICES ASSUME NEW q \in Plugins,
                        \A t \in Thresholds : failures'[q] >= t
                 PROVE  state'[q] # "CLOSED"
      BY <2>2 DEF TrippedWhenFailing
    <3>1. CASE q # p
      <4>1. failures'[q] = failures[q] /\ state'[q] = state[q]
        BY <2>2, <3>1 DEF CircuitOnSuccess, CircuitOnFailure, Types
      <4>2. QED BY <4>1 DEF TrippedWhenFailing
    <3>2. CASE q = p /\ CircuitOnSuccess(p)
      <4>1. failures'[q] = 0
        BY <3>2 DEF CircuitOnSuccess, Types
      <4>2. QED BY <4>1, <2>1
    <3>3. CASE q = p /\ CircuitOnFailure(p)
      <4>1. failures'[q] = failures[q] + 1
        BY <3>3 DEF CircuitOnFailure, Types
      <4>2. state'[q] = "OPEN"
        BY <3>3, <4>1 DEF CircuitOnFailure, Types
      <4>3. QED BY <4>2
    <3>4. QED BY <2>2, <3>1, <3>2, <3>3
  <2>3. ASSUME NEW d \in Dispatches, Settles(d) PROVE TrippedWhenFailing'
    BY <2>2, <2>3 DEF Settles, PluginSucceeds, PluginFails, PluginAborted,
       AttemptThrows, Conclude
  <2>4. ASSUME NEW d \in Dispatches, Attempt(d) PROVE TrippedWhenFailing'
    BY <2>4 DEF Attempt, TrippedWhenFailing, Types
  <2>5. CASE UNCHANGED <<state, failures>>
    BY <2>5 DEF TrippedWhenFailing
  <2>6. CASE ApplyConfig
    BY <2>6, <2>5 DEF ApplyConfig, circuits
  <2>7. QED BY <2>3, <2>4, <2>5, <2>6 DEF Next, Begin, NoActivePlugin,
            Unavailable, CircuitRefuses, Conclude, CooldownElapses, vars, circuits
<1>3. QED BY <1>1, <1>2, TypesHold, PTL DEF Spec

----------------------------------------------------------------------------
(* The fallback chain.                                                     *)

\* A candidate list is walked past a candidate only for the reasons the code
\* gives; a success, an abort or a throw ends it.
THEOREM FallbackInOrder == Spec => []FallbackOrder
<1>1. Init => FallbackOrder
  BY DEF Init, FallbackOrder
<1>2. Types /\ FallbackOrder /\ [Next]_vars => FallbackOrder'
  <2> SUFFICES ASSUME Types, FallbackOrder, [Next]_vars PROVE FallbackOrder'
    OBVIOUS
  <2> DEFINE Goes(v) == \/ v \in {"unavailable", "refused"}
                        \/ OnDispatchError /\ v = "failed"
             Good(s, w) == /\ \A i \in 1..Len(w) - 1 : Goes(w[i])
                           /\ s \in {"choosing", "running"} /\ w # <<>> =>
                                Goes(w[Len(w)])
  <2>1. FallbackOrder <=> \A d \in Dispatches : Good(stage[d], verdicts[d])
    BY DEF FallbackOrder, Last
  <2>2. FallbackOrder' <=> \A d \in Dispatches : Good(stage'[d], verdicts'[d])
    BY DEF FallbackOrder, Last
  <2>3. ASSUME NEW s, s \in {"choosing", "running"}, NEW w \in Seq(Verdicts),
               Good(s, w), NEW v \in Verdicts, NEW t, t = "over" \/ Goes(v)
        PROVE  Good(t, Append(w, v))
    <3>1. /\ Len(Append(w, v)) = Len(w) + 1 /\ Append(w, v)[Len(w) + 1] = v
          /\ \A i \in 1..Len(w) : Append(w, v)[i] = w[i]
      OBVIOUS
    <3>2. \A i \in 1..Len(w) : Goes(w[i])
      <4> SUFFICES ASSUME NEW i \in 1..Len(w) PROVE Goes(w[i])
        OBVIOUS
      <4>1. i \in 1..Len(w) - 1 \/ (i = Len(w) /\ w # <<>>)
        OBVIOUS
      <4>2. QED BY <4>1, <2>3
    <3>3. QED BY <3>1, <3>2, <2>3
  <2>4. ASSUME NEW d \in Dispatches, NEW v \in Verdicts, NEW g,
               Conclude(d, v, g), g => Goes(v), stage[d] \in {"choosing", "running"}
        PROVE  FallbackOrder'
    <3>1. stage'[d] = "over" \/ Goes(v)
      BY <2>4 DEF Conclude, Types
    <3>2. verdicts'[d] = Append(verdicts[d], v)
      BY <2>4 DEF Conclude, Types
    <3>3. \A e \in Dispatches : e # d => stage'[e] = stage[e] /\ verdicts'[e] = verdicts[e]
      BY <2>4 DEF Conclude, Types
    <3>4. Good(stage[d], verdicts[d]) /\ verdicts[d] \in Seq(Verdicts)
      BY <2>1 DEF Types
    <3> HIDE DEF Good
    <3>5. Good(stage'[d], verdicts'[d])
      BY <2>3, <2>4, <3>1, <3>2, <3>4
    <3>6. QED BY <2>1, <2>2, <3>3, <3>5
  <2>5. ASSUME NEW d \in Dispatches,
               Unavailable(d) \/ CircuitRefuses(d) \/ Settles(d)
        PROVE  FallbackOrder'
    BY <2>4, <2>5 DEF Unavailable, CircuitRefuses, Settles, PluginSucceeds,
       PluginFails, PluginAborted, AttemptThrows, Verdicts
  <2>6. ASSUME NEW d \in Dispatches, Begin(d) \/ NoActivePlugin(d) \/ Attempt(d)
        PROVE  FallbackOrder'
    BY <2>6, <2>1 DEF FallbackOrder, Begin, NoActivePlugin, Attempt, Types, Last
  <2>7. CASE ApplyConfig \/ UNCHANGED vars \/ \E q \in Plugins : CooldownElapses(q)
    <3>1. UNCHANGED <<stage, verdicts>>
      BY <2>7 DEF ApplyConfig, vars, CooldownElapses
    <3>2. QED BY <3>1 DEF FallbackOrder, Last
  <2>8. QED BY <2>5, <2>6, <2>7 DEF Next
<1>3. QED BY <1>1, <1>2, TypesHold, PTL DEF Spec

----------------------------------------------------------------------------
(* OpenCodePlugin: the server.                                             *)

\* What a server state may be: numbers up to the count of attempts; a server
\* comes with its client.
Shaped(s) ==
  /\ s \in Server
  /\ {s.client, s.server, s.starting} \subseteq 0..s.attempts
  /\ s.pending \cup s.mine \cup s.up \subseteq 1..s.attempts
  /\ s.mine \cap s.pending = {}
  /\ s.server # None => s.client # None

\* Unless a start was disowned, the one under way is the one dispatches join,
\* there is no client beside it, and what was started here and lives is current.
Held(s) ==
  \/ s.disowned
  \/ /\ s.pending # {} => s.pending = {s.starting} /\ s.client = None
     /\ s.mine \cap s.up \subseteq {s.server}

ServerInv(s) == Shaped(s) /\ Held(s)

\* The start: no server.
LEMMA InitServer == OpenCodeInit => ServerInv(srv)
BY DEF OpenCodeInit, ServerInv, Shaped, Held, NoServer, Server, None

\* A reset keeps the invariant: it closes the current server, and a start under
\* way is disowned from then on.
LEMMA ResetHolds == ASSUME NEW s, ServerInv(s) PROVE ServerInv(Reset(s))
<1> DEFINE t == Reset(s)
<1>1. /\ t \in Server /\ t.attempts = s.attempts
      /\ t.up = s.up \ {s.server} /\ t.mine = s.mine /\ t.pending = s.pending
      /\ t.server = None /\ t.client = None /\ t.starting = None
      /\ t.disowned = (s.disowned \/ s.pending # {})
  BY DEF ServerInv, Shaped, Server, Reset, None
<1> HIDE DEF t
<1>2. Shaped(t)
  BY <1>1 DEF ServerInv, Shaped, Server, None
<1>3. Held(t)
  BY <1>1 DEF ServerInv, Held
<1>4. QED BY <1>2, <1>3 DEF ServerInv, t

\* A start begins only if there is no client and no start to join; it is new.
LEMMA EnsureHolds == ASSUME NEW s, ServerInv(s) PROVE ServerInv(Ensure(s))
<1> DEFINE t == Ensure(s)
<1>1. CASE ~NeedsStart(s)
  BY <1>1 DEF Ensure
<1>2. CASE NeedsStart(s)
  <2>1. /\ t \in Server /\ t.attempts = s.attempts + 1 /\ t.starting = s.attempts + 1
        /\ t.pending = s.pending \cup {s.attempts + 1}
        /\ t.up = s.up /\ t.mine = s.mine /\ t.server = s.server
        /\ t.client = s.client /\ t.disowned = s.disowned
    <3>1. s \in Server /\ s.attempts + 1 \in Nat
      BY DEF ServerInv, Shaped, Server
    <3>2. t = [s EXCEPT !.attempts = s.attempts + 1, !.starting = s.attempts + 1,
                        !.pending = s.pending \cup {s.attempts + 1}]
      BY <1>2 DEF Ensure
    <3> HIDE DEF t
    <3>3. QED BY <3>1, <3>2 DEF Server
  <2>2. s.client = None /\ s.starting = None
    BY <1>2 DEF NeedsStart
  <2>3. ~s.disowned => s.pending = {}
    BY <2>2 DEF ServerInv, Held, Shaped, Server, None
  <2> HIDE DEF t
  <2>4. Shaped(t)
    <3>1. s.attempts \in Nat
      BY DEF ServerInv, Shaped, Server
    <3>2. /\ s.pending \cup s.mine \cup s.up \subseteq 1..t.attempts
          /\ {s.client, s.server, s.starting} \subseteq 0..t.attempts
          /\ s.attempts + 1 \in 1..t.attempts
          /\ s.attempts + 1 \notin s.mine
      BY <2>1, <3>1 DEF ServerInv, Shaped
    <3>3. s.mine \cap s.pending = {} /\ (s.server # None => s.client # None)
      BY DEF ServerInv, Shaped
    <3>4. QED BY <2>1, <3>2, <3>3 DEF Shaped
  <2>5. Held(t)
    BY <2>1, <2>2, <2>3 DEF ServerInv, Held
  <2>6. QED BY <2>4, <2>5 DEF ServerInv, t
<1>3. QED BY <1>1, <1>2

\* The end of a start: without a reset since it began, there is no server that
\* its assignments could drop.
LEMMA OutcomeHolds ==
  ASSUME NEW s, ServerInv(s), NEW k \in s.pending,
         NEW how \in {"own", "joined", "failed"}
  PROVE  ServerInv(Outcome(s, k, how))
<1> DEFINE t == Outcome(s, k, how)
<1>1. /\ s \in Server /\ k \in 1..s.attempts /\ s.attempts \in Nat /\ k # None
      /\ k \notin s.mine
  BY DEF ServerInv, Shaped, Server, None
<1>2. /\ t \in Server /\ t.attempts = s.attempts /\ t.pending = s.pending \ {k}
      /\ t.disowned = s.disowned
      /\ \/ /\ t.client = k /\ t.server = k /\ t.starting = s.starting
            /\ t.mine = s.mine \cup {k} /\ t.up = s.up \cup {k}
         \/ /\ t.client = k /\ t.server = None /\ t.starting = s.starting
            /\ t.mine = s.mine /\ t.up = s.up \cup {k}
         \/ /\ t.client = None /\ t.server = None /\ t.starting = None
            /\ t.mine = s.mine /\ t.up = s.up
  <2>1. CASE how = "own"
    BY <1>1, <2>1 DEF Outcome, Server
  <2>2. CASE how = "joined"
    BY <1>1, <2>2 DEF Outcome, Server, None
  <2>3. CASE how = "failed"
    BY <1>1, <2>3 DEF Outcome, Server, None
  <2>4. QED BY <2>1, <2>2, <2>3
<1> HIDE DEF t
<1>3. Shaped(t)
  BY <1>1, <1>2 DEF ServerInv, Shaped, None
<1>4. Held(t)
  <2>1. CASE s.disowned
    BY <1>2, <2>1 DEF Held
  <2>2. CASE ~s.disowned
    <3>1. /\ s.pending = {k} /\ s.client = None /\ s.server = None
          /\ s.mine \cap s.up \subseteq {None}
      BY <2>2 DEF ServerInv, Held, Shaped
    <3>2. t.pending = {} /\ s.mine \cap s.up = {}
      BY <1>1, <1>2, <3>1 DEF ServerInv, Shaped, None
    <3>3. t.mine \cap t.up \subseteq {t.server}
      BY <1>1, <1>2, <3>2
    <3>4. QED BY <3>2, <3>3 DEF Held
  <2>3. QED BY <2>1, <2>2
<1>5. QED BY <1>3, <1>4 DEF ServerInv, t

\* The death of a server.
LEMMA DeathHolds ==
  ASSUME NEW s, ServerInv(s), NEW k
  PROVE  ServerInv([s EXCEPT !.up = @ \ {k}])
<1> DEFINE t == [s EXCEPT !.up = @ \ {k}]
<1>1. /\ t \in Server /\ t.attempts = s.attempts /\ t.pending = s.pending
      /\ t.disowned = s.disowned /\ t.client = s.client /\ t.server = s.server
      /\ t.starting = s.starting /\ t.mine = s.mine /\ t.up = s.up \ {k}
  BY DEF ServerInv, Shaped, Server
<1> HIDE DEF t
<1>2. Shaped(t) /\ Held(t)
  BY <1>1 DEF ServerInv, Shaped, Held
<1>3. QED BY <1>2 DEF ServerInv, t

\* What the drain and the end of a task do to the server.
LEMMA DrainServer ==
  ASSUME NEW c, NEW holder, NEW st, NEW s, NEW settled,
         Drain(c, holder, st, s, settled), ServerInv(s)
  PROVE  ServerInv(srv')
BY EnsureHolds DEF Drain, BeginTask

LEMMA FinishServer ==
  ASSUME NEW d, NEW s, Finish(d, s), ServerInv(s)
  PROVE  ServerInv(srv')
BY DrainServer DEF Finish

\* Every step keeps the invariant.
LEMMA StepServer == ServerInv(srv) /\ [OpenCodeNext]_openCodeVars => ServerInv(srv')
<1> SUFFICES ASSUME ServerInv(srv), [OpenCodeNext]_openCodeVars PROVE ServerInv(srv')
  OBVIOUS
<1>1. ASSUME NEW d \in Tasks, Dispatch(d) PROVE ServerInv(srv')
  BY <1>1, EnsureHolds DEF Dispatch, BeginTask
<1>2. ASSUME NEW d \in Tasks, Continue(d) PROVE ServerInv(srv')
  BY <1>2, DrainServer DEF Continue
<1>3. ASSUME NEW d, Run(d) PROVE ServerInv(srv')
  BY <1>3, DrainServer DEF Run
<1>4. ASSUME NEW d \in Tasks, Proceed(d) PROVE ServerInv(srv')
  BY <1>3, <1>4 DEF Proceed
<1>5. ASSUME NEW d \in Tasks, EnsureTimesOut(d) PROVE ServerInv(srv')
  BY <1>5 DEF EnsureTimesOut
<1>6. ASSUME NEW d \in Tasks, Created(d) PROVE ServerInv(srv')
  BY <1>3, <1>6 DEF Created
<1>7. ASSUME NEW d \in Tasks, CreateFails(d) PROVE ServerInv(srv')
  BY <1>7, ResetHolds DEF CreateFails
<1>8. ASSUME NEW d \in Tasks, NEW connection, CatchError(d, connection)
      PROVE  ServerInv(srv')
  BY <1>8, FinishServer, ResetHolds DEF CatchError
<1>9. ASSUME NEW d \in Tasks, PromptBreaks(d) \/ PromptExpires(d) PROVE ServerInv(srv')
  BY <1>8, <1>9 DEF PromptBreaks, PromptExpires
<1>10. ASSUME NEW d \in Tasks, TaskTimesOut(d) \/ AbortReturns(d) PROVE ServerInv(srv')
  BY <1>10 DEF TaskTimesOut, AbortReturns
<1>11. ASSUME NEW d \in Tasks, NEW how, PromptReturns(d, how) PROVE ServerInv(srv')
  BY <1>11, FinishServer DEF PromptReturns
<1>12. ASSUME NEW k \in srv.pending, NEW how \in {"own", "joined", "failed"},
              StartEnds(k, how)
       PROVE  ServerInv(srv')
  BY <1>12, OutcomeHolds DEF StartEnds
<1>13. ASSUME NEW k, ServerDies(k) PROVE ServerInv(srv')
  BY <1>13, DeathHolds DEF ServerDies
<1>14. ASSUME NEW cs, NEW victims, Abort(cs, victims) PROVE ServerInv(srv')
  BY <1>14 DEF Abort
<1>15. CASE UNCHANGED openCodeVars
  BY <1>15 DEF openCodeVars
<1>16. ASSUME NEW d \in Tasks, Step(d) PROVE ServerInv(srv')
  BY <1>1, <1>2, <1>4, <1>5, <1>6, <1>7, <1>9, <1>10, <1>11, <1>16 DEF Step
<1>17. QED
  BY <1>12, <1>13, <1>14, <1>15, <1>16
  DEF OpenCodeNext, AbortConversation, AbortAll

\* No server that was started here is lost, whichever errors reset the state and
\* whichever starts and dispatches overlap, unless a reset came during a start.
THEOREM NoServerLostCorrect == OpenCodeSpec => []NoServerLost
<1>1. ServerInv(srv) => NoServerLost
  BY DEF ServerInv, Held, NoServerLost
<1>2. ServerInv(srv)' <=> ServerInv(srv')
  BY DEF ServerInv, Shaped, Held
<1>3. ServerInv(srv) /\ [OpenCodeNext]_openCodeVars => ServerInv(srv)'
  BY <1>2, StepServer
<1>4. QED BY <1>1, <1>3, InitServer, PTL DEF OpenCodeSpec

----------------------------------------------------------------------------
(* OpenCodePlugin: the tasks and their queues.                             *)

Places == {"new", "queued", "flushed", "starting", "ready", "creating", "prompting", "over"}

\* The holder of a conversation is prompting, and its queue has tasks that wait.
Placed(st, act, q) ==
  /\ st \in [Tasks -> Places] /\ act \in [Convs -> 0..MaxDispatches]
  /\ q \in [Convs -> Seq(Tasks)]
  /\ \A c \in Convs :
       /\ Len(q[c]) <= QueueCap
       /\ act[c] # None => st[act[c]] = "prompting" /\ conv[act[c]] = c
       /\ \A i \in 1..Len(q[c]) : st[q[c][i]] = "queued" /\ conv[q[c][i]] = c
       /\ \A i, j \in 1..Len(q[c]) : q[c][i] = q[c][j] => i = j

\* What will drain the queue of c.
Driven(c, st, act, q, deq, due) ==
  q[c] # <<>> =>
    \/ act[c] # None
    \/ \E d \in deq : conv[d] = c /\ (d \in due \/ st[d] \in {"starting", "ready", "creating"})

Flowing(st, act, q, deq, due) ==
  /\ Placed(st, act, q) /\ deq \subseteq Tasks /\ due \subseteq deq
  /\ \A c \in Convs : Driven(c, st, act, q, deq, due)

TaskTypes ==
  /\ arrived \in 0..MaxDispatches /\ conv \in [Tasks -> Convs]
  /\ status \in [Tasks -> {"none", "running", "completed", "error", "killed"}]
  /\ notified \in [Tasks -> {"none", "done", "error"}]
  /\ reply \in [Tasks -> {"none", "ok", "failed"}]
  /\ at \in [Tasks -> 0..srv.attempts] /\ waits \in [Tasks -> 0..srv.attempts]
  /\ elapsed \subseteq Tasks /\ killed \subseteq Tasks
  /\ aborting \subseteq aborted /\ aborted \subseteq Tasks
  /\ session \subseteq Convs /\ faults \in 0..MaxFaults /\ aborts \in 0..MaxAborts

\* A dispatch that was not called is nowhere.
NewInv(st, n) == \A d \in Tasks : d > n <=> st[d] = "new"

OpenCodeInv ==
  /\ TaskTypes /\ ServerInv(srv) /\ NewInv(place, arrived)
  /\ Flowing(place, active, queue, dequeued, settling)

----------------------------------------------------------------------------
(* The drain.                                                              *)

\* What a reset, a start or the need of one does to the count of attempts.
LEMMA AttemptsFacts ==
  ASSUME NEW s, ServerInv(s)
  PROVE  /\ s.attempts \in Nat /\ {s.client, s.server, s.starting} \subseteq 0..s.attempts
         /\ Ensure(s).attempts \in {s.attempts, s.attempts + 1}
         /\ Ensure(s).starting \in 0..Ensure(s).attempts
         /\ Reset(s).attempts = s.attempts
<1>1. s \in Server /\ s.attempts \in Nat /\ {s.client, s.server, s.starting} \subseteq 0..s.attempts
  BY DEF ServerInv, Shaped, Server
<1>2. Ensure(s) = s \/ (/\ Ensure(s).attempts = s.attempts + 1
                        /\ Ensure(s).starting = s.attempts + 1)
  BY <1>1 DEF Ensure, Server
<1>3. Reset(s).attempts = s.attempts
  BY <1>1 DEF Reset, Server
<1>4. QED BY <1>1, <1>2, <1>3

\* A call that reaches its first await.
LEMMA BeginFacts ==
  ASSUME NEW d \in Tasks, NEW st \in [Tasks -> Places], NEW s, ServerInv(s),
         waits \in [Tasks -> 0..s.attempts], BeginTask(d, st, s)
  PROVE  /\ place' \in [Tasks -> Places] /\ place'[d] \in {"starting", "ready"}
         /\ \A e \in Tasks : e # d => place'[e] = st[e]
         /\ waits' \in [Tasks -> 0..srv'.attempts]
         /\ srv'.attempts \in {s.attempts, s.attempts + 1}
<1>1. /\ place' = [st EXCEPT ![d] = IF s.client # None THEN "ready" ELSE "starting"]
      /\ srv' = Ensure(s)
      /\ waits' = waits \/ waits' = [waits EXCEPT ![d] = Ensure(s).starting]
  BY DEF BeginTask
<1>2. /\ s.attempts \in Nat /\ srv'.attempts \in {s.attempts, s.attempts + 1}
      /\ Ensure(s).starting \in 0..srv'.attempts
  BY <1>1, AttemptsFacts
<1>3. 0..s.attempts \subseteq 0..srv'.attempts
  BY <1>2
<1>4. waits' \in [Tasks -> 0..srv'.attempts]
  BY <1>1, <1>2, <1>3
<1>5. QED BY <1>1, <1>2, <1>4 DEF Places

LEMMA DrainFacts ==
  ASSUME conv \in [Tasks -> Convs], NEW c \in Convs, NEW act, NEW st, NEW s, NEW settled,
         Placed(st, act, queue), NewInv(st, arrived), ServerInv(s), waits \in [Tasks -> 0..s.attempts],
         dequeued \subseteq Tasks, settled \subseteq dequeued,
         \A k \in Convs : k # c => Driven(k, st, act, queue, dequeued, settled),
         Drain(c, act[c], st, s, settled), arrived' = arrived, conv' = conv
  PROVE  /\ Flowing(place', act, queue', dequeued', settling') /\ NewInv(place', arrived')
         /\ waits' \in [Tasks -> 0..srv'.attempts]
         /\ srv'.attempts \in {s.attempts, s.attempts + 1}
<1>1. CASE act[c] # None \/ queue[c] = <<>>
  <2>1. /\ settling' = settled /\ srv' = s /\ place' = st
        /\ UNCHANGED <<queue, dequeued, waits>>
    BY <1>1 DEF Drain
  <2>2. Driven(c, st, act, queue, dequeued, settled)
    BY <1>1 DEF Driven
  <2>3. QED BY <2>1, <2>2 DEF Flowing, NewInv
<1>2. CASE act[c] = None /\ queue[c] # <<>>
  <2> DEFINE h == Head(queue[c])
  <2>1. /\ settling' = settled /\ queue' = [queue EXCEPT ![c] = Tail(queue[c])]
        /\ dequeued' = dequeued \cup {h} /\ BeginTask(h, st, s)
    BY <1>2 DEF Drain
  <2>2. /\ queue[c] \in Seq(Tasks) /\ Len(queue[c]) \in Nat /\ Len(queue[c]) # 0
        /\ h = queue[c][1] /\ h \in Tasks /\ st[h] = "queued" /\ conv[h] = c
        /\ st \in [Tasks -> Places] /\ queue \in [Convs -> Seq(Tasks)]
    BY <1>2 DEF Placed
  <2> HIDE DEF h
  <2>3. /\ place' \in [Tasks -> Places] /\ place'[h] \in {"starting", "ready"}
        /\ \A e \in Tasks : e # h => place'[e] = st[e]
        /\ waits' \in [Tasks -> 0..srv'.attempts]
        /\ srv'.attempts \in {s.attempts, s.attempts + 1}
    BY <2>1, <2>2, BeginFacts
  <2>4. /\ Tail(queue[c]) \in Seq(Tasks) /\ Len(Tail(queue[c])) = Len(queue[c]) - 1
        /\ \A i \in 1..Len(Tail(queue[c])) : /\ i + 1 \in 1..Len(queue[c])
                                             /\ Tail(queue[c])[i] = queue[c][i + 1]
    BY <2>2
  <2>5. /\ queue' \in [Convs -> Seq(Tasks)] /\ queue'[c] = Tail(queue[c])
        /\ \A k \in Convs : k # c => queue'[k] = queue[k]
    BY <2>1, <2>2, <2>4
  <2>6. Placed(place', act, queue')
    <3> SUFFICES ASSUME NEW k \in Convs
                 PROVE  /\ Len(queue'[k]) <= QueueCap
                        /\ act[k] # None => place'[act[k]] = "prompting" /\ conv[act[k]] = k
                        /\ \A i \in 1..Len(queue'[k]) :
                             place'[queue'[k][i]] = "queued" /\ conv[queue'[k][i]] = k
                        /\ \A i, j \in 1..Len(queue'[k]) : queue'[k][i] = queue'[k][j] => i = j
      BY <2>3, <2>5 DEF Placed
    <3>1. act[k] # None => place'[act[k]] = "prompting" /\ conv[act[k]] = k
      <4>1. act[k] # None => act[k] \in Tasks /\ st[act[k]] = "prompting" /\ conv[act[k]] = k
        BY OpenCodeAssumption DEF Placed, Tasks, None
      <4>2. QED BY <2>2, <2>3, <4>1
    <3>2. CASE k = c
      <4> DEFINE q == queue[c]
                 t == queue'[c]
      <4>0. /\ \A i \in 1..Len(q) : q[i] \in Tasks /\ st[q[i]] = "queued" /\ conv[q[i]] = c
            /\ \A i, j \in 1..Len(q) : q[i] = q[j] => i = j
            /\ Len(q) \in Nat /\ 1 \in 1..Len(q) /\ h = q[1] /\ Len(t) = Len(q) - 1
            /\ \A i \in 1..Len(t) : i + 1 \in 1..Len(q) /\ t[i] = q[i + 1]
        <5>1. \A i \in 1..Len(q) : q[i] \in Tasks /\ st[q[i]] = "queued" /\ conv[q[i]] = c
          BY <2>2 DEF Placed
        <5>2. \A i, j \in 1..Len(q) : q[i] = q[j] => i = j
          BY DEF Placed
        <5>3. QED BY <2>2, <2>4, <2>5, <5>1, <5>2
      <4> HIDE DEF q, t
      <4>1. \A i \in 1..Len(t) : t[i] \in Tasks /\ t[i] # h /\ st[t[i]] = "queued" /\ conv[t[i]] = c
        <5> TAKE i \in 1..Len(t)
        <5>1. i + 1 \in 1..Len(q) /\ t[i] = q[i + 1] /\ i + 1 # 1
          BY <4>0
        <5>2. q[i + 1] # q[1]
          BY <4>0, <5>1
        <5>3. QED BY <4>0, <5>1, <5>2
      <4>2. \A i, j \in 1..Len(t) : t[i] = t[j] => i = j
        <5> TAKE i, j \in 1..Len(t)
        <5>1. /\ i + 1 \in 1..Len(q) /\ t[i] = q[i + 1] /\ i \in Int
              /\ j + 1 \in 1..Len(q) /\ t[j] = q[j + 1] /\ j \in Int
          BY <4>0
        <5>2. q[i + 1] = q[j + 1] => i + 1 = j + 1
          BY <4>0, <5>1
        <5>3. QED BY <5>1, <5>2
      <4>3. Len(queue'[c]) <= QueueCap
        BY <2>2, <2>4, <2>5, OpenCodeAssumption DEF Placed
      <4>4. QED BY <2>3, <3>1, <3>2, <4>1, <4>2, <4>3 DEF t
    <3>3. CASE k # c
      <4>1. queue'[k] = queue[k]
        BY <2>5, <3>3
      <4>2. \A i \in 1..Len(queue[k]) : /\ queue[k][i] \in Tasks /\ queue[k][i] # h
                                        /\ st[queue[k][i]] = "queued" /\ conv[queue[k][i]] = k
        <5>1. \A i \in 1..Len(queue[k]) : queue[k][i] \in Tasks
          BY <2>2
        <5>2. \A i \in 1..Len(queue[k]) : st[queue[k][i]] = "queued" /\ conv[queue[k][i]] = k
          BY DEF Placed
        <5>3. QED BY <2>2, <3>3, <5>1, <5>2
      <4>3. Len(queue[k]) <= QueueCap
            /\ \A i, j \in 1..Len(queue[k]) : queue[k][i] = queue[k][j] => i = j
        BY DEF Placed
      <4>4. QED BY <2>3, <3>1, <4>1, <4>2, <4>3
    <3>4. QED BY <3>2, <3>3
  <2>7. ASSUME NEW k \in Convs PROVE Driven(k, place', act, queue', dequeued', settling')
    <3>1. CASE k = c
      BY <2>1, <2>2, <2>3, <3>1 DEF Driven
    <3>2. CASE k # c
      <4>1. queue'[k] = queue[k] /\ Driven(k, st, act, queue, dequeued, settled)
        BY <2>5, <3>2
      <4>2. ASSUME NEW d \in dequeued, conv[d] = k,
                   d \in settled \/ st[d] \in {"starting", "ready", "creating"}
            PROVE  /\ d \in dequeued' /\ conv[d] = k
                   /\ d \in settling' \/ place'[d] \in {"starting", "ready", "creating"}
        BY <2>1, <2>2, <2>3, <3>2, <4>2
      <4>3. QED BY <4>1, <4>2 DEF Driven
    <3>3. QED BY <3>1, <3>2
  <2>8. NewInv(place', arrived')
    BY <2>2, <2>3 DEF NewInv
  <2>9. QED BY <2>1, <2>2, <2>3, <2>6, <2>7, <2>8 DEF Flowing
<1>3. QED BY <1>1, <1>2

\* A handler that moves tasks, other than those that wait, and leaves the queues:
\* they keep their drivers but for those of the conversations X.
LEMMA MoveFacts ==
  ASSUME NEW X, conv \in [Tasks -> Convs], Flowing(place, active, queue, dequeued, settling),
         NEW st \in [Tasks -> Places], NEW act \in [Convs -> 0..MaxDispatches], NEW settled,
         settled \subseteq dequeued,
         \A e \in settling : e \in settled \/ conv[e] \in X,
         \A e \in Tasks : place[e] = "queued" => st[e] = "queued",
         \A c \in Convs : act[c] # None => st[act[c]] = "prompting" /\ conv[act[c]] = c,
         \A c \in Convs : active[c] # None => act[c] # None \/ c \in X,
         \A e \in dequeued : place[e] \in {"starting", "ready", "creating"} =>
           \/ e \in settled \/ st[e] \in {"starting", "ready", "creating"}
           \/ act[conv[e]] # None \/ conv[e] \in X
  PROVE  /\ Placed(st, act, queue)
         /\ \A c \in Convs : c \notin X => Driven(c, st, act, queue, dequeued, settled)
<1>1. Placed(place, active, queue) /\ dequeued \subseteq Tasks
  BY DEF Flowing
<1>2. Placed(st, act, queue)
  <2>1. \A c \in Convs : \A i \in 1..Len(queue[c]) : queue[c][i] \in Tasks
    BY <1>1 DEF Placed
  <2>2. QED BY <1>1, <2>1 DEF Placed
<1>3. ASSUME NEW c \in Convs, c \notin X, queue[c] # <<>>, act[c] = None
      PROVE  \E d \in dequeued : conv[d] = c /\ (d \in settled \/ st[d] \in {"starting", "ready", "creating"})
  <2>1. Driven(c, place, active, queue, dequeued, settling) /\ active[c] = None
    BY <1>3 DEF Flowing
  <2>2. PICK d \in dequeued :
               conv[d] = c /\ (d \in settling \/ place[d] \in {"starting", "ready", "creating"})
    BY <1>3, <2>1 DEF Driven
  <2>3. QED BY <1>3, <2>2
<1>4. QED BY <1>2, <1>3 DEF Driven

\* The end of a task that prompts.
LEMMA FinishFacts ==
  ASSUME OpenCodeInv, NEW d \in Tasks, place[d] = "prompting", NEW s, ServerInv(s),
         s.attempts = srv.attempts, Finish(d, s), UNCHANGED calls
  PROVE  /\ Flowing(place', active', queue', dequeued', settling') /\ NewInv(place', arrived')
         /\ waits' \in [Tasks -> 0..srv'.attempts] /\ at' \in [Tasks -> 0..srv'.attempts]
         /\ elapsed' \subseteq Tasks
<1> DEFINE c   == conv[d]
           act == IF active[c] = d THEN [active EXCEPT ![c] = None] ELSE active
           st  == [place EXCEPT ![d] = "over"]
           X   == {c}
           settled == settling \cup ({d} \cap dequeued)
<1>1. /\ conv \in [Tasks -> Convs] /\ c \in Convs /\ NewInv(place, arrived)
      /\ Flowing(place, active, queue, dequeued, settling) /\ Placed(place, active, queue)
      /\ dequeued \subseteq Tasks /\ settling \subseteq dequeued
      /\ waits \in [Tasks -> 0..s.attempts] /\ at \in [Tasks -> 0..srv.attempts]
      /\ elapsed \subseteq Tasks
  BY DEF OpenCodeInv, TaskTypes, Flowing
<1>2. /\ active' = act /\ at' = [at EXCEPT ![d] = None] /\ elapsed' = elapsed \ {d}
      /\ Drain(c, act[c], st, s, settled) /\ arrived' = arrived /\ conv' = conv
  BY DEF Finish, calls
<1>3. /\ place \in [Tasks -> Places] /\ active \in [Convs -> 0..MaxDispatches]
      /\ st \in [Tasks -> Places] /\ \A e \in Tasks : e # d => st[e] = place[e]
      /\ act \in [Convs -> 0..MaxDispatches]
      /\ \A k \in Convs : \/ act[k] = active[k] /\ (k # c \/ active[k] # d)
                          \/ act[k] = None /\ k = c
  BY <1>1, OpenCodeAssumption DEF Placed, Places, None
<1>4. \A k \in Convs : act[k] # None => st[act[k]] = "prompting" /\ conv[act[k]] = k
  <2> SUFFICES ASSUME NEW k \in Convs, act[k] # None
               PROVE  st[act[k]] = "prompting" /\ conv[act[k]] = k
    OBVIOUS
  <2>1. act[k] = active[k] /\ (k = c => active[k] # d)
    BY <1>3
  <2>2. active[k] \in Tasks /\ place[active[k]] = "prompting" /\ conv[active[k]] = k
    BY <1>1, <1>3, <2>1, OpenCodeAssumption DEF Placed, Tasks, None
  <2>3. active[k] # d
    BY <2>1, <2>2
  <2>4. QED BY <1>3, <2>1, <2>2, <2>3
<1>5. NewInv(st, arrived)
  BY <1>1, <1>3 DEF NewInv
<1> HIDE DEF act, st, c
<1>6. /\ Placed(st, act, queue)
      /\ \A k \in Convs : k \notin X => Driven(k, st, act, queue, dequeued, settled)
  <2>1. \A e \in Tasks : place[e] = "queued" => st[e] = "queued"
    BY <1>3
  <2>2. \A k \in Convs : active[k] # None => act[k] # None \/ k \in X
    BY <1>3
  <2>3. \A e \in dequeued : place[e] \in {"starting", "ready", "creating"} =>
           st[e] \in {"starting", "ready", "creating"}
    BY <1>1, <1>3
  <2>4. QED BY <1>1, <1>3, <1>4, <2>1, <2>2, <2>3, MoveFacts
<1>7. /\ Flowing(place', act, queue', dequeued', settling') /\ NewInv(place', arrived')
      /\ waits' \in [Tasks -> 0..srv'.attempts]
      /\ srv'.attempts \in {s.attempts, s.attempts + 1}
  <2>1. \A k \in Convs : k # c => Driven(k, st, act, queue, dequeued, settled)
    BY <1>6
  <2>2. settled \subseteq dequeued
    BY <1>1
  <2> HIDE DEF settled
  <2>3. QED BY <1>1, <1>2, <1>5, <1>6, <2>1, <2>2, DrainFacts
<1>8. at' \in [Tasks -> 0..srv'.attempts]
  <2>1. s.attempts \in Nat
    BY AttemptsFacts
  <2>2. 0..srv.attempts \subseteq 0..srv'.attempts /\ None \in 0..srv'.attempts
    BY <1>7, <2>1 DEF None
  <2>3. QED BY <1>1, <1>2, <2>2
<1>9. QED BY <1>1, <1>2, <1>7, <1>8

\* A refusal of tasks whose calls are under way.
LEMMA RefuseFacts ==
  ASSUME OpenCodeInv, NEW ds \in SUBSET Tasks, Refuse(ds),
         \A e \in ds : place[e] \notin {"queued", "prompting"}
  PROVE  /\ Flowing(place', active, queue, dequeued, settling')
         /\ \A e \in Tasks : place'[e] = IF e \in ds THEN "over" ELSE place[e]
         /\ notified' \in [Tasks -> {"none", "done", "error"}]
         /\ reply' \in [Tasks -> {"none", "ok", "failed"}]
<1> DEFINE X == {}
<1>1. /\ conv \in [Tasks -> Convs]
      /\ Flowing(place, active, queue, dequeued, settling) /\ Placed(place, active, queue)
      /\ dequeued \subseteq Tasks /\ settling \subseteq dequeued
      /\ place \in [Tasks -> Places] /\ active \in [Convs -> 0..MaxDispatches]
  BY DEF OpenCodeInv, TaskTypes, Flowing, Placed
<1>2. /\ notified' \in [Tasks -> {"none", "done", "error"}]
      /\ reply' \in [Tasks -> {"none", "ok", "failed"}]
  BY DEF Refuse, OpenCodeInv, TaskTypes
<1>3. /\ \A e \in Tasks : place'[e] = IF e \in ds THEN "over" ELSE place[e]
      /\ place' \in [Tasks -> Places] /\ settling' = settling \cup (ds \cap dequeued)
  BY <1>1 DEF Refuse, Places
<1>4. \A c \in Convs : active[c] # None => place'[active[c]] = "prompting" /\ conv[active[c]] = c
  <2> SUFFICES ASSUME NEW c \in Convs, active[c] # None
               PROVE  place'[active[c]] = "prompting" /\ conv[active[c]] = c
    OBVIOUS
  <2>1. active[c] \in Tasks /\ place[active[c]] = "prompting" /\ conv[active[c]] = c
    BY <1>1, OpenCodeAssumption DEF Placed, Tasks, None
  <2>2. QED BY <1>3, <2>1
<1>5. /\ Placed(place', active, queue)
      /\ \A k \in Convs : k \notin X => Driven(k, place', active, queue, dequeued, settling')
  <2>1. \A e \in Tasks : place[e] = "queued" => place'[e] = "queued"
    BY <1>3
  <2>2. \A e \in dequeued : place[e] \in {"starting", "ready", "creating"} =>
           e \in settling' \/ place'[e] \in {"starting", "ready", "creating"}
    BY <1>1, <1>3
  <2>3. settling' \subseteq dequeued /\ \A e \in settling : e \in settling' \/ conv[e] \in X
    BY <1>1, <1>3
  <2>4. \A k \in Convs : active[k] # None => active[k] # None \/ k \in X
    OBVIOUS
  <2> HIDE DEF X
  <2>5. QED BY <1>1, <1>3, <1>4, <2>1, <2>2, <2>3, <2>4, MoveFacts
<1>6. QED BY <1>1, <1>2, <1>3, <1>5 DEF Flowing

\* A task is registered and prompts, or finds no client.
LEMMA RunFacts ==
  ASSUME OpenCodeInv, NEW d \in Tasks, place[d] \in {"ready", "creating"}, Run(d), UNCHANGED calls
  PROVE  /\ Flowing(place', active', queue', dequeued', settling') /\ NewInv(place', arrived')
         /\ waits' \in [Tasks -> 0..srv'.attempts] /\ at' \in [Tasks -> 0..srv'.attempts]
         /\ status' \in [Tasks -> {"none", "running", "completed", "error", "killed"}]
         /\ notified' \in [Tasks -> {"none", "done", "error"}]
         /\ reply' \in [Tasks -> {"none", "ok", "failed"}] /\ killed' \subseteq Tasks
<1> DEFINE c == conv[d]
           X == {c}
<1>1. /\ conv \in [Tasks -> Convs] /\ c \in Convs /\ NewInv(place, arrived) /\ ServerInv(srv)
      /\ Flowing(place, active, queue, dequeued, settling) /\ Placed(place, active, queue)
      /\ dequeued \subseteq Tasks /\ settling \subseteq dequeued
      /\ waits \in [Tasks -> 0..srv.attempts] /\ at \in [Tasks -> 0..srv.attempts]
      /\ place \in [Tasks -> Places] /\ active \in [Convs -> 0..MaxDispatches]
      /\ arrived' = arrived /\ conv' = conv /\ killed \subseteq Tasks
      /\ status \in [Tasks -> {"none", "running", "completed", "error", "killed"}]
      /\ notified \in [Tasks -> {"none", "done", "error"}]
      /\ reply \in [Tasks -> {"none", "ok", "failed"}]
  BY DEF OpenCodeInv, TaskTypes, Flowing, Placed, calls
<1>2. /\ status' \in [Tasks -> {"none", "running", "completed", "error", "killed"}]
      /\ notified' \in [Tasks -> {"none", "done", "error"}]
      /\ reply' \in [Tasks -> {"none", "ok", "failed"}] /\ killed' = killed
  BY <1>1 DEF Run
<1>3. srv.attempts \in Nat /\ srv.client \in 0..srv.attempts
  BY <1>1, AttemptsFacts
<1>4. \A k \in Convs : active[k] # None =>
        active[k] \in Tasks /\ place[active[k]] = "prompting" /\ conv[active[k]] = k
  BY <1>1, OpenCodeAssumption DEF Placed, Tasks, None
<1>5. CASE srv.client # None
  <2>1. /\ active' = [active EXCEPT ![c] = d] /\ place' = [place EXCEPT ![d] = "prompting"]
        /\ at' = [at EXCEPT ![d] = srv.client] /\ UNCHANGED <<queue, dequeued, settling, waits, srv>>
    BY <1>5 DEF Run
  <2>2. /\ place' \in [Tasks -> Places] /\ place'[d] = "prompting"
        /\ \A e \in Tasks : e # d => place'[e] = place[e]
        /\ active' \in [Convs -> 0..MaxDispatches] /\ active'[c] = d
        /\ \A k \in Convs : k # c => active'[k] = active[k]
    <3>1. d \in 0..MaxDispatches
      BY OpenCodeAssumption DEF Tasks
    <3>2. QED BY <1>1, <2>1, <3>1 DEF Places
  <2>3. d # None
    BY OpenCodeAssumption DEF Tasks, None
  <2>4. \A k \in Convs : active'[k] # None => place'[active'[k]] = "prompting" /\ conv[active'[k]] = k
    BY <1>4, <2>2
  <2>5. /\ Placed(place', active', queue)
        /\ \A k \in Convs : k \notin {} => Driven(k, place', active', queue, dequeued, settling)
    <3> DEFINE Y == {}
    <3>1. \A e \in Tasks : place[e] = "queued" => place'[e] = "queued"
      BY <2>2
    <3>2. \A k \in Convs : active[k] # None => active'[k] # None \/ k \in Y
      BY <2>2, <2>3
    <3>3. \A e \in dequeued : place[e] \in {"starting", "ready", "creating"} =>
            \/ e \in settling \/ place'[e] \in {"starting", "ready", "creating"}
            \/ active'[conv[e]] # None \/ conv[e] \in Y
      BY <1>1, <2>2, <2>3
    <3>4. \A e \in settling : e \in settling \/ conv[e] \in Y
      OBVIOUS
    <3>5. \A k \in Convs : k \notin Y => k \notin {}
      OBVIOUS
    <3>6. /\ Placed(place', active', queue)
          /\ \A k \in Convs : k \notin Y => Driven(k, place', active', queue, dequeued, settling)
      <4> HIDE DEF Y
      <4>1. QED BY <1>1, <2>2, <2>4, <3>1, <3>2, <3>3, <3>4, MoveFacts
    <3>7. QED BY <3>6
  <2>6. NewInv(place', arrived')
    BY <1>1, <2>2 DEF NewInv
  <2>7. at' \in [Tasks -> 0..srv'.attempts]
    BY <1>1, <1>3, <2>1
  <2>8. QED BY <1>1, <1>2, <2>1, <2>5, <2>6, <2>7 DEF Flowing
<1>6. CASE srv.client = None
  <2> DEFINE act == [active EXCEPT ![c] = None]
             st  == [place EXCEPT ![d] = "over"]
             settled == settling \cup ({d} \cap dequeued)
  <2>1. /\ active' = act /\ at' = [at EXCEPT ![d] = None]
        /\ Drain(c, None, st, srv, settled)
    BY <1>6 DEF Run
  <2>2. /\ st \in [Tasks -> Places] /\ st[d] = "over" /\ \A e \in Tasks : e # d => st[e] = place[e]
        /\ act \in [Convs -> 0..MaxDispatches] /\ act[c] = None
        /\ \A k \in Convs : k # c => act[k] = active[k]
    BY <1>1, OpenCodeAssumption DEF Places, None
  <2> HIDE DEF act, st
  <2>3. \A k \in Convs : act[k] # None => st[act[k]] = "prompting" /\ conv[act[k]] = k
    <3> SUFFICES ASSUME NEW k \in Convs, act[k] # None
                 PROVE  st[act[k]] = "prompting" /\ conv[act[k]] = k
      OBVIOUS
    <3>1. k # c /\ act[k] = active[k]
      BY <2>2
    <3>2. QED BY <1>4, <2>2, <3>1
  <2>4. /\ Placed(st, act, queue)
        /\ \A k \in Convs : k \notin X => Driven(k, st, act, queue, dequeued, settled)
    <3>1. \A e \in Tasks : place[e] = "queued" => st[e] = "queued"
      BY <2>2
    <3>2. \A k \in Convs : active[k] # None => act[k] # None \/ k \in X
      BY <2>2
    <3>3. \A e \in dequeued : place[e] \in {"starting", "ready", "creating"} =>
            \/ e \in settled \/ st[e] \in {"starting", "ready", "creating"}
            \/ act[conv[e]] # None \/ conv[e] \in X
      BY <1>1, <2>2
    <3>4. settled \subseteq dequeued /\ \A e \in settling : e \in settled \/ conv[e] \in X
      BY <1>1
    <3> HIDE DEF X, settled
    <3>5. QED BY <1>1, <2>2, <2>3, <3>1, <3>2, <3>3, <3>4, MoveFacts
  <2>5. NewInv(st, arrived)
    BY <1>1, <2>2 DEF NewInv
  <2>6. /\ Flowing(place', act, queue', dequeued', settling') /\ NewInv(place', arrived')
        /\ waits' \in [Tasks -> 0..srv'.attempts]
        /\ srv'.attempts \in {srv.attempts, srv.attempts + 1}
    <3>1. \A k \in Convs : k # c => Driven(k, st, act, queue, dequeued, settled)
      BY <2>4
    <3>2. settled \subseteq dequeued
      BY <1>1
    <3>3. Drain(c, act[c], st, srv, settled)
      BY <2>1, <2>2
    <3> HIDE DEF settled, c
    <3>4. QED BY <1>1, <2>4, <2>5, <3>1, <3>2, <3>3, DrainFacts
  <2>7. at' \in [Tasks -> 0..srv'.attempts]
    <3>1. 0..srv.attempts \subseteq 0..srv'.attempts /\ None \in 0..srv'.attempts
      BY <1>3, <2>6 DEF None
    <3>2. QED BY <1>1, <2>1, <3>1
  <2>8. QED BY <1>1, <1>2, <2>1, <2>6, <2>7
<1>7. QED BY <1>5, <1>6

----------------------------------------------------------------------------
(* The handlers.                                                           *)

\* What a step keeps, but for the server.
TasksKept ==
  TaskTypes' /\ NewInv(place', arrived') /\ Flowing(place', active', queue', dequeued', settling')

LEMMA DispatchStep ==
  ASSUME OpenCodeInv, NEW d \in Tasks, Dispatch(d)
  PROVE  TasksKept
<1> DEFINE c == conv[d]
           busy == active[c] # None /\ active[c] \in Running
<1>1. /\ TaskTypes /\ c \in Convs /\ NewInv(place, arrived) /\ ServerInv(srv)
      /\ Flowing(place, active, queue, dequeued, settling) /\ Placed(place, active, queue)
      /\ dequeued \subseteq Tasks /\ settling \subseteq dequeued
      /\ place \in [Tasks -> Places] /\ active \in [Convs -> 0..MaxDispatches]
      /\ queue \in [Convs -> Seq(Tasks)]
  BY DEF OpenCodeInv, TaskTypes, Flowing, Placed
<1>2. /\ d = arrived + 1 /\ arrived' = d
      /\ UNCHANGED <<conv, elapsed, killed, aborting, aborts, aborted, active, dequeued, at,
                     session, faults, status>>
      /\ \/ /\ busy /\ Len(queue[c]) < QueueCap
            /\ queue' = [queue EXCEPT ![c] = Append(queue[c], d)]
            /\ place' = [place EXCEPT ![d] = "queued"]
            /\ UNCHANGED <<notified, reply, settling, waits, srv>>
         \/ Refuse({d}) /\ UNCHANGED <<queue, waits, srv>>
         \/ BeginTask(d, place, srv) /\ UNCHANGED <<notified, reply, queue, settling>>
  BY DEF Dispatch, timer, task
<1>3. /\ place[d] = "new" /\ arrived' \in 0..MaxDispatches
      /\ \A e \in Tasks : e # d => (e > arrived <=> e > arrived')
  BY <1>1, <1>2, OpenCodeAssumption DEF TaskTypes, NewInv, Tasks
<1>4. \A k \in Convs : active[k] # None => active[k] \in Tasks /\ active[k] # d
                                           /\ place[active[k]] = "prompting" /\ conv[active[k]] = k
  BY <1>1, <1>3, OpenCodeAssumption DEF Placed, Tasks, None
<1>5. ASSUME notified' \in [Tasks -> {"none", "done", "error"}],
             reply' \in [Tasks -> {"none", "ok", "failed"}],
             waits' \in [Tasks -> 0..srv'.attempts], srv'.attempts \in {srv.attempts, srv.attempts + 1}
      PROVE  TaskTypes'
  <2>1. srv.attempts \in Nat
    BY <1>1, AttemptsFacts
  <2>2. 0..srv.attempts \subseteq 0..srv'.attempts
    BY <1>5, <2>1
  <2>3. at' \in [Tasks -> 0..srv'.attempts]
    BY <1>1, <1>2, <2>2 DEF TaskTypes
  <2>4. QED BY <1>1, <1>2, <1>3, <1>5, <2>3 DEF TaskTypes
<1>6. ASSUME NEW p, p # "new", place' = [place EXCEPT ![d] = p] \/
                               \A e \in Tasks : place'[e] = IF e \in {d} THEN p ELSE place[e]
      PROVE  NewInv(place', arrived')
  <2>1. place'[d] # "new" /\ \A e \in Tasks : e # d => place'[e] = place[e]
    BY <1>1, <1>6
  <2>2. ~(d > arrived')
    BY <1>2, <1>3, OpenCodeAssumption DEF Tasks
  <2>3. QED BY <1>1, <1>3, <2>1, <2>2 DEF NewInv
<1>7. CASE /\ busy /\ Len(queue[c]) < QueueCap
           /\ queue' = [queue EXCEPT ![c] = Append(queue[c], d)]
           /\ place' = [place EXCEPT ![d] = "queued"]
           /\ UNCHANGED <<notified, reply, settling, waits, srv>>
  <2>1. TaskTypes' /\ NewInv(place', arrived')
    BY <1>1, <1>5, <1>6, <1>7 DEF TaskTypes
  <2>2. /\ place' \in [Tasks -> Places] /\ place'[d] = "queued"
        /\ \A e \in Tasks : e # d => place'[e] = place[e]
    BY <1>1, <1>7 DEF Places
  <2>3. /\ queue[c] \in Seq(Tasks) /\ Len(queue[c]) \in Nat
        /\ queue' \in [Convs -> Seq(Tasks)] /\ queue'[c] = Append(queue[c], d)
        /\ \A k \in Convs : k # c => queue'[k] = queue[k]
    BY <1>1, <1>7
  <2>4. /\ Len(queue'[c]) = Len(queue[c]) + 1 /\ queue'[c][Len(queue[c]) + 1] = d
        /\ \A i \in 1..Len(queue[c]) : queue'[c][i] = queue[c][i]
    BY <2>3
  <2>5. \A k \in Convs : /\ Len(queue[k]) <= QueueCap
                         /\ \A i \in 1..Len(queue[k]) : /\ queue[k][i] \in Tasks /\ queue[k][i] # d
                                                        /\ place[queue[k][i]] = "queued"
                                                        /\ conv[queue[k][i]] = k
                         /\ \A i, j \in 1..Len(queue[k]) : queue[k][i] = queue[k][j] => i = j
    <3>1. \A k \in Convs : \A i \in 1..Len(queue[k]) : queue[k][i] \in Tasks
      BY <1>1
    <3>2. QED BY <1>1, <1>3, <3>1 DEF Placed
  <2>6. Placed(place', active, queue')
    <3> SUFFICES ASSUME NEW k \in Convs
                 PROVE  /\ Len(queue'[k]) <= QueueCap
                        /\ active[k] # None => place'[active[k]] = "prompting" /\ conv[active[k]] = k
                        /\ \A i \in 1..Len(queue'[k]) :
                             place'[queue'[k][i]] = "queued" /\ conv[queue'[k][i]] = k
                        /\ \A i, j \in 1..Len(queue'[k]) : queue'[k][i] = queue'[k][j] => i = j
      BY <1>1, <2>2, <2>3 DEF Placed
    <3>0. active[k] # None => place'[active[k]] = "prompting" /\ conv[active[k]] = k
      BY <1>4, <2>2
    <3>1. CASE k # c
      <4>1. queue'[k] = queue[k]
        BY <2>3, <3>1
      <4>2. \A i \in 1..Len(queue[k]) : place'[queue[k][i]] = "queued" /\ conv[queue[k][i]] = k
        BY <2>2, <2>5
      <4>3. QED BY <2>5, <3>0, <4>1, <4>2
    <3>2. CASE k = c
      <4>1. Len(queue'[c]) <= QueueCap
        BY <1>7, <2>3, <2>4, OpenCodeAssumption
      <4> DEFINE q == queue[c]
                 t == queue'[c]
                 n == Len(q)
      <4>2. /\ n \in Nat /\ Len(t) = n + 1 /\ t[n + 1] = d /\ \A i \in 1..n : t[i] = q[i]
            /\ \A i \in 1..n : /\ q[i] \in Tasks /\ q[i] # d /\ place[q[i]] = "queued"
                               /\ conv[q[i]] = c
            /\ \A i, j \in 1..n : q[i] = q[j] => i = j
        <5>1. n \in Nat /\ Len(t) = n + 1 /\ t[n + 1] = d /\ \A i \in 1..n : t[i] = q[i]
          BY <2>3, <2>4
        <5>2. \A i \in 1..n : q[i] \in Tasks /\ q[i] # d /\ place[q[i]] = "queued" /\ conv[q[i]] = c
          BY <1>1, <2>5
        <5>3. \A i, j \in 1..n : q[i] = q[j] => i = j
          BY <1>1, <2>5
        <5>4. QED BY <5>1, <5>2, <5>3
      <4> HIDE DEF q, t, n
      <4>3. \A i \in 1..Len(t) : place'[t[i]] = "queued" /\ conv[t[i]] = c
        <5> TAKE i \in 1..Len(t)
        <5>1. CASE i \in 1..n
          <6>1. t[i] \in Tasks /\ t[i] # d /\ place[t[i]] = "queued" /\ conv[t[i]] = c
            BY <4>2, <5>1
          <6>2. QED BY <2>2, <6>1
        <5>2. CASE i = n + 1
          BY <2>2, <4>2, <5>2
        <5>3. QED BY <4>2, <5>1, <5>2
      <4>4. \A i, j \in 1..Len(t) : t[i] = t[j] => i = j
        BY <4>2
      <4>5. QED BY <3>0, <3>2, <4>1, <4>3, <4>4 DEF t
    <3>3. QED BY <3>1, <3>2
  <2>7. \A k \in Convs : Driven(k, place', active, queue', dequeued, settling)
    <3> TAKE k \in Convs
    <3>1. CASE k = c
      BY <1>7, <3>1 DEF Driven
    <3>2. CASE k # c
      <4>1. Driven(k, place, active, queue, dequeued, settling) /\ queue'[k] = queue[k]
        BY <1>1, <2>3, <3>2 DEF Flowing
      <4>2. \A e \in dequeued : place[e] \in {"starting", "ready", "creating"} => place'[e] = place[e]
        BY <1>1, <1>3, <2>2
      <4>3. QED BY <4>1, <4>2 DEF Driven
    <3>3. QED BY <3>1, <3>2
  <2>8. active' = active /\ dequeued' = dequeued /\ settling' = settling
    BY <1>2, <1>7
  <2>9. QED BY <1>1, <2>1, <2>6, <2>7, <2>8 DEF TasksKept, Flowing
<1>8. CASE Refuse({d}) /\ UNCHANGED <<queue, waits, srv>>
  <2>1. \A e \in {d} : place[e] \notin {"queued", "prompting"}
    BY <1>3
  <2>2. /\ Flowing(place', active, queue, dequeued, settling')
        /\ \A e \in Tasks : place'[e] = IF e \in {d} THEN "over" ELSE place[e]
        /\ notified' \in [Tasks -> {"none", "done", "error"}]
        /\ reply' \in [Tasks -> {"none", "ok", "failed"}]
    BY <1>8, <2>1, RefuseFacts
  <2>3. TaskTypes' /\ NewInv(place', arrived')
    BY <1>1, <1>5, <1>6, <1>8, <2>2 DEF TaskTypes
  <2>4. QED BY <1>2, <1>8, <2>2, <2>3 DEF TasksKept
<1>9. CASE BeginTask(d, place, srv) /\ UNCHANGED <<notified, reply, queue, settling>>
  <2>1. /\ place' \in [Tasks -> Places] /\ place'[d] \in {"starting", "ready"}
        /\ \A e \in Tasks : e # d => place'[e] = place[e]
        /\ waits' \in [Tasks -> 0..srv'.attempts]
        /\ srv'.attempts \in {srv.attempts, srv.attempts + 1}
    BY <1>1, <1>9, BeginFacts DEF TaskTypes
  <2>2. TaskTypes' /\ NewInv(place', arrived')
    <3>1. place' = [place EXCEPT ![d] = place'[d]]
      BY <1>1, <2>1
    <3>2. QED BY <1>1, <1>5, <1>6, <1>9, <2>1, <3>1 DEF TaskTypes
  <2>3. /\ Placed(place', active, queue)
        /\ \A k \in Convs : k \notin {} => Driven(k, place', active, queue, dequeued, settling)
    <3> DEFINE Y == {}
    <3>1. \A e \in Tasks : place[e] = "queued" => place'[e] = "queued"
      BY <1>3, <2>1
    <3>2. \A k \in Convs : active[k] # None => place'[active[k]] = "prompting" /\ conv[active[k]] = k
      BY <1>4, <2>1
    <3>3. \A e \in dequeued : place[e] \in {"starting", "ready", "creating"} =>
            \/ e \in settling \/ place'[e] \in {"starting", "ready", "creating"}
            \/ active[conv[e]] # None \/ conv[e] \in Y
      BY <1>1, <1>3, <2>1
    <3>4. /\ \A e \in settling : e \in settling \/ conv[e] \in Y
          /\ \A k \in Convs : active[k] # None => active[k] # None \/ k \in Y
          /\ conv \in [Tasks -> Convs]
      BY <1>1 DEF TaskTypes
    <3>5. /\ Placed(place', active, queue)
          /\ \A k \in Convs : k \notin Y => Driven(k, place', active, queue, dequeued, settling)
      <4> HIDE DEF Y
      <4>1. QED BY <1>1, <2>1, <3>1, <3>2, <3>3, <3>4, MoveFacts
    <3>6. QED BY <3>5
  <2>4. QED BY <1>1, <1>2, <1>9, <2>2, <2>3 DEF TasksKept, Flowing
<1>10. QED BY <1>2, <1>7, <1>8, <1>9

\* The parts of the invariant, for the handlers to cite.
LEMMA Parts ==
  ASSUME OpenCodeInv
  PROVE  /\ TaskTypes /\ NewInv(place, arrived) /\ ServerInv(srv) /\ srv \in Server
         /\ Flowing(place, active, queue, dequeued, settling) /\ Placed(place, active, queue)
         /\ dequeued \subseteq Tasks /\ settling \subseteq dequeued
         /\ place \in [Tasks -> Places] /\ active \in [Convs -> 0..MaxDispatches]
         /\ queue \in [Convs -> Seq(Tasks)] /\ conv \in [Tasks -> Convs]
         /\ srv.attempts \in Nat /\ srv.client \in 0..srv.attempts
         /\ \A k \in Convs : active[k] # None =>
              active[k] \in Tasks /\ place[active[k]] = "prompting" /\ conv[active[k]] = k
<1>1. /\ TaskTypes /\ NewInv(place, arrived) /\ ServerInv(srv)
      /\ Flowing(place, active, queue, dequeued, settling) /\ Placed(place, active, queue)
      /\ dequeued \subseteq Tasks /\ settling \subseteq dequeued
      /\ place \in [Tasks -> Places] /\ active \in [Convs -> 0..MaxDispatches]
      /\ queue \in [Convs -> Seq(Tasks)] /\ conv \in [Tasks -> Convs]
  BY DEF OpenCodeInv, TaskTypes, Flowing, Placed
<1>2. srv \in Server /\ srv.attempts \in Nat /\ srv.client \in 0..srv.attempts
  BY <1>1, AttemptsFacts DEF ServerInv, Shaped
<1>3. \A k \in Convs : active[k] # None =>
        active[k] \in Tasks /\ place[active[k]] = "prompting" /\ conv[active[k]] = k
  BY <1>1, OpenCodeAssumption DEF Placed, Tasks, None
<1>4. QED BY <1>1, <1>2, <1>3

\* The handlers that move tasks and change neither their queues nor their owners.
LEMMA MoveStep ==
  ASSUME OpenCodeInv, UNCHANGED <<conv, arrived, active, queue, dequeued>>, TaskTypes',
         place' \in [Tasks -> Places], settling \subseteq settling', settling' \subseteq dequeued,
         \A e \in Tasks : place[e] \in {"new", "queued", "prompting"} => place'[e] = place[e],
         \A e \in Tasks : place'[e] = "new" => place[e] = "new",
         \A e \in dequeued : place[e] \in {"starting", "ready", "creating"} =>
           e \in settling' \/ place'[e] \in {"starting", "ready", "creating"}
  PROVE  TasksKept
<1> DEFINE X == {}
<1>1. \A k \in Convs : active[k] # None => place'[active[k]] = "prompting" /\ conv[active[k]] = k
  BY Parts
<1>2. /\ \A e \in settling : e \in settling' \/ conv[e] \in X
      /\ \A k \in Convs : active[k] # None => active[k] # None \/ k \in X
      /\ \A e \in Tasks : place[e] = "queued" => place'[e] = "queued"
      /\ \A e \in dequeued : place[e] \in {"starting", "ready", "creating"} =>
           \/ e \in settling' \/ place'[e] \in {"starting", "ready", "creating"}
           \/ active[conv[e]] # None \/ conv[e] \in X
  OBVIOUS
<1>3. /\ Placed(place', active, queue)
      /\ \A k \in Convs : k \notin X => Driven(k, place', active, queue, dequeued, settling')
  <2> HIDE DEF X
  <2>1. QED BY <1>1, <1>2, Parts, MoveFacts
<1>4. NewInv(place', arrived')
  BY Parts DEF NewInv
<1>5. Flowing(place', active', queue', dequeued', settling')
  BY <1>3, Parts DEF Flowing
<1>6. QED BY <1>4, <1>5 DEF TasksKept

LEMMA ContinueStep ==
  ASSUME OpenCodeInv, NEW d \in Tasks, Continue(d)
  PROVE  TasksKept
<1> DEFINE c == conv[d]
           X == {c}
           settled == settling \ {d}
<1>1. /\ Drain(c, active[c], place, srv, settled) /\ d \in settling
      /\ UNCHANGED <<arrived, conv, status, notified, reply, elapsed, killed, aborting, aborts, aborted,
                     active, at, session, faults>>
  BY DEF Continue, calls, task, timer
<1>2. /\ TaskTypes /\ c \in Convs /\ settled \subseteq dequeued
      /\ waits \in [Tasks -> 0..srv.attempts]
  BY Parts DEF TaskTypes
<1>3. \A k \in Convs : k # c => Driven(k, place, active, queue, dequeued, settled)
  <2>1. /\ \A e \in settling : e \in settled \/ conv[e] \in X
        /\ \A k \in Convs : active[k] # None => active[k] # None \/ k \in X
        /\ \A e \in dequeued : place[e] \in {"starting", "ready", "creating"} =>
             \/ e \in settled \/ place[e] \in {"starting", "ready", "creating"}
             \/ active[conv[e]] # None \/ conv[e] \in X
    OBVIOUS
  <2>2. \A k \in Convs : k \notin X => Driven(k, place, active, queue, dequeued, settled)
    <3> HIDE DEF X, settled
    <3>1. QED BY <1>2, <2>1, Parts, MoveFacts
  <2>3. QED BY <2>2
<1>4. /\ Flowing(place', active, queue', dequeued', settling') /\ NewInv(place', arrived')
      /\ waits' \in [Tasks -> 0..srv'.attempts]
      /\ srv'.attempts \in {srv.attempts, srv.attempts + 1}
  <2> HIDE DEF settled, c
  <2>1. QED BY <1>1, <1>2, <1>3, Parts, DrainFacts
<1>5. TaskTypes'
  <2>1. 0..srv.attempts \subseteq 0..srv'.attempts
    BY <1>4, Parts
  <2>2. at' \in [Tasks -> 0..srv'.attempts]
    BY <1>1, <1>2, <2>1 DEF TaskTypes
  <2>3. QED BY <1>1, <1>2, <1>4, <2>2 DEF TaskTypes
<1>6. QED BY <1>1, <1>4, <1>5 DEF TasksKept

LEMMA StartStep ==
  ASSUME OpenCodeInv, NEW k \in srv.pending, NEW how \in {"own", "joined", "failed"},
         StartEnds(k, how)
  PROVE  TasksKept
<1> DEFINE waiting == {d \in Tasks : place[d] = "starting" /\ waits[d] = k}
<1>1. /\ srv' = Outcome(srv, k, how)
      /\ \/ Fault /\ Refuse(waiting)
         \/ /\ place' = [d \in Tasks |-> IF d \in waiting THEN "ready" ELSE place[d]]
            /\ UNCHANGED <<notified, reply, settling, faults>>
      /\ waits' = [d \in Tasks |-> IF d \in waiting THEN None ELSE waits[d]]
      /\ UNCHANGED <<arrived, conv, status, elapsed, killed, aborting, aborts, aborted,
                     active, queue, dequeued, at, session>>
  BY DEF StartEnds, calls, timer
<1>2. TaskTypes /\ waits \in [Tasks -> 0..srv.attempts] /\ srv.attempts \in Nat
  BY Parts DEF TaskTypes
<1>3. srv'.attempts = srv.attempts
  <2>1. srv \in Server
    BY Parts
  <2>2. CASE how = "own"
    BY <1>1, <2>1, <2>2 DEF Outcome, Server
  <2>3. CASE how = "joined"
    BY <1>1, <2>1, <2>3 DEF Outcome, Server
  <2>4. CASE how = "failed"
    BY <1>1, <2>1, <2>4 DEF Outcome, Server
  <2>5. QED BY <2>2, <2>3, <2>4
<1>4. waits' \in [Tasks -> 0..srv'.attempts]
  BY <1>1, <1>2, <1>3 DEF None
<1>5. CASE Fault /\ Refuse(waiting)
  <2>1. waiting \in SUBSET Tasks /\ \A e \in waiting : place[e] = "starting"
    OBVIOUS
  <2> HIDE DEF waiting
  <2>2. /\ Flowing(place', active, queue, dequeued, settling')
        /\ \A e \in Tasks : place'[e] = IF e \in waiting THEN "over" ELSE place[e]
        /\ notified' \in [Tasks -> {"none", "done", "error"}]
        /\ reply' \in [Tasks -> {"none", "ok", "failed"}]
    BY <1>5, <2>1, RefuseFacts
  <2>3. TaskTypes'
    BY <1>1, <1>2, <1>3, <1>4, <1>5, <2>2, OpenCodeAssumption DEF TaskTypes, Fault
  <2>4. NewInv(place', arrived')
    BY <1>1, <2>1, <2>2, Parts DEF NewInv
  <2>5. QED BY <1>1, <2>2, <2>3, <2>4 DEF TasksKept, Flowing, Placed, Driven
<1>6. CASE /\ place' = [d \in Tasks |-> IF d \in waiting THEN "ready" ELSE place[d]]
           /\ UNCHANGED <<notified, reply, settling, faults>>
  <2>1. TaskTypes'
    BY <1>1, <1>2, <1>3, <1>4, <1>6 DEF TaskTypes
  <2>2. /\ place' \in [Tasks -> Places]
        /\ \A e \in Tasks : place[e] \in {"new", "queued", "prompting"} => place'[e] = place[e]
        /\ \A e \in Tasks : place'[e] = "new" => place[e] = "new"
        /\ \A e \in dequeued : place[e] \in {"starting", "ready", "creating"} =>
             place'[e] \in {"starting", "ready", "creating"}
    BY <1>6, Parts DEF Places
  <2>3. QED BY <1>1, <1>6, <2>1, <2>2, Parts, MoveStep
<1>7. QED BY <1>1, <1>5, <1>6

LEMMA RefusalStep ==
  ASSUME OpenCodeInv, NEW d \in Tasks, EnsureTimesOut(d) \/ CreateFails(d)
  PROVE  TasksKept
<1>1. /\ Refuse({d}) /\ place[d] \in {"starting", "creating"}
      /\ srv' = srv \/ srv' = Reset(srv)
      /\ waits' = waits \/ waits' = [waits EXCEPT ![d] = None]
      /\ at' = at \/ at' = [at EXCEPT ![d] = None]
      /\ faults' = faults \/ Fault
      /\ UNCHANGED <<arrived, conv, status, elapsed, killed, aborting, aborts, aborted,
                     active, queue, dequeued, session>>
  BY DEF EnsureTimesOut, CreateFails, calls, timer
<1>2. /\ Flowing(place', active, queue, dequeued, settling')
      /\ \A e \in Tasks : place'[e] = IF e \in {d} THEN "over" ELSE place[e]
      /\ notified' \in [Tasks -> {"none", "done", "error"}]
      /\ reply' \in [Tasks -> {"none", "ok", "failed"}]
  <2>1. \A e \in {d} : place[e] \notin {"queued", "prompting"}
    BY <1>1
  <2>2. QED BY <1>1, <2>1, RefuseFacts
<1>3. srv'.attempts = srv.attempts
  BY <1>1, Parts, AttemptsFacts
<1>4. TaskTypes'
  <2>1. None \in 0..srv.attempts
    BY Parts DEF None
  <2>2. at' \in [Tasks -> 0..srv'.attempts] /\ waits' \in [Tasks -> 0..srv'.attempts]
    <3>1. at \in [Tasks -> 0..srv.attempts] /\ waits \in [Tasks -> 0..srv.attempts]
      BY Parts DEF TaskTypes
    <3>2. QED BY <1>1, <1>3, <2>1, <3>1
  <2>3. faults' \in 0..MaxFaults
    BY <1>1, Parts, OpenCodeAssumption DEF TaskTypes, Fault
  <2>4. TaskTypes
    BY Parts
  <2>5. QED BY <1>1, <1>2, <2>2, <2>3, <2>4 DEF TaskTypes
<1>5. NewInv(place', arrived')
  BY <1>1, <1>2, Parts DEF NewInv
<1>6. QED BY <1>1, <1>2, <1>4, <1>5 DEF TasksKept, Flowing, Placed, Driven

\* A prompt that ends, whatever it returned or threw.
LEMMA PromptStep ==
  ASSUME OpenCodeInv, NEW d \in Tasks,
         \/ PromptBreaks(d) \/ PromptExpires(d)
         \/ \E how \in {"answer", "sdkError", "providerError"} : PromptReturns(d, how)
  PROVE  TasksKept
<1>1. \E s : /\ Finish(d, s) /\ s \in {srv, Reset(srv)}
             /\ status' \in [Tasks -> {"none", "running", "completed", "error", "killed"}]
             /\ notified' \in [Tasks -> {"none", "done", "error"}]
             /\ reply' \in [Tasks -> {"none", "ok", "failed"}] /\ killed' \subseteq Tasks
  <2> USE Parts DEF TaskTypes
  <2>1. CASE PromptBreaks(d)
    BY <2>1 DEF PromptBreaks, CatchError
  <2>2. CASE PromptExpires(d)
    BY <2>2 DEF PromptExpires, CatchError
  <2>3. ASSUME NEW how \in {"answer", "sdkError", "providerError"}, PromptReturns(d, how)
        PROVE  /\ Finish(d, srv)
               /\ status' \in [Tasks -> {"none", "running", "completed", "error", "killed"}]
               /\ notified' \in [Tasks -> {"none", "done", "error"}]
               /\ reply' \in [Tasks -> {"none", "ok", "failed"}] /\ killed' \subseteq Tasks
    BY <2>3 DEF PromptReturns
  <2>4. QED BY <2>1, <2>2, <2>3
<1>2. PICK s \in {srv, Reset(srv)} : Finish(d, s)
  BY <1>1
<1>3. /\ place[d] = "prompting"
      /\ UNCHANGED <<arrived, conv, aborting, aborts, aborted, session, faults>> /\ UNCHANGED calls
  BY DEF PromptBreaks, PromptExpires, PromptReturns, calls
<1>4. ServerInv(s) /\ s.attempts = srv.attempts
  BY <1>2, Parts, AttemptsFacts, ResetHolds
<1>5. /\ Flowing(place', active', queue', dequeued', settling') /\ NewInv(place', arrived')
      /\ waits' \in [Tasks -> 0..srv'.attempts] /\ at' \in [Tasks -> 0..srv'.attempts]
      /\ elapsed' \subseteq Tasks
  BY <1>2, <1>3, <1>4, FinishFacts
<1>6. TaskTypes'
  BY <1>1, <1>3, <1>5, Parts DEF TaskTypes
<1>7. QED BY <1>5, <1>6 DEF TasksKept

\* A task that is registered after its server, or its session, is there.
LEMMA RunStep ==
  ASSUME OpenCodeInv, NEW d \in Tasks, Run(d), place[d] \in {"ready", "creating"},
         UNCHANGED <<calls, elapsed, aborting, aborts, aborted, faults>>, session' \subseteq Convs
  PROVE  TasksKept
<1>1. UNCHANGED <<arrived, conv>>
  BY DEF calls
<1>2. /\ Flowing(place', active', queue', dequeued', settling') /\ NewInv(place', arrived')
      /\ waits' \in [Tasks -> 0..srv'.attempts] /\ at' \in [Tasks -> 0..srv'.attempts]
      /\ status' \in [Tasks -> {"none", "running", "completed", "error", "killed"}]
      /\ notified' \in [Tasks -> {"none", "done", "error"}]
      /\ reply' \in [Tasks -> {"none", "ok", "failed"}] /\ killed' \subseteq Tasks
  BY RunFacts
<1>3. TaskTypes'
  BY <1>1, <1>2, Parts DEF TaskTypes
<1>4. QED BY <1>2, <1>3 DEF TasksKept

LEMMA ProceedStep ==
  ASSUME OpenCodeInv, NEW d \in Tasks, Proceed(d)
  PROVE  TasksKept
<1>1. /\ place[d] = "ready"
      /\ UNCHANGED <<arrived, conv, elapsed, aborting, aborts, aborted, session, faults>>
      /\ UNCHANGED calls
      /\ \/ Refuse({d}) /\ UNCHANGED <<status, killed, active, queue, dequeued, at, waits, srv>>
         \/ Run(d)
         \/ /\ place' = [place EXCEPT ![d] = "creating"] /\ at' = [at EXCEPT ![d] = srv.client]
            /\ UNCHANGED <<status, notified, reply, killed, active, queue, dequeued, settling, waits, srv>>
  BY DEF Proceed, calls, task
<1>2. TaskTypes /\ session \subseteq Convs
  BY Parts DEF TaskTypes
<1>3. CASE Refuse({d}) /\ UNCHANGED <<status, killed, active, queue, dequeued, at, waits, srv>>
  <2>1. \A e \in {d} : place[e] \notin {"queued", "prompting"}
    BY <1>1
  <2>2. /\ Flowing(place', active, queue, dequeued, settling')
        /\ \A e \in Tasks : place'[e] = IF e \in {d} THEN "over" ELSE place[e]
        /\ notified' \in [Tasks -> {"none", "done", "error"}]
        /\ reply' \in [Tasks -> {"none", "ok", "failed"}]
    BY <1>3, <2>1, RefuseFacts
  <2>3. TaskTypes'
    BY <1>1, <1>2, <1>3, <2>2 DEF TaskTypes
  <2>4. NewInv(place', arrived')
    BY <1>1, <2>2, Parts DEF NewInv
  <2>5. QED BY <1>1, <1>3, <2>2, <2>3, <2>4 DEF TasksKept, Flowing, Placed, Driven
<1>4. CASE Run(d)
  BY <1>1, <1>2, <1>4, RunStep
<1>5. CASE /\ place' = [place EXCEPT ![d] = "creating"] /\ at' = [at EXCEPT ![d] = srv.client]
           /\ UNCHANGED <<status, notified, reply, killed, active, queue, dequeued, settling, waits, srv>>
  <2>1. at' \in [Tasks -> 0..srv'.attempts]
    BY <1>2, <1>5, Parts DEF TaskTypes
  <2>2. TaskTypes'
    BY <1>1, <1>2, <1>5, <2>1 DEF TaskTypes
  <2>3. /\ place' \in [Tasks -> Places] /\ place'[d] = "creating"
        /\ \A e \in Tasks : e # d => place'[e] = place[e]
    BY <1>5, Parts DEF Places
  <2>4. QED BY <1>1, <1>5, <2>2, <2>3, Parts, MoveStep
<1>6. QED BY <1>1, <1>3, <1>4, <1>5

LEMMA CreatedStep ==
  ASSUME OpenCodeInv, NEW d \in Tasks, Created(d)
  PROVE  TasksKept
<1>1. session' \subseteq Convs
  BY Parts DEF Created, TaskTypes
<1>2. QED BY <1>1, RunStep DEF Created

\* The handlers that leave every task in its place.
LEMMA StillStep ==
  ASSUME OpenCodeInv, NEW d,
         (d \in Tasks /\ (TaskTimesOut(d) \/ AbortReturns(d))) \/ (d \in srv.up /\ ServerDies(d))
  PROVE  TasksKept
<1>1. UNCHANGED <<arrived, conv, place, active, queue, dequeued, settling, notified, reply, killed,
                  aborts, aborted, at, waits, session>>
  BY DEF TaskTimesOut, AbortReturns, ServerDies, calls, task, timer, flow
<1>2. TaskTypes
  BY Parts
<1>3. elapsed' \subseteq Tasks /\ aborting' \subseteq aborted
  BY <1>2 DEF TaskTimesOut, AbortReturns, ServerDies, TaskTypes, timer
<1>4. status' \in [Tasks -> {"none", "running", "completed", "error", "killed"}]
  <2>1. \E p \in {"none", "running", "completed", "error", "killed"} :
          status' = [status EXCEPT ![d] = p] \/ status' = status
    <3>1. d \in Tasks => status[d] \in {"none", "running", "completed", "error", "killed"}
      BY <1>2 DEF TaskTypes
    <3>2. QED BY <3>1 DEF TaskTimesOut, AbortReturns, ServerDies, task
  <2>2. status \in [Tasks -> {"none", "running", "completed", "error", "killed"}]
    BY <1>2 DEF TaskTypes
  <2>3. QED BY <2>1, <2>2
<1>5. faults' \in 0..MaxFaults
  BY <1>2, OpenCodeAssumption DEF TaskTimesOut, AbortReturns, ServerDies, TaskTypes, Fault
<1>6. srv'.attempts = srv.attempts
  <2>1. srv' = srv \/ srv' = [srv EXCEPT !.up = srv.up \ {d}]
    BY DEF TaskTimesOut, AbortReturns, ServerDies
  <2>2. QED BY <2>1, Parts DEF Server
<1>7. TaskTypes'
  BY <1>1, <1>2, <1>3, <1>4, <1>5, <1>6 DEF TaskTypes
<1>8. QED BY <1>1, <1>7, Parts, MoveStep

\* An abort flushes the queues of the conversations cs.
LEMMA AbortStep ==
  ASSUME OpenCodeInv, NEW cs \in SUBSET Convs, NEW victims \in SUBSET Tasks, Abort(cs, victims)
  PROVE  TasksKept
<1> DEFINE waiting == {d \in Tasks : place[d] = "queued" /\ conv[d] \in cs}
<1>1. /\ queue' = [c \in Convs |-> IF c \in cs THEN <<>> ELSE queue[c]]
      /\ place' = [d \in Tasks |-> IF d \in waiting THEN "flushed" ELSE place[d]]
      /\ reply' = [d \in Tasks |-> IF d \in waiting THEN "failed" ELSE reply[d]]
      /\ killed' = killed \cup victims /\ aborting' = aborting \cup victims
      /\ aborted' = aborted \cup victims /\ aborts < MaxAborts /\ aborts' = aborts + 1
      /\ UNCHANGED <<arrived, conv, status, notified, elapsed, active, dequeued, settling, at, waits,
                     session, srv, faults>>
  BY DEF Abort, calls
<1>2. TaskTypes'
  <2>1. TaskTypes
    BY Parts
  <2>2. aborts' \in 0..MaxAborts
    BY <1>1, <2>1, OpenCodeAssumption DEF TaskTypes
  <2>3. reply' \in [Tasks -> {"none", "ok", "failed"}]
    BY <1>1, <2>1 DEF TaskTypes
  <2>4. QED BY <1>1, <2>1, <2>2, <2>3 DEF TaskTypes
<1>3. /\ place' \in [Tasks -> Places]
      /\ \A e \in Tasks : \/ place'[e] = place[e]
                          \/ place[e] = "queued" /\ conv[e] \in cs /\ place'[e] = "flushed"
      /\ \A e \in Tasks : conv[e] \notin cs => place'[e] = place[e]
  BY <1>1, Parts DEF Places
<1>4. /\ queue' \in [Convs -> Seq(Tasks)] /\ \A c \in cs : queue'[c] = <<>>
      /\ \A c \in Convs : c \notin cs => queue'[c] = queue[c]
  <2>1. <<>> \in Seq(Tasks)
    OBVIOUS
  <2>2. QED BY <1>1, <2>1, Parts
<1>5. NewInv(place', arrived')
  BY <1>1, <1>3, Parts DEF NewInv
<1>6. Placed(place', active, queue')
  <2> SUFFICES ASSUME NEW k \in Convs
               PROVE  /\ Len(queue'[k]) <= QueueCap
                      /\ active[k] # None => place'[active[k]] = "prompting" /\ conv[active[k]] = k
                      /\ \A i \in 1..Len(queue'[k]) :
                           place'[queue'[k][i]] = "queued" /\ conv[queue'[k][i]] = k
                      /\ \A i, j \in 1..Len(queue'[k]) : queue'[k][i] = queue'[k][j] => i = j
    BY <1>3, <1>4, Parts DEF Placed
  <2>1. active[k] # None => place'[active[k]] = "prompting" /\ conv[active[k]] = k
    BY <1>3, Parts
  <2>2. CASE k \in cs
    <3>1. Len(queue'[k]) = 0
      BY <1>4, <2>2
    <3>2. QED BY <2>1, <3>1, OpenCodeAssumption
  <2>3. CASE k \notin cs
    <3>1. queue'[k] = queue[k]
      BY <1>4, <2>3
    <3>2. /\ Len(queue[k]) <= QueueCap
          /\ \A i, j \in 1..Len(queue[k]) : queue[k][i] = queue[k][j] => i = j
          /\ \A i \in 1..Len(queue[k]) : place[queue[k][i]] = "queued" /\ conv[queue[k][i]] = k
      BY Parts DEF Placed
    <3>3. \A i \in 1..Len(queue[k]) : queue[k][i] \in Tasks
      BY Parts
    <3>4. \A i \in 1..Len(queue[k]) : place'[queue[k][i]] = "queued" /\ conv[queue[k][i]] = k
      BY <1>3, <2>3, <3>2, <3>3
    <3>5. QED BY <2>1, <3>1, <3>2, <3>4
  <2>4. QED BY <2>2, <2>3
<1>7. \A k \in Convs : Driven(k, place', active, queue', dequeued, settling)
  <2> TAKE k \in Convs
  <2>1. CASE k \in cs
    BY <1>4, <2>1 DEF Driven
  <2>2. CASE k \notin cs
    <3>1. Driven(k, place, active, queue, dequeued, settling) /\ queue'[k] = queue[k]
      BY <1>4, <2>2, Parts DEF Flowing
    <3>2. \A e \in dequeued : conv[e] = k => place'[e] = place[e]
      BY <1>3, <2>2, Parts
    <3>3. QED BY <3>1, <3>2 DEF Driven
  <2>3. QED BY <2>1, <2>2
<1>8. Flowing(place', active', queue', dequeued', settling')
  <2>1. active' = active /\ dequeued' = dequeued /\ settling' = settling
    BY <1>1
  <2>2. QED BY <1>6, <1>7, <2>1, Parts DEF Flowing
<1>9. QED BY <1>2, <1>5, <1>8 DEF TasksKept

LEMMA OpenCodeInitInv == OpenCodeInit => OpenCodeInv
<1> SUFFICES ASSUME OpenCodeInit PROVE OpenCodeInv
  OBVIOUS
<1>1. /\ place = [d \in Tasks |-> "new"] /\ active = [c \in Convs |-> None]
      /\ queue = [c \in Convs |-> <<>>] /\ dequeued = {} /\ settling = {}
      /\ arrived = 0 /\ srv = NoServer
  BY DEF OpenCodeInit
<1>2. {MaxDispatches, QueueCap, MaxFaults, MaxAborts} \subseteq Nat
  BY OpenCodeAssumption
<1>3. Flowing(place, active, queue, dequeued, settling)
  <2>1. \A c \in Convs : active[c] = None /\ queue[c] = <<>> /\ Len(queue[c]) = 0
    BY <1>1
  <2>2. queue \in [Convs -> Seq(Tasks)] /\ active \in [Convs -> 0..MaxDispatches]
    BY <1>1, <1>2 DEF None
  <2>3. place \in [Tasks -> Places]
    BY <1>1 DEF Places
  <2>4. Placed(place, active, queue)
    BY <1>2, <2>1, <2>2, <2>3 DEF Placed
  <2>5. QED BY <1>1, <2>1, <2>4 DEF Flowing, Driven
<1>4. NewInv(place, arrived)
  BY <1>1 DEF NewInv, Tasks
<1>5. TaskTypes
  <2>1. srv.attempts = 0
    BY <1>1 DEF NoServer
  <2>2. QED BY <1>2, <2>1 DEF OpenCodeInit, TaskTypes, None
<1>6. QED BY <1>3, <1>4, <1>5, InitServer DEF OpenCodeInv

LEMMA KeptInv ==
  ASSUME TasksKept, ServerInv(srv'), conv' = conv
  PROVE  OpenCodeInv'
<1>1. TaskTypes'
  BY DEF TasksKept
<1>2. ServerInv(srv)'
  BY DEF ServerInv, Shaped, Held
<1>3. NewInv(place, arrived)'
  BY DEF TasksKept, NewInv
<1>4. Placed(place, active, queue)'
  BY DEF TasksKept, Flowing, Placed
<1>5. /\ dequeued' \subseteq Tasks /\ settling' \subseteq dequeued'
      /\ \A c \in Convs : Driven(c, place', active', queue', dequeued', settling')
  BY DEF TasksKept, Flowing
<1>6. \A c \in Convs : Driven(c, place, active, queue, dequeued, settling)'
  BY <1>5 DEF Driven
<1>7. Flowing(place, active, queue, dequeued, settling)'
  BY <1>4, <1>5, <1>6 DEF Flowing
<1>8. QED BY <1>1, <1>2, <1>3, <1>7 DEF OpenCodeInv

\* No step changes the conversation of a dispatch.
LEMMA ConvStays == [OpenCodeNext]_openCodeVars => conv' = conv
<1>1. ASSUME NEW d \in Tasks, Step(d) PROVE conv' = conv
  <2>1. CASE Dispatch(d)
    BY <2>1 DEF Dispatch
  <2>2. CASE Continue(d) \/ Proceed(d) \/ EnsureTimesOut(d) \/ Created(d) \/ CreateFails(d)
    BY <2>2 DEF Continue, Proceed, EnsureTimesOut, Created, CreateFails, calls
  <2>3. CASE PromptBreaks(d) \/ PromptExpires(d) \/ TaskTimesOut(d) \/ AbortReturns(d)
    BY <2>3 DEF PromptBreaks, PromptExpires, TaskTimesOut, AbortReturns, calls
  <2>4. CASE \E how \in {"answer", "sdkError", "providerError"} : PromptReturns(d, how)
    BY <2>4 DEF PromptReturns, calls
  <2>5. QED BY <1>1, <2>1, <2>2, <2>3, <2>4 DEF Step
<1>2. ASSUME NEW k, NEW how, StartEnds(k, how) PROVE conv' = conv
  BY <1>2 DEF StartEnds, calls
<1>3. ASSUME NEW k, ServerDies(k) PROVE conv' = conv
  BY <1>3 DEF ServerDies, calls
<1>4. ASSUME NEW cs, NEW victims, Abort(cs, victims) PROVE conv' = conv
  BY <1>4 DEF Abort, calls
<1>5. QED BY <1>1, <1>2, <1>3, <1>4
          DEF OpenCodeNext, AbortConversation, AbortAll, openCodeVars, calls

LEMMA OpenCodeStepInv == OpenCodeInv /\ [OpenCodeNext]_openCodeVars => OpenCodeInv'
<1> SUFFICES ASSUME OpenCodeInv, [OpenCodeNext]_openCodeVars PROVE OpenCodeInv'
  OBVIOUS
<1>1. CASE UNCHANGED openCodeVars
  <2>1. /\ UNCHANGED <<arrived, conv, place, active, queue, dequeued, settling>> /\ TaskTypes'
    BY <1>1, Parts DEF openCodeVars, calls, task, timer, flow, TaskTypes
  <2>2. TasksKept
    BY <2>1, Parts, MoveStep
  <2>3. QED BY <2>2, ConvStays, StepServer, Parts, KeptInv
<1>2. ASSUME NEW d \in Tasks, Step(d) PROVE TasksKept
  <2>1. CASE Dispatch(d) \/ Continue(d) \/ Proceed(d) \/ Created(d)
    BY <2>1, DispatchStep, ContinueStep, ProceedStep, CreatedStep
  <2>2. CASE EnsureTimesOut(d) \/ CreateFails(d)
    BY <2>2, RefusalStep
  <2>3. CASE \/ PromptBreaks(d) \/ PromptExpires(d)
             \/ \E how \in {"answer", "sdkError", "providerError"} : PromptReturns(d, how)
    BY <2>3, PromptStep
  <2>4. CASE TaskTimesOut(d) \/ AbortReturns(d)
    BY <2>4, StillStep
  <2>5. QED BY <1>2, <2>1, <2>2, <2>3, <2>4 DEF Step
<1>3. ASSUME NEW c \in Convs, AbortConversation(c) PROVE TasksKept
  BY <1>3, AbortStep DEF AbortConversation
<1>4. ASSUME AbortAll PROVE TasksKept
  <2>1. Running \in SUBSET Tasks /\ Convs \in SUBSET Convs
    BY DEF Running
  <2>2. Abort(Convs, Running)
    BY <1>4 DEF AbortAll
  <2>3. QED BY <2>1, <2>2, AbortStep
<1>5. ASSUME NEW k \in srv.pending, NEW how \in {"own", "joined", "failed"}, StartEnds(k, how)
      PROVE  TasksKept
  BY <1>5, StartStep
<1>6. ASSUME NEW k \in srv.up, ServerDies(k) PROVE TasksKept
  BY <1>6, StillStep
<1>7. CASE OpenCodeNext
  <2>1. TasksKept
    BY <1>2, <1>3, <1>4, <1>5, <1>6, <1>7 DEF OpenCodeNext
  <2>2. QED BY <2>1, ConvStays, StepServer, Parts, KeptInv
<1>8. QED BY <1>1, <1>7

THEOREM OpenCodeInvHolds == OpenCodeSpec => []OpenCodeInv
BY OpenCodeInitInv, OpenCodeStepInv, PTL DEF OpenCodeSpec

\* Every variable keeps its type, no queue exceeds its cap, and no dispatch awaits
\* or uses a server that was never started or found.
THEOREM OpenCodeTypeCorrect == OpenCodeSpec => []OpenCodeTypeOK
<1>1. OpenCodeInv => OpenCodeTypeOK
  BY DEF OpenCodeInv, TaskTypes, Flowing, Placed, Places, ServerInv, Shaped, OpenCodeTypeOK
<1>2. QED BY <1>1, OpenCodeInvHolds, PTL

\* A queue that is not empty has a task or a dispatch that will drain it.
THEOREM OpenCodeQueuesDriven == OpenCodeSpec => []QueueHasDriver
<1>1. OpenCodeInv => QueueHasDriver
  <2> SUFFICES ASSUME OpenCodeInv, NEW c \in Convs, queue[c] # <<>>
               PROVE  \/ active[c] # None /\ place[active[c]] = "prompting"
                      \/ \E d \in dequeued :
                           conv[d] = c /\ (d \in settling \/ place[d] \in {"starting", "ready", "creating"})
    BY DEF QueueHasDriver
  <2>1. Driven(c, place, active, queue, dequeued, settling)
    BY Parts DEF Flowing
  <2>2. QED BY <2>1, Parts DEF Driven
<1>2. QED BY <1>1, OpenCodeInvHolds, PTL

=============================================================================
