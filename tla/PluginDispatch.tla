--------------------------- MODULE PluginDispatch ---------------------------
(***************************************************************************)
(* PluginDispatcher.dispatch: a prompt is offered to the active plugin and *)
(* then to the configured fallbacks, each behind an availability check and *)
(* a circuit breaker per plugin.  Dispatches overlap freely: every one     *)
(* waits for the availability check and for the plugin, and meets the      *)
(* circuit in whatever state the others have left it.                      *)
(***************************************************************************)
EXTENDS Naturals, Sequences, FiniteSets

CONSTANTS
  Plugins,
  Dispatches,       \* bound: the dispatches that are ever requested
  Fallbacks,        \* config.fallbackPlugins, a sequence of plugins
  Thresholds,       \* failureThreshold values the configuration takes
  OnDispatchError   \* config.pluginDispatch.fallback.onDispatchError

ASSUME DispatchAssumption ==
  /\ IsFiniteSet(Dispatches)
  /\ Fallbacks \in Seq(Plugins)
  /\ Thresholds # {} /\ Thresholds \subseteq Nat \ {0}
  /\ OnDispatchError \in BOOLEAN

VARIABLES
  stage,      \* "new", "choosing" a candidate, "running" one, "over"
  chain,      \* the candidate list of each dispatch
  verdicts,   \* how the candidates tried so far ended, in order
  probe,      \* the dispatch entered its candidate through OPEN -> HALF_OPEN
  told,       \* the caller's callbacks reported an outcome
  state,      \* circuit state of each plugin
  failures,   \* consecutiveFailures
  cooled,     \* cooldownMs has passed since openedAt
  probing,    \* probeInFlight
  threshold   \* failureThreshold of the current configuration

vars == <<stage, chain, verdicts, probe, told, state, failures, cooled,
          probing, threshold>>

circuits == <<state, failures, cooled, probing>>

Verdicts == {"success", "failed", "aborted", "thrown", "unavailable", "refused"}
Circuit  == {"CLOSED", "OPEN", "HALF_OPEN"}

Position(d) == Len(verdicts[d]) + 1
Current(d)  == chain[d][Position(d)]
Last(d)     == verdicts[d][Len(verdicts[d])]
RunningOn(p) == {d \in Dispatches : stage[d] = "running" /\ Current(d) = p}

\* _buildCandidateList
CandidateList(active) ==
  <<active>> \o SelectSeq(Fallbacks, LAMBDA p : p # active)

\* The type invariant; no plugin is both the active candidate and a fallback.
TypeOK ==
  /\ stage \in [Dispatches -> {"new", "choosing", "running", "over"}]
  /\ chain \in [Dispatches -> Seq(Plugins)]
  /\ verdicts \in [Dispatches -> Seq(Verdicts)]
  /\ probe \in [Dispatches -> BOOLEAN] /\ told \in [Dispatches -> BOOLEAN]
  /\ state \in [Plugins -> Circuit]
  /\ failures \in [Plugins -> Nat]
  /\ cooled \in [Plugins -> BOOLEAN] /\ probing \in [Plugins -> BOOLEAN]
  /\ threshold \in Thresholds
  /\ \A d \in Dispatches : \A i \in 2..Len(chain[d]) : chain[d][i] # chain[d][1]

Init ==
  /\ stage = [d \in Dispatches |-> "new"]
  /\ chain = [d \in Dispatches |-> <<>>]
  /\ verdicts = [d \in Dispatches |-> <<>>]
  /\ probe = [d \in Dispatches |-> FALSE]
  /\ told = [d \in Dispatches |-> FALSE]
  /\ state = [p \in Plugins |-> "CLOSED"]
  /\ failures = [p \in Plugins |-> 0]
  /\ cooled = [p \in Plugins |-> FALSE]
  /\ probing = [p \in Plugins |-> FALSE]
  /\ threshold \in Thresholds

----------------------------------------------------------------------------
\* The circuit breaker.

Allows(p) ==
  \/ state[p] = "CLOSED"
  \/ state[p] = "OPEN" /\ cooled[p] /\ ~probing[p]
  \/ state[p] = "HALF_OPEN" /\ ~probing[p]

\* Mutant: a failure leaves the probe marked in flight.
CircuitOnFailure_KeepsProbe(p) ==
  /\ failures' = [failures EXCEPT ![p] = @ + 1]
  /\ UNCHANGED probing
  /\ IF failures[p] + 1 >= threshold /\ state[p] # "OPEN"
     THEN /\ state' = [state EXCEPT ![p] = "OPEN"]
          /\ cooled' = [cooled EXCEPT ![p] = FALSE]
     ELSE UNCHANGED <<state, cooled>>

CircuitOnFailure(p) ==
  /\ failures' = [failures EXCEPT ![p] = @ + 1]
  /\ probing' = [probing EXCEPT ![p] = FALSE]
  /\ IF failures[p] + 1 >= threshold /\ state[p] # "OPEN"
     THEN /\ state' = [state EXCEPT ![p] = "OPEN"]
          /\ cooled' = [cooled EXCEPT ![p] = FALSE]
     ELSE UNCHANGED <<state, cooled>>

CircuitOnSuccess(p) ==
  /\ state' = [state EXCEPT ![p] = "CLOSED"]
  /\ failures' = [failures EXCEPT ![p] = 0]
  /\ probing' = [probing EXCEPT ![p] = FALSE]
  /\ UNCHANGED cooled

\* The cooldown of an open circuit runs out.
CooldownElapses(p) ==
  /\ state[p] = "OPEN" /\ ~cooled[p]
  /\ cooled' = [cooled EXCEPT ![p] = TRUE]
  /\ UNCHANGED <<stage, chain, verdicts, probe, told, state, failures, probing,
                 threshold>>

----------------------------------------------------------------------------
\* One dispatch.

\* dispatch is called and the configuration read; the context is prepared.
Begin(d) ==
  /\ stage[d] = "new"
  /\ \E active \in Plugins :
       chain' = [chain EXCEPT ![d] = CandidateList(active)]
  /\ stage' = [stage EXCEPT ![d] = "choosing"]
  /\ UNCHANGED <<verdicts, probe, told, circuits, threshold>>

\* registry.getActive throws: the plugin is not registered or is disabled.
NoActivePlugin(d) ==
  /\ stage[d] = "new"
  /\ stage' = [stage EXCEPT ![d] = "over"]
  /\ told' = [told EXCEPT ![d] = TRUE]
  /\ UNCHANGED <<chain, verdicts, probe, circuits, threshold>>

\* The candidate d is at ends with verdict v; the loop goes on to the next one if
\* the verdict permits and one is left.
Conclude(d, v, goOn) ==
  /\ verdicts' = [verdicts EXCEPT ![d] = Append(@, v)]
  /\ stage' = [stage EXCEPT ![d] =
                 IF goOn /\ Position(d) < Len(chain[d]) THEN "choosing" ELSE "over"]
  /\ probe' = [probe EXCEPT ![d] = FALSE]
  /\ UNCHANGED <<chain, threshold>>

\* The availability check says no, throws or times out.
Unavailable(d) ==
  /\ stage[d] = "choosing"
  /\ Conclude(d, "unavailable", TRUE)
  /\ UNCHANGED <<told, circuits>>

CircuitRefuses(d) ==
  /\ stage[d] = "choosing"
  /\ ~Allows(Current(d))
  /\ Conclude(d, "refused", TRUE)
  /\ UNCHANGED <<told, circuits>>

\* The plugin is available and its circuit lets the dispatch through, which
\* turns an OPEN circuit whose cooldown is over into HALF_OPEN.
Attempt(d) ==
  /\ stage[d] = "choosing"
  /\ Allows(Current(d))
  /\ stage' = [stage EXCEPT ![d] = "running"]
  /\ probe' = [probe EXCEPT ![d] = state[Current(d)] # "CLOSED"]
  /\ state' = [state EXCEPT ![Current(d)] = IF @ = "OPEN" THEN "HALF_OPEN" ELSE @]
  /\ probing' = [probing EXCEPT ![Current(d)] = @ \/ state[Current(d)] = "OPEN"]
  /\ UNCHANGED <<chain, verdicts, told, failures, cooled, threshold>>

PluginSucceeds(d) ==
  /\ stage[d] = "running"
  /\ CircuitOnSuccess(Current(d))
  /\ told' = [told EXCEPT ![d] = TRUE]
  /\ Conclude(d, "success", FALSE)

\* A failure reported through onError; a buffer overflow is not retriable.
PluginFails(d) ==
  /\ stage[d] = "running"
  /\ CircuitOnFailure(Current(d))
  /\ told' = [told EXCEPT ![d] = TRUE]
  /\ \E retriable \in BOOLEAN :
       Conclude(d, "failed", OnDispatchError /\ retriable)

\* The user killed the task: no callback, no fallback, but a failure to the
\* circuit.
PluginAborted(d) ==
  /\ stage[d] = "running"
  /\ CircuitOnFailure(Current(d))
  /\ UNCHANGED told
  /\ Conclude(d, "aborted", FALSE)

\* Mutant: the circuit is not updated when the attempt throws.
AttemptThrows_NoCircuit(d) ==
  /\ stage[d] = "running"
  /\ UNCHANGED circuits
  /\ told' = [told EXCEPT ![d] = TRUE]
  /\ Conclude(d, "thrown", FALSE)

\* _attemptDispatch throws: dispatch rejects, and its caller reports that.
AttemptThrows(d) ==
  /\ stage[d] = "running"
  /\ CircuitOnFailure(Current(d))
  /\ told' = [told EXCEPT ![d] = TRUE]
  /\ Conclude(d, "thrown", FALSE)

\* applyConfig brings another failureThreshold.
ApplyConfig ==
  /\ threshold' \in Thresholds \ {threshold}
  /\ UNCHANGED <<stage, chain, verdicts, probe, told, circuits>>

Settles(d) ==
  PluginSucceeds(d) \/ PluginFails(d) \/ PluginAborted(d) \/ AttemptThrows(d)

Next ==
  \/ \E d \in Dispatches : \/ Begin(d) \/ NoActivePlugin(d) \/ Unavailable(d)
                           \/ CircuitRefuses(d) \/ Attempt(d) \/ Settles(d)
  \/ \E p \in Plugins : CooldownElapses(p)
  \/ ApplyConfig

Spec == Init /\ [][Next]_vars

\* Plugin calls settle (the process layer times them out) and time passes.
FairSpec ==
  /\ Spec
  /\ \A d \in Dispatches :
       /\ WF_vars(Settles(d))
       /\ WF_vars(Unavailable(d) \/ CircuitRefuses(d) \/ Attempt(d))
  /\ \A p \in Plugins : WF_vars(CooldownElapses(p))

----------------------------------------------------------------------------
(* Properties.                                                             *)

\* A probe marked in flight really is in flight: however a dispatch leaves its
\* plugin, the mark goes with it, so no circuit is frozen by a lost probe.
ProbeHasOwner ==
  \A p \in Plugins : probing[p] => \E d \in RunningOn(p) : probe[d]

\* A plugin that has failed, since its last success, as often as any threshold
\* the configuration takes is never behind a closed circuit, in whatever order
\* overlapping dispatches settle and the configuration is reloaded.
TrippedWhenFailing ==
  \A p \in Plugins :
    (\A t \in Thresholds : failures[p] >= t) => state[p] # "CLOSED"

\* A later candidate is used only when every earlier one was unavailable,
\* refused by its circuit, or, if the configuration says so, failed; a success,
\* an abort or a throw is always the last verdict.
FallbackOrder ==
  \A d \in Dispatches :
    /\ \A i \in 1..Len(verdicts[d]) - 1 :
         \/ verdicts[d][i] \in {"unavailable", "refused"}
         \/ OnDispatchError /\ verdicts[d][i] = "failed"
    /\ stage[d] \in {"choosing", "running"} /\ verdicts[d] # <<>> =>
         \/ Last(d) \in {"unavailable", "refused"}
         \/ OnDispatchError /\ Last(d) = "failed"

\* No plugin is shut out for good: its circuit allows a dispatch again and
\* again, whatever the dispatches that hold probes end with.
NeverFrozen == \A p \in Plugins : []<>Allows(p)

(* What the comments of the code say.                                      *)

\* dispatcher.ts:160 "HALF_OPEN: only one probe at a time".
OneProbe ==
  \A p \in Plugins : Cardinality({d \in RunningOn(p) : probe[d]}) <= 1

\* dispatcher.ts:144 "sets `probeInFlight` so only one concurrent probe is
\* allowed".
HalfOpenIsProbing ==
  \A p \in Plugins : state[p] = "HALF_OPEN" => probing[p]

\* dispatcher.ts:343 "configured fallback plugins follow, skipping duplicates".
NoDuplicateCandidate ==
  \A d \in Dispatches : \A i, j \in 1..Len(chain[d]) :
    chain[d][i] = chain[d][j] => i = j

\* dispatcher.ts:728 "fail fast with a helpful install hint": the caller of a
\* dispatch that ended, and that the user did not abort, was told something.
HintDelivered ==
  \A d \in Dispatches :
    stage[d] = "over" /\ ~told[d] => Last(d) = "aborted"
============================================================================
