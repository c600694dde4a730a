--------------------------- MODULE PeerConnections ---------------------------
(***************************************************************************)
(* The peers of a P2P agent: swarm-core's handlers of a connection and     *)
(* swarm-connection-manager's map of active connections, write queues,     *)
(* keepalive and reconnect backoff.  A socket stays an object with timers, *)
(* listeners and a waiting coroutine after it left the map, and the same   *)
(* peer may be back under the same key by then.                            *)
(*                                                                         *)
(* Sockets are numbered in the order in which they connect.  An anonymous  *)
(* socket has the key of its millisecond, which is the number of a socket. *)
(* Ages are not counted: any unidentified socket may be too old.           *)
(***************************************************************************)
EXTENDS Integers, FiniteSets

CONSTANTS
  PeerKeys,         \* public keys
  Devices,
  Owner,            \* the device of each public key
  MaxSockets,       \* bound: connections made
  QueueDepth,       \* MAX_QUEUE_DEPTH
  MaxMissed,        \* KEEPALIVE_MAX_MISSED
  AnonCap,          \* MAX_ANON_CONNECTIONS
  SameMillisecond   \* two anonymous peers may connect in one millisecond

ASSUME PeersAssumption ==
  /\ Owner \in [PeerKeys -> Devices] /\ 0 \notin Devices
  /\ PeerKeys \cap 0..MaxSockets = {}     \* an anonymous key starts with "anon-"
  /\ MaxSockets \in Nat /\ QueueDepth \in Nat \ {0}
  /\ MaxMissed \in Nat /\ AnonCap \in Nat \ {0} /\ SameMillisecond \in BOOLEAN

Sockets == 1..MaxSockets
Keys    == PeerKeys \cup Sockets
None    == 0

VARIABLES
  net,      \* connections, the sockets and the maps about them: see Net
  half,     \* sockets whose remote end is gone without a sign
  hello,    \* sockets whose client_hello waits behind an earlier frame
  made,     \* history: per key, connections made since its backoff was reset
  reported, \* the number of peers the daemon was last told
  up        \* the swarm runs

peersVars == <<net, half, hello, made, reported, up>>

SocketStates ==
  [state     : {"new", "open", "destroyed", "closed"},
   key       : Keys \cup {None},    \* the connKey the handlers close over
   keyed     : BOOLEAN,             \* connKeyByConn has it
   device    : Devices \cup {None},
   known     : BOOLEAN,             \* deviceIdByConn has it
   listening : BOOLEAN,
   queue     : {-1} \cup 0..QueueDepth,   \* length of its write queue, -1: none
   waiting   : BOOLEAN,             \* _drain waits for 'drain'
   missed    : {-1} \cup 0..MaxMissed,    \* -1: no keepalive
   timers    : BOOLEAN]             \* of stability and initial sync, not cleared

Fresh == [state |-> "new", key |-> None, keyed |-> FALSE, device |-> None,
          known |-> FALSE, listening |-> FALSE, queue |-> -1, waiting |-> FALSE,
          missed |-> -1, timers |-> FALSE]

Net ==
  [sock     : [Sockets -> SocketStates],
   active   : [Keys -> Sockets \cup {None}],     \* connections
   keyOf    : [Devices -> Keys \cup {None}],     \* deviceIdToConnKey
   attempts : [PeerKeys -> Nat]]                 \* peerBackoff

PeersTypeOK ==
  /\ net \in Net /\ half \subseteq Sockets /\ hello \subseteq Sockets
  /\ made \in [PeerKeys -> Nat] /\ reported \in Nat /\ up \in BOOLEAN

PeersInit ==
  /\ net = [sock |-> [c \in Sockets |-> Fresh], active |-> [k \in Keys |-> None],
            keyOf |-> [d \in Devices |-> None],
            attempts |-> [k \in PeerKeys |-> 0]]
  /\ half = {} /\ hello = {} /\ made = [k \in PeerKeys |-> 0]
  /\ reported = 0 /\ up = TRUE

Active(n, c)  == n.sock[c].key # None /\ n.active[n.sock[c].key] = c
Tracked(n)    == {c \in Sockets : Active(n, c)}
Exists(c)     == net.sock[c].state \in {"open", "destroyed"}

-----------------------------------------------------------------------------
(* The synchronous helpers, as functions of the state net.  Those that the *)
(* code calls for one socket after another take the set of the sockets:    *)
(* what they do for one is the same whether the others came before or not. *)

\* The keys whose entry is one of cs.
KeysHeld(cs, n) == {n.sock[c].key : c \in {b \in cs : Active(n, b)}}

\* connections without the entries of ks.
Delete(ks, n) == [k \in Keys |-> IF k \in ks THEN None ELSE n.active[k]]

\* peerBackoff after a disconnect of each of ks; it has no anonymous key.
RecordDisconnect(ks, n) ==
  [k \in PeerKeys |-> IF k \in ks THEN n.attempts[k] + 1 ELSE n.attempts[k]]

Destroyed(s) == IF s.state = "open" THEN [s EXCEPT !.state = "destroyed"] ELSE s
Evicted(s)   == [Destroyed(s) EXCEPT !.missed = -1, !.queue = -1]

\* The sockets, with those of cs evicted.
EvictedOf(cs, n) ==
  [c \in Sockets |-> IF c \in cs THEN Evicted(n.sock[c]) ELSE n.sock[c]]

\* Mutant: the entry of the key goes whoever holds it now.
Evict_AnyHolder(cs, n) ==
  LET ks == {n.sock[c].key : c \in cs}
  IN  [n EXCEPT !.active = Delete(ks, n), !.sock = EvictedOf(cs, n),
                !.attempts = RecordDisconnect({k \in ks : n.active[k] # None}, n)]

\* Mutant: every eviction is recorded as a disconnect.
Evict_RecordsAlways(cs, n) ==
  [n EXCEPT !.active = Delete(KeysHeld(cs, n), n), !.sock = EvictedOf(cs, n),
            !.attempts = RecordDisconnect({n.sock[c].key : c \in cs}, n)]

\* PeerWriteQueue._evict
Evict(cs, n) ==
  LET ks == KeysHeld(cs, n)
  IN  [n EXCEPT !.active = Delete(ks, n), !.sock = EvictedOf(cs, n),
                !.attempts = RecordDisconnect(ks, n)]

\* Mutant: the timers are left to the checks they make.
Silenced_KeepsTimers(s) == [s EXCEPT !.missed = -1, !.listening = FALSE]

\* What teardownConnection does to every socket; only the active holder of its
\* key is cleaned up fully.
Silenced(s) == [s EXCEPT !.timers = FALSE, !.missed = -1, !.listening = FALSE]
Stripped(s) == [Silenced(s) EXCEPT !.queue = -1, !.waiting = FALSE,
                                   !.keyed = FALSE, !.known = FALSE]

Teardown(cs, n) ==
  LET ks == KeysHeld(cs, n)
      loses(d) == \E c \in cs : /\ Active(n, c) /\ n.sock[c].known
                                /\ n.sock[c].device = d /\ n.sock[c].key = n.keyOf[d]
  IN  [n EXCEPT !.active = Delete(ks, n), !.attempts = RecordDisconnect(ks, n),
                !.sock  = [c \in Sockets |-> IF c \notin cs THEN n.sock[c]
                                             ELSE IF Active(n, c) THEN Stripped(n.sock[c])
                                             ELSE Silenced(n.sock[c])],
                !.keyOf = [d \in Devices |-> IF loses(d) THEN None ELSE n.keyOf[d]]]

ForceDrop(cs, n) ==
  LET m == Teardown(cs, n)
  IN  [m EXCEPT !.sock = [c \in Sockets |-> IF c \in cs THEN Destroyed(m.sock[c])
                                            ELSE m.sock[c]]]

\* The coroutines whose wait was cancelled evict their peer once the handler,
\* which left the state n, has returned.
Evictions(n) == Evict({c \in Sockets : net.sock[c].waiting /\ ~n.sock[c].waiting}, n)

\* enqueue and the part of _drain up to the next wait; the stream takes the
\* frame at once or asks to wait.
Writes(c, n) ==
  LET s == n.sock[c] IN
  IF s.queue = -1 THEN {n}                    \* no queue: the stream is gone
  ELSE IF s.queue = QueueDepth THEN {Evict({c}, n)}
  ELSE IF s.waiting \/ s.state # "open" THEN {[n EXCEPT !.sock[c].queue = @ + 1]}
  ELSE {[n EXCEPT !.sock[c].queue = 0],
        [n EXCEPT !.sock[c].queue = 0, !.sock[c].waiting = TRUE]}

\* enforceAnonCap: the oldest anonymous entries go.
Anonymous(n) == {k \in Sockets : n.active[k] # None}
OverCap(n) ==
  {k \in Anonymous(n) : Cardinality({j \in Anonymous(n) : j > k}) >= AnonCap}
CutAnonymous(ks, n) ==
  [n EXCEPT !.active = Delete(ks, n),
            !.sock = EvictedOf({c \in Sockets : \E k \in ks : n.active[k] = c}, n)]

-----------------------------------------------------------------------------
(* The handlers.                                                           *)

\* swarm.on('connection'): the same peer's old connection is dropped first.
Accepted(c, k, d, n) ==
  [n EXCEPT !.active[k] = c,
            !.sock[c] = [Fresh EXCEPT !.state = "open", !.key = k, !.keyed = TRUE,
                           !.device = d, !.listening = TRUE, !.queue = 0,
                           !.missed = 0, !.timers = TRUE]]

IsNext(c) == \A b \in Sockets : net.sock[b].state = "new" <=> b >= c

ConnectPeer(c, k) ==
  LET n == IF net.active[k] # None THEN ForceDrop({net.active[k]}, net) ELSE net
      m == Accepted(c, k, Owner[k], n)
  IN  /\ up /\ IsNext(c)
      /\ net' = Evictions(m) /\ reported' = Cardinality(Tracked(m))
      /\ made' = [made EXCEPT ![k] = @ + 1]
      /\ UNCHANGED <<half, hello, up>>

ConnectAnonymous(c, d) ==
  /\ up /\ IsNext(c)
  /\ \E k \in Sockets :
       /\ k = c \/ (SameMillisecond /\ k < c /\ net.sock[k].key = k)
       /\ LET m == Accepted(c, k, d, net)
              n == CutAnonymous(OverCap(m), m)
          IN  net' = n /\ reported' = Cardinality(Tracked(n))
  /\ UNCHANGED <<half, hello, made, up>>

\* The peer, or the socket after destroy(), closes; an error comes before its
\* close and is handled alike.  Whoever waits for 'drain' is woken as well.
Close(c) ==
  LET s == net.sock[c] IN
  /\ Exists(c)
  /\ \E n \in {IF s.listening THEN Teardown({c}, net) ELSE net} :
     \E m \in {[n EXCEPT !.sock[c].state = "closed",
                         !.sock[c].waiting = @ /\ ~s.listening]} :
       /\ net' = Evictions(m)
       /\ reported' = IF s.listening /\ Active(net, c) THEN Cardinality(Tracked(m))
                      ELSE reported
  /\ UNCHANGED <<half, hello, made, up>>

LinkDies(c) ==
  /\ net.sock[c].state = "open" /\ half' = half \cup {c}
  /\ UNCHANGED <<net, hello, made, reported, up>>

\* A reply, a broadcast, or a frame of the initial sync to an active peer.
Write(c) ==
  /\ Active(net, c) /\ net' \in Writes(c, net)
  /\ UNCHANGED <<half, hello, made, reported, up>>

\* 'drain': the queue is written out, or up to a frame that must wait again.
Drain(c) ==
  LET s == net.sock[c] IN
  /\ s.waiting /\ s.listening /\ s.state = "open" /\ c \notin half
  /\ \/ net' = [net EXCEPT !.sock[c].waiting = FALSE,
                           !.sock[c].queue = IF @ = -1 THEN -1 ELSE 0]
     \/ s.queue > 0 /\ net' = [net EXCEPT !.sock[c].queue = @ - 1]
  /\ UNCHANGED <<half, hello, made, reported, up>>

WaitTimesOut(c) ==
  /\ net.sock[c].waiting
  /\ net' = Evict({c}, [net EXCEPT !.sock[c].waiting = FALSE])
  /\ UNCHANGED <<half, hello, made, reported, up>>

\* Mutant: at the limit, a ping that can still be written is a sign of life.
KeepaliveTick_WriteIsLife(c) ==
  LET s == net.sock[c] IN
  /\ s.missed >= 0
  /\ IF s.state # "open" THEN net' = [net EXCEPT !.sock[c].missed = -1]
     ELSE net' \in Writes(c, [net EXCEPT !.sock[c].missed =
                                  IF @ >= MaxMissed THEN 0 ELSE @ + 1])
  /\ UNCHANGED <<half, hello, made, reported, up>>

KeepaliveTick(c) ==
  LET s == net.sock[c] IN
  /\ s.missed >= 0
  /\ IF s.state # "open" THEN net' = [net EXCEPT !.sock[c].missed = -1]
     ELSE IF s.missed >= MaxMissed
     THEN net' = [net EXCEPT !.sock[c] = [Destroyed(@) EXCEPT !.missed = -1]]
     ELSE net' \in Writes(c, [net EXCEPT !.sock[c].missed = @ + 1])
  /\ UNCHANGED <<half, hello, made, reported, up>>

\* recordPong, upon a pong or a ping of the peer, which gets a pong back.
Pong(c) ==
  LET s == net.sock[c] IN
  /\ s.state = "open" /\ s.listening /\ c \notin half
  /\ LET n == IF s.missed >= 0 THEN [net EXCEPT !.sock[c].missed = 0] ELSE net
     IN  net' = n \/ net' \in Writes(c, n)
  /\ UNCHANGED <<half, hello, made, reported, up>>

HelloArrives(c) ==
  /\ net.sock[c].state = "open" /\ net.sock[c].listening /\ c \notin half
  /\ hello' = hello \cup {c}
  /\ UNCHANGED <<net, half, made, reported, up>>

\* Mutant: the stale entry is replaced, its connection is not dropped.
Rivals_Forgotten(c) == {}

\* The connection that registerPeerIdentity takes for the device's old one.
Rivals(c) ==
  LET k == net.keyOf[net.sock[c].device] IN
  IF k = None \/ k = net.sock[c].key \/ net.active[k] = None THEN {}
  ELSE {net.active[k]}

\* registerPeerIdentity, by then perhaps for a socket that is gone: the old
\* connection of the device is dropped, and unidentified ones that are too old.
Identify(c) ==
  LET s    == net.sock[c]
      n    == ForceDrop(Rivals(c), net)
      m    == [n EXCEPT !.keyOf[s.device] = s.key, !.sock[c].known = TRUE]
      idle == {b \in Tracked(m) : ~m.sock[b].known /\ b # c
                                  /\ m.sock[b].key # s.key}
  IN  /\ c \in hello /\ hello' = hello \ {c}
      /\ IF s.keyed
         THEN \E ghosts \in SUBSET idle : net' = Evictions(ForceDrop(ghosts, m))
         ELSE UNCHANGED net
      /\ UNCHANGED <<half, made, reported, up>>

SweepGhosts ==
  /\ up
  /\ \E ghosts \in SUBSET {b \in Tracked(net) : ~net.sock[b].known} :
       /\ ghosts # {}
       /\ net' = Evictions(ForceDrop(ghosts, net))
  /\ UNCHANGED <<half, hello, made, reported, up>>

\* The stability timer of a connection to the peer fires, or the sweeper finds
\* that its last disconnect is long ago.
ResetBackoff(k) ==
  /\ up \/ \E c \in Sockets : net.sock[c].timers /\ net.sock[c].key = k
  /\ net.attempts[k] > 0
  /\ net' = [net EXCEPT !.attempts[k] = 0]
  /\ made' = [made EXCEPT ![k] = IF net.active[k] # None THEN 1 ELSE 0]
  /\ UNCHANGED <<half, hello, reported, up>>

\* disconnectP2P, up to the destruction of the swarm.
Disconnect ==
  LET gone(s) == [Destroyed(s) EXCEPT !.timers = FALSE, !.missed = -1, !.queue = -1,
                    !.waiting = FALSE, !.listening = FALSE]
      n == [net EXCEPT !.sock = [c \in Sockets |-> IF Active(net, c) THEN gone(@[c])
                                                   ELSE @[c]],
                       !.active = [k \in Keys |-> None],
                       !.keyOf = [d \in Devices |-> None]]
  IN  /\ up /\ up' = FALSE
      /\ net' = Evictions(n)
      /\ made' = [k \in PeerKeys |-> net.attempts[k]]
      /\ UNCHANGED <<half, hello, reported>>

SocketNext(c) ==
  \/ (\E k \in PeerKeys : ConnectPeer(c, k)) \/ (\E d \in Devices : ConnectAnonymous(c, d))
  \/ Close(c) \/ LinkDies(c) \/ Write(c) \/ Drain(c) \/ WaitTimesOut(c)
  \/ KeepaliveTick(c) \/ Pong(c) \/ HelloArrives(c) \/ Identify(c)

PeersNext == (\E c \in Sockets : SocketNext(c)) \/ SweepGhosts
        \/ (\E k \in PeerKeys : ResetBackoff(k)) \/ Disconnect

PeersSpec == PeersInit /\ [][PeersNext]_peersVars

\* Timers fire and a destroyed socket closes; peers may do nothing at all.
FairPeersSpec ==
  PeersSpec /\ \A c \in Sockets :
    /\ WF_peersVars(KeepaliveTick(c)) /\ WF_peersVars(WaitTimesOut(c))
    /\ WF_peersVars(net.sock[c].state = "destroyed" /\ Close(c))

-----------------------------------------------------------------------------
\* A socket that is open and listened to can be written to: no step on behalf of
\* an older connection of the same peer (a late close, a drain timeout, a
\* cancelled wait, an eviction) takes the entry of the newer one.
LiveIsActive ==
  \A c \in Sockets : net.sock[c].state = "open" /\ net.sock[c].listening
                     => Active(net, c)

\* Each end of a connection counts once in the peer's backoff, though it is seen
\* by the eviction, the teardown and the wait that the close wakes up.
CountedOnce ==
  \A k \in PeerKeys :
    net.attempts[k] = made[k] - (IF net.active[k] # None THEN 1 ELSE 0)

\* A device that has identified itself has one connection, with whatever keys and
\* however often it reconnects.
OneSocketPerDevice ==
  \A b, c \in Tracked(net) :
    net.sock[b].known /\ net.sock[c].known /\ net.sock[b].device = net.sock[c].device
    => b = c

\* A socket that is closed leaves no timer, no coroutine, no queue and no entry
\* behind, whichever of the paths ended it.
NothingLeaks ==
  \A c \in Sockets : net.sock[c].state = "closed" =>
    /\ ~Active(net, c) /\ net.sock[c].queue = -1 /\ ~net.sock[c].waiting
    /\ net.sock[c].missed = -1 /\ ~net.sock[c].timers

\* A peer that is gone without a sign is found out and its socket destroyed.
ZombieIsCulled ==
  \A c \in Sockets :
    (c \in half /\ net.sock[c].state = "open") ~> (net.sock[c].state # "open")

\* The daemon's count is right once no socket is about to close: drops and
\* evictions would have to be reported as closes are.
CountIsReported ==
  (up /\ \A c \in Sockets : net.sock[c].state # "destroyed")
    => reported = Cardinality(Tracked(net))

\* A socket that has left the map takes no live connection down with it.
LateHelloHarmless ==
  [][\A c \in Sockets : ~Active(net, c) /\ c \in hello /\ c \notin hello'
       => Tracked(net') = Tracked(net)]_peersVars
=============================================================================
