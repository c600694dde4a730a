------------------------- MODULE MCPeerConnections -------------------------
(***************************************************************************)
(* Instances of PeerConnections for TLC: every key belongs to one device.  *)
(***************************************************************************)
EXTENDS PeerConnections

CONSTANTS k1, k2, d1

MCOwner == [k \in PeerKeys |-> d1]
============================================================================
