-------------------------- MODULE MCDaemonHandoff --------------------------
(***************************************************************************)
(* Instances of DaemonHandoff for TLC; the configurations give the bounds. *)
(***************************************************************************)
EXTENDS DaemonHandoff
============================================================================
