--------------------------- MODULE MCSpawnPlugin ---------------------------
(***************************************************************************)
(* Instances of SpawnPlugin for TLC.  The limits are small enough that a   *)
(* few dispatches reach each of them: a queue of two with a third call     *)
(* behind it, two spawn failures for the circuit, one concurrent task.     *)
(***************************************************************************)
EXTENDS SpawnPlugin
============================================================================
