--------------------------- MODULE MCMessageQueue ---------------------------
(***************************************************************************)
(* Instances of MessageQueue for TLC.  A maxDepth of 3 puts the 80 %       *)
(* threshold at 2, below the capacity; six items fill the queue twice.     *)
(***************************************************************************)
EXTENDS MessageQueue
============================================================================
