-------------------------- MODULE MCOpenCodePlugin --------------------------
(***************************************************************************)
(* Instances of OpenCodePlugin for TLC.                                    *)
(***************************************************************************)
EXTENDS OpenCodePlugin
=============================================================================
