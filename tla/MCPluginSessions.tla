-------------------------- MODULE MCPluginSessions --------------------------
(***************************************************************************)
(* Instances of PluginSessions for TLC.                                    *)
(***************************************************************************)
EXTENDS PluginSessions
=============================================================================
