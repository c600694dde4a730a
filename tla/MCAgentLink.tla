---------------------------- MODULE MCAgentLink ----------------------------
(***************************************************************************)
(* Instances of AgentLink, and with it of AgentSupervision, for TLC.       *)
(***************************************************************************)
EXTENDS AgentLink
============================================================================
