------------------------- MODULE MCConversationStore -------------------------
(***************************************************************************)
(* Instances of ConversationStore for TLC.                                 *)
(***************************************************************************)
EXTENDS ConversationStore
=============================================================================
