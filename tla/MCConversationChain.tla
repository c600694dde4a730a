------------------------ MODULE MCConversationChain ------------------------
(***************************************************************************)
(* Instances of ConversationChain for TLC.  With a tick of two minutes the *)
(* code has a sweep age of 5, a heartbeat of 2 and dispatches of 15 ticks, *)
(* the numbers of ConversationChain_long.  ConversationChain_messages has  *)
(* 3, 2 and 8: the least for a heartbeat shorter than the sweep age, a     *)
(* safety net at their sum and a dispatch that is reaped after the net.    *)
(***************************************************************************)
EXTENDS ConversationChain
============================================================================
