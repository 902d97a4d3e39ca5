--------------------------- MODULE MCConversation ---------------------------
(* Instance of Conversation for TLC: the cfg gives every constant its value. *)
EXTENDS Conversation
=============================================================================
