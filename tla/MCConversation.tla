--------------------------- MODULE MCConversation ---------------------------
(* Three comments on one thread.                                           *)
EXTENDS Conversation, TLC

Alike == Permutations(Users)
=============================================================================
