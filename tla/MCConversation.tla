--------------------------- MODULE MCConversation ---------------------------
(* Instances of Conversation for TLC.                                      *)
EXTENDS Conversation, TLC

CONSTANTS c1, c2, c3

Permute == Permutations(Clients)
=============================================================================
