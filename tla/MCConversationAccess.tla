------------------------ MODULE MCConversationAccess ------------------------
(* ConversationAccess for TLC; the constants are given by the               *)
(* configurations.                                                          *)
EXTENDS ConversationAccess, TLC

Symmetry == Permutations(Requests) \union Permutations(Conversations)
              \union Permutations(Predictions)
=============================================================================
