------------------------ MODULE MCConversationWriters ------------------------
(* One history, written by up to four attempts of two processes. *)
EXTENDS ConversationWriters, TLC

Symmetry == Permutations(Process) \cup Permutations(Attempt \ {First})

==============================================================================
