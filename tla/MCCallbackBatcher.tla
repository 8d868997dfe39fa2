------------------------- MODULE MCCallbackBatcher -------------------------
(* A small instance of CallbackBatcher: two completions and an urgent      *)
(* notification of one session, and another session that comes between.   *)
EXTENDS CallbackBatcher, TLC

CONSTANTS s1

OwnKeys == [e \in Event |-> e]
OneOwner == [e \in Event |-> s1]
=============================================================================
