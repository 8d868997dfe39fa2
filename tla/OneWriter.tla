------------------------------ MODULE OneWriter ------------------------------
(***************************************************************************)
(* What the resume claims of the operation coordinator promise to a        *)
(* conversation: at any time at most one writer is started on it, every    *)
(* writer is an attempt that was never started before, and none starts     *)
(* after the conversation's wait was closed.                               *)
(***************************************************************************)
CONSTANTS Conversation, Attempt

VARIABLES
    writer,   \* the attempts started and not known to be gone
    used,     \* the attempts ever started
    closed    \* the conversations that will not be continued

vars == <<writer, used, closed>>

Init ==
    /\ writer = [k \in Conversation |-> {}]
    /\ used = {}
    /\ closed = {}

Start(k, a) ==
    /\ k \notin closed
    /\ writer[k] = {}
    /\ a \notin used
    /\ writer' = [writer EXCEPT ![k] = {a}]
    /\ used' = used \cup {a}
    /\ UNCHANGED closed

\* The writer is gone and left the conversation open.
Stop(k) ==
    /\ writer[k] # {}
    /\ writer' = [writer EXCEPT ![k] = {}]
    /\ UNCHANGED <<used, closed>>

\* The writer answered, or whoever is writing is disowned.
Close(k) ==
    /\ k \notin closed
    /\ closed' = closed \cup {k}
    /\ writer' \in {writer, [writer EXCEPT ![k] = {}]}
    /\ UNCHANGED used

Next ==
    \E k \in Conversation :
        \/ \E a \in Attempt : Start(k, a)
        \/ Stop(k)
        \/ Close(k)

Spec == Init /\ [][Next]_vars
==============================================================================
