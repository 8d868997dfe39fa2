----------------------- MODULE MCOperationCoordinator -----------------------
(* Three slices of one small instance of the coordinator store.  The first *)
(* operation, task, owner and wait are named; claims, attempts and tokens  *)
(* are interchangeable.                                                    *)
EXTENDS OperationCoordinator, FiniteSets, TLC

CONSTANTS o1, t1, w1, i1

\* Every owner speaks for the same session and branch: two of them differ in
\* their workspace or their goal.
SameContinuation == [w \in Owner |-> CHOOSE s \in Continuation : TRUE]

Symmetric ==
    Permutations(ClaimId) \cup Permutations(AttemptId) \cup Permutations(DispatchToken)

Registered == {o \in Operation : opPhase[o] # "absent"}
Recorded == {k \in Gen : phase[k] # "absent"}

OneOperation == Registered \subseteq {o1}
OneOwner ==
    /\ \A o \in Registered : opOwner[o] = w1
    /\ \A k \in Recorded : owner[k] = w1
OneWait == \A k \in Recorded : k[1] = i1
FirstGeneration == \A k \in Recorded : k[2] = 1
OneClaim == Cardinality({c \in ClaimId : claimState[c] # "absent"}) <= 1
NothingDelivered ==
    \A k \in Gen, o \in Operation :
        opEvidence[o] \cup pinned[k] \cup unpinned[k] = {} /\ holder[k][o] = None
Supervised == \A o \in Operation : health[o] = "active"

\* The claims of two generations of one wait; the deliveries of one wait on two
\* operations; two owners with a wait each on an operation of the first.
Claims == OneOperation /\ OneOwner /\ OneWait /\ NothingDelivered /\ Supervised
Deliveries == OneOwner /\ OneWait /\ FirstGeneration /\ OneClaim /\ Supervised
Owners ==
    /\ OneOperation /\ FirstGeneration /\ OneClaim /\ NothingDelivered
    /\ \A o \in Registered : opOwner[o] = w1
    /\ Recorded # {} => \E k \in Recorded : k[1] = i1

Slices ==
    /\ \A o \in Registered : opTask[o] = t1 <=> o = o1
    /\ Claims \/ Deliveries \/ Owners
=============================================================================
