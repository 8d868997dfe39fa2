-------------------------------- MODULE Capacity --------------------------------
(***************************************************************************)
(* Admission of subagent runs (capacity.mjs and its callers in index.ts):  *)
(* one gate per parent process counts the slots that calls of the spawn    *)
(* tools have reserved and not yet turned into running runs.               *)
(*                                                                         *)
(* A call reserves before its first await and prepares its jobs one after  *)
(* the other; other calls, exits of runs and changes of the cap come in    *)
(* between.  Just before a child is created the running runs are counted   *)
(* again against the cap of that moment.  Every way out of a call returns  *)
(* what it has left.                                                       *)
(***************************************************************************)
EXTENDS Integers, FiniteSets

CONSTANTS
    Call,
    Caps,        \* the values the user sets the cap to
    MaxJobs,     \* of one call
    NoCall

ASSUME CapacityAssumption ==
    /\ Caps # {} /\ Caps \subseteq Nat \ {0}
    /\ MaxJobs \in Nat \ {0}

\* "one": single spawn, continuation, automatic resume; "split": a single spawn that
\* the catalog split; "reject" and "available": the batch's two modes.
Mode == {"one", "split", "reject", "available"}

\* left: jobs not launched yet, the current one included; held: reserved slots.
Progress == [mode : Mode, left : 1 .. MaxJobs, held : 0 .. MaxJobs,
             at : {"slot", "prepare", "start", "commit"}]

ASSUME NoCallAssumption == NoCall \notin Progress

VARIABLES cap, pending, running, call

capacityVars == <<cap, pending, running, call>>

CapacityInit ==
    /\ cap \in Caps
    /\ pending = 0 /\ running = 0
    /\ call = [c \in Call |-> NoCall]

-----------------------------------------------------------------------------
\* mutant: reservations are not counted
AvailableRunning == cap - running

\* availableSlots
Available == cap - running - pending

\* tryReserve
TryReserve(n) == n <= Available /\ pending' = pending + n

At(c, step) == call[c] # NoCall /\ call[c].at = step
Becomes(c, p) == call' = [call EXCEPT ![c] = p]
Returns(c) == Becomes(c, NoCall)

\* subagent_spawn, a continuation or an automatic resume
SpawnOne(c) ==
    /\ call[c] = NoCall
    /\ TryReserve(1)
    /\ Becomes(c, [mode |-> "one", left |-> 1, held |-> 1, at |-> "prepare"])
    /\ UNCHANGED <<cap, running>>

\* The catalog splits the job: the slots of all but the first are reserved now.
Split(c, n) ==
    /\ At(c, "prepare") /\ call[c].mode = "one"
    /\ \/ /\ TryReserve(n - 1)
          /\ Becomes(c, [mode |-> "split", left |-> n, held |-> n, at |-> "prepare"])
       \/ /\ n - 1 > Available
          /\ pending' = pending - 1 /\ Returns(c)
    /\ UNCHANGED <<cap, running>>

\* subagent_spawn_batch in reject mode: all or nothing
Batch(c, n) ==
    /\ call[c] = NoCall
    /\ TryReserve(n)
    /\ Becomes(c, [mode |-> "reject", left |-> n, held |-> n, at |-> "prepare"])
    /\ UNCHANGED <<cap, running>>

\* subagent_spawn_batch in launch-available mode
BatchAvailable(c, n) ==
    /\ call[c] = NoCall
    /\ Becomes(c, [mode |-> "available", left |-> n, held |-> 0, at |-> "slot"])
    /\ UNCHANGED <<cap, pending, running>>

\* mutant: a free slot is seen but not reserved
SlotUncounted(c) ==
    /\ At(c, "slot")
    /\ \/ Available >= 1 /\ UNCHANGED pending
          /\ Becomes(c, [call[c] EXCEPT !.at = "prepare"])
       \/ Available < 1 /\ Returns(c) /\ UNCHANGED pending
    /\ UNCHANGED <<cap, running>>

\* One slot for the next job, or the rest is skipped.
Slot(c) ==
    /\ At(c, "slot")
    /\ \/ TryReserve(1) /\ Becomes(c, [call[c] EXCEPT !.held = 1, !.at = "prepare"])
       \/ Available < 1 /\ Returns(c) /\ UNCHANGED pending
    /\ UNCHANGED <<cap, running>>

\* The live occupancy check of spawnSubagentRun
Check(c) ==
    /\ At(c, "prepare") /\ running < cap
    /\ Becomes(c, [call[c] EXCEPT !.at = "start"])
    /\ UNCHANGED <<cap, pending, running>>

\* The bridge is registered and the last fence has passed: the child is created and
\* its record written.
Create(c) ==
    /\ At(c, "start")
    /\ running' = running + 1
    /\ Becomes(c, [call[c] EXCEPT !.at = "commit"])
    /\ UNCHANGED <<cap, pending>>

\* What a call does after one of its jobs; held: the slots it keeps.
Continues(c, held) ==
    LET left == call[c].left - 1
        mode == call[c].mode IN
    IF left = 0 THEN Returns(c)
    ELSE Becomes(c, [mode |-> mode, left |-> left, held |-> held,
                     at |-> IF mode = "available" THEN "slot" ELSE "prepare"])

\* mutant: a single call returns its slot on success as well
CommitTwice(c) ==
    /\ At(c, "commit")
    /\ pending' = pending - (IF call[c].mode = "one" THEN 2 ELSE 1)
    /\ Continues(c, call[c].held - 1)
    /\ UNCHANGED <<cap, running>>

\* commit(1)
Commit(c) ==
    /\ At(c, "commit")
    /\ pending' = pending - 1
    /\ Continues(c, call[c].held - 1)
    /\ UNCHANGED <<cap, running>>

\* mutant: a failure returns the slot of the job that failed, whatever else is held
FailOne(c) ==
    /\ \/ At(c, "prepare") \/ At(c, "start")
    /\ pending' = pending - 1
    /\ IF call[c].mode = "available" THEN Continues(c, 0) ELSE Returns(c)
    /\ UNCHANGED <<cap, running>>

\* The job cannot be prepared, the check refuses it, or a fence does. Only a
\* launch-available batch goes on with the next job.
Fail(c) ==
    /\ \/ At(c, "prepare") \/ At(c, "start")
    /\ pending' = pending - call[c].held
    /\ IF call[c].mode = "available" THEN Continues(c, 0) ELSE Returns(c)
    /\ UNCHANGED <<cap, running>>

RunEnds == running > 0 /\ running' = running - 1 /\ UNCHANGED <<cap, pending, call>>

\* changeCap
SetCap(n) == cap' = n /\ UNCHANGED <<pending, running, call>>

CapacityNext ==
    \/ \E c \in Call :
          \/ SpawnOne(c) \/ Slot(c) \/ Check(c) \/ Create(c) \/ Commit(c) \/ Fail(c)
          \/ \E n \in 2 .. MaxJobs : Split(c, n)
          \/ \E n \in 1 .. MaxJobs : Batch(c, n) \/ BatchAvailable(c, n)
    \/ RunEnds
    \/ \E n \in Caps : SetCap(n)

CapacitySpec == CapacityInit /\ [][CapacityNext]_capacityVars

-----------------------------------------------------------------------------
CapacityTypeOK ==
    /\ cap \in Caps
    /\ pending \in Nat /\ running \in Nat
    /\ call \in [Call -> Progress \cup {NoCall}]

\* The slots that the calls in progress hold, numbered within each call
Slots == {s \in Call \X (1 .. MaxJobs) : call[s[1]] # NoCall /\ s[2] <= call[s[1]].held}
Started == {c \in Call : At(c, "commit")}

\* The ledger is exact: what is pending is what the calls in progress hold. A slot
\* that leaked would lower the cap until the process ends; one returned twice throws.
LedgerIsExact == pending = Cardinality(Slots)

\* What runs, and what was promised that it may.
Committed == running + pending - Cardinality(Started)

\* Nobody is promised more than the cap: only a cap that was lowered is below what runs
\* and was promised, and then nothing is added.
NoOversubscription == [][Committed' > Committed => Committed' <= cap]_capacityVars

\* A promise is kept: unless the cap was lowered below the promises, the live check
\* refuses no job that holds a reservation.
AdmittedStarts == \A c \in Call : At(c, "prepare") /\ Committed <= cap => running < cap

\* The gate promises what it can keep, and keeps it.
PromisesAreKept == NoOversubscription /\ []AdmittedStarts

--------------------------------------------------------------------------------
(* What the code says elsewhere and does not keep: see Divergences in the README *)

\* Once the cap was lowered, no child is created above it.
NoGrandfather == [][running' > running => running < cap]_capacityVars
================================================================================
