------------------------ MODULE OperationCoordinator ------------------------
(***************************************************************************)
(* The durable store of packages/operation-coordinator: operations, wait   *)
(* generations, resume claims, evidence and the delivery outbox.  Every    *)
(* public call of the store is one BEGIN IMMEDIATE transaction of SQLite   *)
(* (sqlite.ts), so it is one atomic action here; a refused call rolls back *)
(* and is a step that does not happen.  Processes interleave between       *)
(* calls, and each call's arguments are whatever its caller saw earlier.   *)
(*                                                                         *)
(* A call that is a replay of an earlier one (same launch, same terminal   *)
(* event, same publication, same read) returns the recorded row and writes *)
(* nothing: it is a stuttering step.  A terminal outcome is revision 1 of  *)
(* its operation and there is never another, so a revision is a Boolean.   *)
(***************************************************************************)
EXTENDS Naturals

CONSTANTS
    Operation,       \* operation ids
    Task,            \* background task ids
    Owner,           \* execution owners: kind, session, workspace, branch, goal
    Continuation,    \* continuation identities: kind, session and branch
    ContinuationOf,  \* the continuation of each owner
    Health,          \* observer health values
    WaitId,          \* wait ids
    MaxGeneration,   \* bound on the generations of a wait id
    ClaimId,         \* resume claim ids, each with its token
    AttemptId,       \* attempt ids, each with its launch token
    DispatchToken,   \* tokens of outbox dispatchers
    Ref,             \* evidence references
    None             \* SQL NULL

Gen == WaitId \X (1 .. MaxGeneration)    \* primary key of the table waits

ASSUME GenerationsAssumption == MaxGeneration \in Nat \ {0}
ASSUME OwnersAssumption == ContinuationOf \in [Owner -> Continuation]
ASSUME NoneAssumption ==
    None \notin Operation \cup Task \cup Owner \cup AttemptId \cup DispatchToken \cup Gen

Phases == {"registering", "parking", "waiting", "ready", "resuming",
           "consumed", "held", "cancelled"}
TerminalPhases == {"consumed", "cancelled"}
ClaimStates == {"claimed", "published", "released", "invalidated"}
ActiveClaimStates == {"claimed", "published"}
OutboxStates == {"pending", "claimed", "delivered", "acknowledged", "voided"}
\* Mutant: a delivery that reached its recipient counts as dealt with.
UndispatchedOutboxStates == {"pending", "claimed"}
UnconsumedOutboxStates == {"pending", "claimed", "delivered"}
DeliverableWaitPhases == {"ready", "resuming"}

AllowedTransitions ==
    [p \in Phases |->
        CASE p = "registering" -> {"parking", "waiting", "ready", "held"}
          [] p = "parking"     -> {"waiting", "ready", "held"}
          [] p = "waiting"     -> {"ready", "held"}
          [] p = "ready"       -> {"held"}
          [] p = "held"        -> {"waiting", "ready"}
          [] OTHER             -> {}]

VARIABLES
    opPhase, opOwner, opTask, opEvidence, health,     \* operations
    phase, owner, park, epoch, deps, settled,         \* waits, wait_dependencies
    proven,                                           \* history: checkpoint proof given
    claimState, claimOf, claimEpoch, claimAttempt,    \* resume_claims
    reads, pinned, unpinned,                          \* evidence_reads, evidence_pins
    outbox, holder                                    \* outbox_events

opVars    == <<opPhase, opOwner, opTask, opEvidence, health>>
keyVars   == <<owner, park, epoch, deps, settled, proven>>
claimVars == <<claimState, claimOf, claimEpoch, claimAttempt>>
pinVars   == <<pinned, unpinned>>
boxVars   == <<outbox, holder>>
vars == <<opVars, phase, keyVars, claimVars, reads, pinVars, boxVars>>

-----------------------------------------------------------------------------
(* Row predicates *)

Pending(k)  == phase[k] \notin TerminalPhases \cup {"absent"}
Settled(k)  == deps[k] # {} /\ deps[k] \subseteq settled[k]
Active(c)   == claimState[c] \in ActiveClaimStates

\* The claim rows the index resume_claims_one_active speaks of.
ActiveClaims(k) == {c \in ClaimId : claimOf[c] = k /\ Active(c)}

\* assertCurrentGeneration: no later generation of the wait id is recorded.
Current(k) == \A h \in Gen : h[1] = k[1] /\ h[2] > k[2] => phase[h] = "absent"

\* Mutant: the index compares whole owners, workspace and goal included.
OnlyPendingOfOwner(k, w) == \A h \in Gen \ {k} : Pending(h) => owner[h] # w

\* The index waits_one_pending_per_owner admits a pending row k of owner w.
OnlyPending(k, w) ==
    \A h \in Gen \ {k} : Pending(h) => ContinuationOf[owner[h]] # ContinuationOf[w]

\* Mutant: settlement moves a generation that has not parked yet.
WokenAnywhere(o, hit) ==
    {k \in hit : /\ phase[k] \in {"registering", "parking", "waiting"}
                /\ deps[k] \subseteq settled[k] \cup {o}}

\* Of the generations whose row of operation o settles, those that become ready.
Woken(o, hit) ==
    {k \in hit : phase[k] = "waiting" /\ deps[k] \subseteq settled[k] \cup {o}}

\* Mutant: a dependency that settled during parking is not looked at again.
ResultingUnchecked(k, to) == to

\* A dependency that settled during parking resolves straight to ready.
Resulting(k, to) == IF to = "waiting" /\ Settled(k) THEN "ready" ELSE to

\* Mutant: only a transition that asks for ready enqueues.
AsksForReady(k, to) == to = "ready"

BecomesReady(k, to) == Resulting(k, to) = "ready"

\* The table outbox after enqueueReadyGeneration for the generations in K,
\* whose dependencies are the rows D.
Enqueued(K, D) ==
    [k \in Gen |-> [o \in Operation |->
        IF k \in K /\ o \in D[k] /\ outbox[k][o] = "absent"
        THEN "pending" ELSE outbox[k][o]]]

\* Mutant: the evidence is read before the terminal outcome inserts it.
PinnedBefore(K, D, ev) ==
    [k \in Gen |->
        IF k \in K
        THEN pinned[k] \cup {p \in Operation \X Ref :
                 /\ p[1] \in D[k]
                 /\ outbox[k][p[1]] = "absent"
                 /\ p[2] \in opEvidence[p[1]]
                 /\ p \notin unpinned[k]}
        ELSE pinned[k]]

\* The references pinned by those insertions, of the evidence ev; an existing
\* row is left alone.
PinnedWith(K, D, ev) ==
    [k \in Gen |->
        IF k \in K
        THEN pinned[k] \cup {p \in Operation \X Ref :
                 /\ p[1] \in D[k]
                 /\ outbox[k][p[1]] = "absent"
                 /\ p[2] \in ev[p[1]]
                 /\ p \notin unpinned[k]}
        ELSE pinned[k]]

\* releaseGenerationPins
ReleaseGenerationPins(k) ==
    /\ unpinned' = [unpinned EXCEPT ![k] = @ \cup pinned[k]]
    /\ pinned' = [pinned EXCEPT ![k] = {}]

\* Close the unconsumed deliveries of generation k as state s.
CloseOutbox(k, s) ==
    /\ holder' = [holder EXCEPT ![k] =
                    [o \in Operation |->
                       IF outbox[k][o] \in UnconsumedOutboxStates THEN None ELSE @[o]]]
    /\ outbox' = [outbox EXCEPT ![k] =
                    [o \in Operation |->
                       IF @[o] \in UnconsumedOutboxStates THEN s ELSE @[o]]]

-----------------------------------------------------------------------------
Init ==
    /\ opPhase = [o \in Operation |-> "absent"]
    /\ opOwner = [o \in Operation |-> None]
    /\ opTask = [o \in Operation |-> None]
    /\ opEvidence = [o \in Operation |-> {}]
    /\ health = [o \in Operation |-> "active"]
    /\ phase = [k \in Gen |-> "absent"]
    /\ owner = [k \in Gen |-> None]
    /\ park = [k \in Gen |-> FALSE]
    /\ epoch = [k \in Gen |-> 0]
    /\ deps = [k \in Gen |-> {}]
    /\ settled = [k \in Gen |-> {}]
    /\ proven = [k \in Gen |-> FALSE]
    /\ claimState = [c \in ClaimId |-> "absent"]
    /\ claimOf = [c \in ClaimId |-> None]
    /\ claimEpoch = [c \in ClaimId |-> 0]
    /\ claimAttempt = [c \in ClaimId |-> None]
    /\ reads = [k \in Gen |-> {}]
    /\ pinned = [k \in Gen |-> {}]
    /\ unpinned = [k \in Gen |-> {}]
    /\ outbox = [k \in Gen |-> [o \in Operation |-> "absent"]]
    /\ holder = [k \in Gen |-> [o \in Operation |-> None]]

-----------------------------------------------------------------------------
(* operations.ts *)

\* One durable operation per task launch.
RegisterOperation(o, t, w) ==
    /\ opPhase[o] = "absent"
    /\ \A p \in Operation : opTask[p] # t
    /\ opPhase' = [opPhase EXCEPT ![o] = "running"]
    /\ opTask' = [opTask EXCEPT ![o] = t]
    /\ opOwner' = [opOwner EXCEPT ![o] = w]
    /\ UNCHANGED <<opEvidence, health, phase, keyVars, claimVars, reads, pinVars, boxVars>>

\* Mutant: an update without a health clears the column.
RecordSupervisionClearing(o, w, h) ==
    /\ opPhase[o] # "absent"
    /\ opOwner[o] = w
    /\ health' = [health EXCEPT ![o] = None]
    /\ UNCHANGED <<opPhase, opOwner, opTask, opEvidence, phase, keyVars, claimVars,
                   reads, pinVars, boxVars>>

RecordSupervision(o, w, h) ==
    /\ opPhase[o] # "absent"
    /\ opOwner[o] = w
    /\ health' = [health EXCEPT ![o] = h]
    /\ UNCHANGED <<opPhase, opOwner, opTask, opEvidence, phase, keyVars, claimVars,
                   reads, pinVars, boxVars>>

\* The terminal outcome, with the settlement of every wait generation that
\* depends on it: settled rows in any phase, and the move to ready (with its
\* deliveries and pins) of the generations that were only waiting for it.
RecordTerminalOutcome(o, w, E) ==
    LET hit   == {k \in Gen : o \in deps[k] \ settled[k]}
        woken == Woken(o, hit)
    IN  /\ opPhase[o] = "running"
        /\ opOwner[o] = w
        /\ opPhase' = [opPhase EXCEPT ![o] = "terminal"]
        /\ opEvidence' = [opEvidence EXCEPT ![o] = E]
        /\ settled' = [k \in Gen |-> IF k \in hit THEN settled[k] \cup {o} ELSE settled[k]]
        /\ phase' = [k \in Gen |-> IF k \in woken THEN "ready" ELSE phase[k]]
        /\ outbox' = Enqueued(woken, deps)
        /\ pinned' = PinnedWith(woken, deps, opEvidence')
        /\ UNCHANGED <<opOwner, opTask, health, owner, park, epoch, deps, proven, claimVars,
                       reads, unpinned, holder>>

-----------------------------------------------------------------------------
(* waits.ts: registration, transitions, cancellation *)

\* Register the next generation of a wait id on the operations D, of which
\* those in X are explicitly linked; p says that a worker attempt parks on it.
RegisterWait(k, w, D, X, p) ==
    LET terminal == {o \in D : opPhase[o] = "terminal"}
        isSettled == terminal = D
    IN  /\ D # {}
        /\ \A o \in D : opPhase[o] # "absent" /\ (o \in X \/ opOwner[o] = w)
        /\ phase[k] = "absent"
        /\ \A h \in Gen : h[1] = k[1] /\ h[2] < k[2] =>
              phase[h] \in TerminalPhases /\ owner[h] = w
        /\ OnlyPending(k, w)
        /\ phase' = [phase EXCEPT ![k] =
               IF p THEN "registering" ELSE IF isSettled THEN "ready" ELSE "waiting"]
        /\ owner' = [owner EXCEPT ![k] = w]
        /\ park' = [park EXCEPT ![k] = p]
        /\ deps' = [deps EXCEPT ![k] = D]
        /\ settled' = [settled EXCEPT ![k] = terminal]
        /\ IF isSettled
           THEN /\ outbox' = Enqueued({k}, deps')
                /\ pinned' = PinnedWith({k}, deps', opEvidence)
           ELSE UNCHANGED <<outbox, pinned>>
        /\ UNCHANGED <<opVars, epoch, proven, claimVars, reads, unpinned, holder>>

\* A direct transition of the phase the caller read; proof is the caller's
\* checkpoint, lease and process-exit evidence taken together.
TransitionWaitPhase(k, to, proof) ==
    LET atParkingBoundary == /\ park[k]
                             /\ to # "parking"
                             /\ phase[k] \in {"registering", "parking"}
    IN  /\ phase[k] # "absent"
        /\ Current(k)
        /\ to = "parking" => park[k]
        /\ to \in AllowedTransitions[phase[k]]
        /\ atParkingBoundary => phase[k] = "parking" /\ proof
        /\ to = "ready" => Settled(k)
        /\ phase' = [phase EXCEPT ![k] = Resulting(k, to)]
        /\ proven' = [proven EXCEPT ![k] = @ \/ (phase[k] = "parking" /\ proof)]
        /\ IF BecomesReady(k, to)
           THEN /\ outbox' = Enqueued({k}, deps)
                /\ pinned' = PinnedWith({k}, deps, opEvidence)
           ELSE UNCHANGED <<outbox, pinned>>
        /\ UNCHANGED <<opVars, owner, park, epoch, deps, settled, claimVars, reads,
                       unpinned, holder>>

\* Cancellation at the epoch x the caller observed.
CancelWait(k, w, x) ==
    /\ phase[k] # "absent"
    /\ Current(k)
    /\ owner[k] = w
    /\ phase[k] \notin TerminalPhases
    /\ x = epoch[k]
    /\ phase' = [phase EXCEPT ![k] = "cancelled"]
    /\ epoch' = [epoch EXCEPT ![k] = @ + 1]
    /\ claimState' = [c \in ClaimId |->
           IF c \in ActiveClaims(k) THEN "invalidated" ELSE claimState[c]]
    /\ CloseOutbox(k, "voided")
    /\ ReleaseGenerationPins(k)
    /\ UNCHANGED <<opVars, owner, park, deps, settled, proven, claimOf, claimEpoch,
                   claimAttempt, reads>>

-----------------------------------------------------------------------------
(* waits.ts: resume claims *)

ClaimResume(k, c, x) ==
    /\ claimState[c] = "absent"
    /\ phase[k] = "ready"
    /\ Current(k)
    /\ ActiveClaims(k) = {}
    /\ x = epoch[k]
    /\ Settled(k)
    /\ claimState' = [claimState EXCEPT ![c] = "claimed"]
    /\ claimOf' = [claimOf EXCEPT ![c] = k]
    /\ claimEpoch' = [claimEpoch EXCEPT ![c] = epoch[k]]
    /\ phase' = [phase EXCEPT ![k] = "resuming"]
    /\ UNCHANGED <<opVars, keyVars, claimAttempt, reads, pinVars, boxVars>>

\* Mutant: the attempt id is not compared with the other claims'.
AttemptUnchecked(a) == TRUE

AttemptUnused(a) == \A d \in ClaimId : claimAttempt[d] # a

\* Record the attempt that the claim is about to spawn.
PublishResumeAttempt(k, c, a) ==
    /\ claimOf[c] = k
    /\ claimState[c] = "claimed"
    /\ Current(k)
    /\ claimEpoch[c] = epoch[k]
    /\ phase[k] = "resuming"
    /\ AttemptUnused(a)
    /\ claimState' = [claimState EXCEPT ![c] = "published"]
    /\ claimAttempt' = [claimAttempt EXCEPT ![c] = a]
    /\ UNCHANGED <<opVars, phase, keyVars, claimOf, claimEpoch, reads, pinVars, boxVars>>

\* Mutant: a superseded generation can be given back.
ReleaseResumeClaimLate(k, c, outcome) ==
    /\ claimOf[c] = k
    /\ claimState[c] = "claimed"
    /\ outcome = "ready" => Settled(k)
    /\ OnlyPending(k, owner[k])
    /\ claimState' = [claimState EXCEPT ![c] = "released"]
    /\ phase' = [phase EXCEPT ![k] = outcome]
    /\ UNCHANGED <<opVars, keyVars, claimOf, claimEpoch, claimAttempt, reads, pinVars, boxVars>>

\* Give an unpublished claim back.  The code looks at the claim's state and
\* not at the phase it overwrites; only the index of pending rows stands.
ReleaseResumeClaim(k, c, outcome) ==
    /\ claimOf[c] = k
    /\ claimState[c] = "claimed"
    /\ Current(k)
    /\ outcome = "ready" => Settled(k)
    /\ OnlyPending(k, owner[k])
    /\ claimState' = [claimState EXCEPT ![c] = "released"]
    /\ phase' = [phase EXCEPT ![k] = outcome]
    /\ UNCHANGED <<opVars, keyVars, claimOf, claimEpoch, claimAttempt, reads, pinVars, boxVars>>

\* Mutant: the claim of the attempt that is gone stays published.
HoldFailedResumeKeepingClaim(k, c) ==
    /\ claimOf[c] = k
    /\ claimState[c] = "published"
    /\ Current(k)
    /\ claimEpoch[c] = epoch[k]
    /\ phase[k] = "resuming"
    /\ phase' = [phase EXCEPT ![k] = "held"]
    /\ UNCHANGED <<opVars, keyVars, claimVars, reads, pinVars, boxVars>>

\* Mutant: the exit of an attempt that did answer holds its generation.
HoldFailedResumeAnyPhase(k, c) ==
    /\ claimOf[c] = k
    /\ claimState[c] = "published"
    /\ Current(k)
    /\ claimEpoch[c] = epoch[k]
    /\ claimState' = [claimState EXCEPT ![c] = "invalidated"]
    /\ phase' = [phase EXCEPT ![k] = "held"]
    /\ UNCHANGED <<opVars, keyVars, claimOf, claimEpoch, claimAttempt, reads, pinVars, boxVars>>

\* A published attempt proven gone without interpreting the result.
HoldFailedResume(k, c) ==
    /\ claimOf[c] = k
    /\ claimState[c] = "published"
    /\ Current(k)
    /\ claimEpoch[c] = epoch[k]
    /\ phase[k] = "resuming"
    /\ claimState' = [claimState EXCEPT ![c] = "invalidated"]
    /\ phase' = [phase EXCEPT ![k] = "held"]
    /\ UNCHANGED <<opVars, keyVars, claimOf, claimEpoch, claimAttempt, reads, pinVars, boxVars>>

-----------------------------------------------------------------------------
(* waits.ts: evidence and interpretation *)

RecordEvidenceRead(k, w, o) ==
    /\ Pending(k)
    /\ owner[k] = w
    /\ o \in settled[k]
    /\ reads' = [reads EXCEPT ![k] = @ \cup {o}]
    /\ UNCHANGED <<opVars, phase, keyVars, claimVars, pinVars, boxVars>>

RecordEvidencePin(k, o, r) ==
    /\ Pending(k)
    /\ o \in settled[k]
    /\ <<o, r>> \notin unpinned[k]
    /\ pinned' = [pinned EXCEPT ![k] = @ \cup {<<o, r>>}]
    /\ UNCHANGED <<opVars, phase, keyVars, claimVars, reads, unpinned, boxVars>>

ReleaseEvidencePins(k) ==
    /\ phase[k] # "absent"
    /\ ReleaseGenerationPins(k)
    /\ UNCHANGED <<opVars, phase, keyVars, claimVars, reads, boxVars>>

\* The owner's interpretation of the terminal revisions of the operations R.
AcknowledgeResult(k, w, R) ==
    /\ Pending(k)
    /\ Current(k)
    /\ owner[k] = w
    /\ phase[k] \notin {"registering", "parking"}
    /\ Settled(k)
    /\ R = deps[k]
    /\ deps[k] \subseteq reads[k]
    /\ phase' = [phase EXCEPT ![k] = "consumed"]
    /\ CloseOutbox(k, "acknowledged")
    /\ ReleaseGenerationPins(k)
    /\ UNCHANGED <<opVars, keyVars, claimVars, reads>>

-----------------------------------------------------------------------------
(* outbox.ts: dispatch *)

Deliverable == {e \in Gen \X Operation :
    outbox[e[1]][e[2]] = "pending" /\ phase[e[1]] \in DeliverableWaitPhases}

\* Mutant: the token may hold deliveries already.
TokenUnchecked(t) == TRUE

\* assertDispatchTokenUnused
TokenUnused(t) == \A k \in Gen, o \in Operation : holder[k][o] # t

\* A dispatcher takes the deliveries S, at most its limit, under a fresh token.
ClaimOutbox(t, S) ==
    /\ TokenUnused(t)
    /\ S \subseteq Deliverable
    /\ S # {}
    /\ outbox' = [k \in Gen |-> [o \in Operation |->
                    IF <<k, o>> \in S THEN "claimed" ELSE outbox[k][o]]]
    /\ holder' = [k \in Gen |-> [o \in Operation |->
                    IF <<k, o>> \in S THEN t ELSE holder[k][o]]]
    /\ UNCHANGED <<opVars, phase, keyVars, claimVars, reads, pinVars>>

\* Settle a delivery this token holds as state s.
FinishDispatch(k, o, t, s) ==
    /\ outbox[k][o] = "claimed"
    /\ holder[k][o] = t
    /\ outbox' = [outbox EXCEPT ![k][o] = s]
    /\ holder' = [holder EXCEPT ![k][o] = None]
    /\ UNCHANGED <<opVars, phase, keyVars, claimVars, reads, pinVars>>

MarkOutboxDelivered(k, o, t) == FinishDispatch(k, o, t, "delivered")
ReleaseOutbox(k, o, t)       == FinishDispatch(k, o, t, "pending")

-----------------------------------------------------------------------------
Next ==
    \/ \E o \in Operation, w \in Owner :
          \/ \E t \in Task : RegisterOperation(o, t, w)
          \/ \E h \in Health : RecordSupervision(o, w, h)
          \/ \E E \in SUBSET Ref : RecordTerminalOutcome(o, w, E)
    \/ \E k \in Gen, w \in Owner :
          \/ \E D \in SUBSET Operation, X \in SUBSET Operation, p \in BOOLEAN :
                RegisterWait(k, w, D, X, p)
          \/ \E x \in {0, 1} : CancelWait(k, w, x)
          \/ \E o \in Operation : RecordEvidenceRead(k, w, o)
          \/ \E R \in SUBSET Operation : AcknowledgeResult(k, w, R)
    \/ \E k \in Gen :
          \/ \E to \in {"parking", "waiting", "ready", "held"}, proof \in BOOLEAN :
                TransitionWaitPhase(k, to, proof)
          \/ \E o \in Operation, r \in Ref : RecordEvidencePin(k, o, r)
          \/ ReleaseEvidencePins(k)
    \/ \E k \in Gen, c \in ClaimId :
          \/ \E x \in {0, 1} : ClaimResume(k, c, x)
          \/ \E a \in AttemptId : PublishResumeAttempt(k, c, a)
          \/ \E outcome \in {"ready", "held"} : ReleaseResumeClaim(k, c, outcome)
          \/ HoldFailedResume(k, c)
    \/ \E t \in DispatchToken :
          \/ \E S \in SUBSET Deliverable : ClaimOutbox(t, S)
          \/ \E k \in Gen, o \in Operation :
                MarkOutboxDelivered(k, o, t) \/ ReleaseOutbox(k, o, t)

Spec == Init /\ [][Next]_vars
-----------------------------------------------------------------------------
(* What the claim rows say of a generation's writers *)

\* The attempts published and not known to be gone.
Published(k) ==
    {claimAttempt[c] : c \in {d \in ClaimId : claimOf[d] = k /\ claimState[d] = "published"}}

\* The attempts ever published.
Used == {claimAttempt[c] : c \in ClaimId} \ {None}

\* Cancelled, or answered with no claim open that published nothing.
Dealt(k) ==
    \/ phase[k] = "cancelled"
    \/ phase[k] = "consumed" /\ \A c \in ActiveClaims(k) : claimState[c] = "published"

-----------------------------------------------------------------------------
(* Properties *)

TypeOK ==
    /\ opPhase \in [Operation -> {"absent", "running", "terminal"}]
    /\ opOwner \in [Operation -> Owner \cup {None}]
    /\ opTask \in [Operation -> Task \cup {None}]
    /\ opEvidence \in [Operation -> SUBSET Ref]
    /\ health \in [Operation -> Health \cup {"active"}]
    /\ phase \in [Gen -> Phases \cup {"absent"}]
    /\ owner \in [Gen -> Owner \cup {None}]
    /\ park \in [Gen -> BOOLEAN]
    /\ epoch \in [Gen -> Nat]
    /\ deps \in [Gen -> SUBSET Operation]
    /\ settled \in [Gen -> SUBSET Operation]
    /\ proven \in [Gen -> BOOLEAN]
    /\ claimState \in [ClaimId -> ClaimStates \cup {"absent"}]
    /\ claimOf \in [ClaimId -> Gen \cup {None}]
    /\ claimEpoch \in [ClaimId -> Nat]
    /\ claimAttempt \in [ClaimId -> AttemptId \cup {None}]
    /\ reads \in [Gen -> SUBSET Operation]
    /\ pinned \in [Gen -> SUBSET (Operation \X Ref)]
    /\ unpinned \in [Gen -> SUBSET (Operation \X Ref)]
    /\ outbox \in [Gen -> [Operation -> OutboxStates \cup {"absent"}]]
    /\ holder \in [Gen -> [Operation -> DispatchToken \cup {None}]]

\* No wakeup is lost between the end of an operation and the registration of
\* a wait on it, whichever comes first: a dependency row is settled exactly
\* when its operation is terminal, and no generation waits for a set of
\* operations that are all terminal (registerWait, settleWaitsForOperation
\* and the settled-while-parking rule of transitionWaitPhase together).
NoLostWakeup ==
    \A k \in Gen :
        /\ settled[k] = {o \in deps[k] : opPhase[o] = "terminal"}
        /\ phase[k] = "waiting" => ~Settled(k)

\* A generation that can be continued has a delivery of every dependency's
\* result: it became ready through some handler that enqueued them, and no
\* cancellation voided them behind its back.
ReadyIsDeliverable ==
    \A k \in Gen : phase[k] \in {"ready", "resuming"} =>
        /\ Settled(k)
        /\ \A o \in deps[k] : outbox[k][o] \notin {"absent", "voided"}

\* Claims and phases agree: a resuming generation has one active claim, at
\* its cancellation epoch, and an active claim is never left behind on a
\* generation that somebody could try to claim, hold or cancel again.
ClaimMatchesPhase ==
    /\ \A k \in Gen : phase[k] = "resuming" => ActiveClaims(k) # {}
    /\ \A c, d \in ClaimId :
          /\ Active(c) => /\ phase[claimOf[c]] \in {"resuming", "consumed"}
                          /\ claimEpoch[c] = epoch[claimOf[c]]
          /\ Active(c) /\ Active(d) /\ claimOf[c] = claimOf[d] => c = d

\* One continuation (session and branch) has at most one pending generation,
\* across wait ids and across owners that differ in workspace or goal only.
OnePendingPerContinuation ==
    \A k, h \in Gen :
        Pending(k) /\ Pending(h) /\ ContinuationOf[owner[k]] = ContinuationOf[owner[h]]
            => k = h

\* A generation that has a successor is over, whatever call arrives late.
SupersededIsTerminal ==
    \A k \in Gen : ~Current(k) => phase[k] \in TerminalPhases

\* A parked worker's generation gets past parking by a complete checkpoint
\* proof only: not by a settlement, a claim, a hold or an acknowledgement.
CheckpointGate ==
    \A k \in Gen :
        park[k] /\ phase[k] \notin {"registering", "parking", "cancelled"} => proven[k]

\* A generation that ended retains nothing: no pin keeps evidence from
\* cleanup and no delivery of it is left to be dispatched.
TerminalRetainsNothing ==
    \A k \in Gen : phase[k] \in TerminalPhases =>
        /\ pinned[k] = {}
        /\ \A o \in Operation : outbox[k][o] \notin {"pending", "claimed", "delivered"}

\* A delivery carries its evidence: whatever put it in the outbox, each
\* reference recorded with the terminal outcome has a pin of the generation,
\* held or explicitly released.
DeliveryHasEvidence ==
    \A k \in Gen, o \in Operation : outbox[k][o] # "absent" =>
        \A r \in opEvidence[o] : <<o, r>> \in pinned[k] \cup unpinned[k]

\* The rows of waits and claims agree with each other, however late a call is:
\* one active claim for a resuming generation and none besides, one pending
\* generation for a continuation, none that was superseded comes back, and none
\* passes its parking boundary unproven.
WaitsAreSound ==
    ClaimMatchesPhase /\ SupersededIsTerminal /\ OnePendingPerContinuation /\ CheckpointGate

\* The outbox and the pins agree with the generations: what is ready can be
\* delivered with its evidence, and what is over keeps nothing.
DeliveriesAreSound == ReadyIsDeliverable /\ TerminalRetainsNothing /\ DeliveryHasEvidence

\* A cancelled generation stays cancelled, and a consumed one stays consumed
\* unless a claim that published nothing is still open on it: no late hold,
\* publication, transition or second claim makes a result that was dealt with
\* available again.
DealtWithIsFinal == [][\A k \in Gen : Dealt(k) => phase'[k] = phase[k]]_vars

\* A dispatch token names the deliveries of one claimOutbox call: a token that
\* holds deliveries never gets another, so an answer to a dispatch cannot
\* settle deliveries of a later one.
TokenNamesOneDispatch ==
    [][\A t \in DispatchToken, k, h \in Gen, o, p \in Operation :
         holder[k][o] = t /\ holder'[h][p] = t => holder[h][p] = t]_vars

\* A call that comes after the fact, by a claimant or a dispatcher that was given
\* up, reopens no generation and settles no delivery that is not its own.
LateCallsChangeNothing == DealtWithIsFinal /\ TokenNamesOneDispatch

\* README.md: the store refuses any other transition than
\* registering -> parking -> waiting -> ready -> resuming -> consumed, plus
\* held and cancelled, and a second acknowledgement is refused: consumed is
\* the last phase of a generation.
ConsumedIsFinal ==
    [][\A k \in Gen : phase[k] = "consumed" => phase'[k] = "consumed"]_vars

-----------------------------------------------------------------------------
(* What the claims are for *)

Writers ==
    INSTANCE OneWriter WITH
        Conversation <- Gen,
        Attempt <- AttemptId,
        writer <- [k \in Gen |-> Published(k)],
        used <- Used,
        closed <- {k \in Gen : Dealt(k)}

\* The resume claims keep every promise of OneWriter: a generation has one
\* published attempt at a time, an attempt id is published once, and none is
\* published after the generation was cancelled or answered.
ImplementsOneWriter == Writers!Spec
=============================================================================
