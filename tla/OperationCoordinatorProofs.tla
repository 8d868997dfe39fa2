--------------------- MODULE OperationCoordinatorProofs ---------------------
(* Type correctness of the coordinator store, its inductive invariants, and *)
(* the refinement of OneWriter. *)
EXTENDS OperationCoordinator, TLAPS

LEMMA EnqueuedType ==
    ASSUME TypeOK, NEW K, NEW D
    PROVE  Enqueued(K, D) \in [Gen -> [Operation -> OutboxStates \cup {"absent"}]]
  BY DEF TypeOK, Enqueued, OutboxStates

LEMMA PinnedWithType ==
    ASSUME TypeOK, NEW K, NEW D, NEW ev
    PROVE  PinnedWith(K, D, ev) \in [Gen -> SUBSET (Operation \X Ref)]
  BY DEF TypeOK, PinnedWith

LEMMA InitTypeOK == Init => TypeOK
  BY GenerationsAssumption DEF Init, TypeOK, Phases, ClaimStates, OutboxStates

LEMMA NextTypeOK == TypeOK /\ [Next]_vars => TypeOK'
<1> SUFFICES ASSUME TypeOK, [Next]_vars PROVE TypeOK'
  OBVIOUS
<1> USE DEF Phases, ClaimStates, OutboxStates
<1>1. ASSUME NEW o \in Operation, NEW w \in Owner, NEW t \in Task, RegisterOperation(o, t, w)
      PROVE TypeOK'
  BY <1>1 DEF TypeOK, RegisterOperation, keyVars, claimVars, pinVars, boxVars
<1>2. ASSUME NEW o \in Operation, NEW w \in Owner, NEW h \in Health, RecordSupervision(o, w, h)
      PROVE TypeOK'
  BY <1>2 DEF TypeOK, RecordSupervision, keyVars, claimVars, pinVars, boxVars
<1>3. ASSUME NEW o \in Operation, NEW w \in Owner, NEW E \in SUBSET Ref,
             RecordTerminalOutcome(o, w, E)
      PROVE TypeOK'
  BY <1>3 DEF TypeOK, RecordTerminalOutcome, Woken, Enqueued, PinnedWith, claimVars
<1>4. ASSUME NEW k \in Gen, NEW w \in Owner, NEW D \in SUBSET Operation,
             NEW X \in SUBSET Operation, NEW p \in BOOLEAN, RegisterWait(k, w, D, X, p)
      PROVE TypeOK'
  <2>1. /\ outbox' \in [Gen -> [Operation -> OutboxStates \cup {"absent"}]]
        /\ pinned' \in [Gen -> SUBSET (Operation \X Ref)]
    BY <1>4, EnqueuedType, PinnedWithType DEF TypeOK, RegisterWait
  <2>2. {o \in D : opPhase[o] = "terminal"} \in SUBSET Operation
    OBVIOUS
  <2>3. QED
    BY <1>4, <2>1, <2>2 DEF TypeOK, RegisterWait, opVars, claimVars
<1>5. ASSUME NEW k \in Gen, NEW w \in Owner, NEW x \in {0, 1}, CancelWait(k, w, x)
      PROVE TypeOK'
  BY <1>5 DEF TypeOK, CancelWait, CloseOutbox, ReleaseGenerationPins, TerminalPhases,
              ActiveClaims, opVars
<1>6. ASSUME NEW k \in Gen, NEW w \in Owner, NEW o \in Operation, RecordEvidenceRead(k, w, o)
      PROVE TypeOK'
  BY <1>6 DEF TypeOK, RecordEvidenceRead, opVars, keyVars, claimVars, pinVars, boxVars
<1>7. ASSUME NEW k \in Gen, NEW w \in Owner, NEW R \in SUBSET Operation, AcknowledgeResult(k, w, R)
      PROVE TypeOK'
  BY <1>7 DEF TypeOK, AcknowledgeResult, CloseOutbox, ReleaseGenerationPins,
              opVars, keyVars, claimVars
<1>8. ASSUME NEW k \in Gen, NEW to \in {"parking", "waiting", "ready", "held"},
             NEW proof \in BOOLEAN, TransitionWaitPhase(k, to, proof)
      PROVE TypeOK'
  <2>1. /\ outbox' \in [Gen -> [Operation -> OutboxStates \cup {"absent"}]]
        /\ pinned' \in [Gen -> SUBSET (Operation \X Ref)]
    BY <1>8, EnqueuedType, PinnedWithType DEF TypeOK, TransitionWaitPhase
  <2>2. phase' \in [Gen -> Phases \cup {"absent"}] /\ proven' \in [Gen -> BOOLEAN]
    <3>1. /\ phase' = [phase EXCEPT ![k] = Resulting(k, to)]
          /\ proven' = [proven EXCEPT ![k] = @ \/ (phase[k] = "parking" /\ proof)]
      BY <1>8 DEF TransitionWaitPhase
    <3>2. Resulting(k, to) \in Phases
      BY DEF Resulting
    <3>3. phase \in [Gen -> Phases \cup {"absent"}] /\ proven \in [Gen -> BOOLEAN]
      BY DEF TypeOK
    <3>4. phase' \in [Gen -> Phases \cup {"absent"}]
      BY <3>1, <3>2, <3>3
    <3>5. proven' \in [Gen -> BOOLEAN]
      BY <3>1, <3>3
    <3>6. QED
      BY <3>4, <3>5
  <2>3. QED
    BY <1>8, <2>1, <2>2 DEF TypeOK, TransitionWaitPhase, opVars, claimVars
<1>9. ASSUME NEW k \in Gen, NEW o \in Operation, NEW r \in Ref, RecordEvidencePin(k, o, r)
      PROVE TypeOK'
  BY <1>9 DEF TypeOK, RecordEvidencePin, opVars, keyVars, claimVars, boxVars
<1>10. ASSUME NEW k \in Gen, ReleaseEvidencePins(k)
       PROVE TypeOK'
  BY <1>10 DEF TypeOK, ReleaseEvidencePins, ReleaseGenerationPins,
               opVars, keyVars, claimVars, boxVars
<1>11. ASSUME NEW k \in Gen, NEW c \in ClaimId, NEW x \in {0, 1}, ClaimResume(k, c, x)
       PROVE TypeOK'
  BY <1>11 DEF TypeOK, ClaimResume, opVars, keyVars, pinVars, boxVars
<1>12. ASSUME NEW k \in Gen, NEW c \in ClaimId, NEW a \in AttemptId, PublishResumeAttempt(k, c, a)
       PROVE TypeOK'
  BY <1>12 DEF TypeOK, PublishResumeAttempt, opVars, keyVars, pinVars, boxVars
<1>13. ASSUME NEW k \in Gen, NEW c \in ClaimId, NEW outcome \in {"ready", "held"},
              ReleaseResumeClaim(k, c, outcome)
       PROVE TypeOK'
  BY <1>13 DEF TypeOK, ReleaseResumeClaim, opVars, keyVars, pinVars, boxVars
<1>14. ASSUME NEW k \in Gen, NEW c \in ClaimId, HoldFailedResume(k, c)
       PROVE TypeOK'
  BY <1>14 DEF TypeOK, HoldFailedResume, opVars, keyVars, pinVars, boxVars
<1>15. ASSUME NEW t \in DispatchToken, NEW S \in SUBSET Deliverable, ClaimOutbox(t, S)
       PROVE TypeOK'
  BY <1>15 DEF TypeOK, ClaimOutbox, opVars, keyVars, claimVars, pinVars
<1>16. ASSUME NEW t \in DispatchToken, NEW k \in Gen, NEW o \in Operation,
              NEW s \in {"delivered", "pending"}, FinishDispatch(k, o, t, s)
       PROVE TypeOK'
  BY <1>16 DEF TypeOK, FinishDispatch, opVars, keyVars, claimVars, pinVars
<1>17. CASE UNCHANGED vars
  BY <1>17 DEF TypeOK, vars, opVars, keyVars, claimVars, pinVars, boxVars
<1>18. QED
  BY <1>1, <1>2, <1>3, <1>4, <1>5, <1>6, <1>7, <1>8, <1>9, <1>10, <1>11, <1>12, <1>13,
     <1>14, <1>15, <1>16, <1>17 DEF Next, MarkOutboxDelivered, ReleaseOutbox

\* Type correctness of the store's rows: every column of every table keeps its
\* declared range through every call.
THEOREM TypeCorrect == Spec => []TypeOK
  BY InitTypeOK, NextTypeOK, PTL DEF Spec

-----------------------------------------------------------------------------
(* Claims and phases *)

\* A claim row names its generation once it exists and an attempt once it is
\* published.
ClaimShape ==
    \A c \in ClaimId :
        /\ claimState[c] # "absent" => claimOf[c] \in Gen
        /\ claimState[c] \in {"absent", "claimed"} => claimAttempt[c] = None

ClaimInv == ClaimShape /\ ClaimMatchesPhase

LEMMA NextClaimInv == TypeOK /\ ClaimInv /\ [Next]_vars => ClaimInv'
<1> SUFFICES ASSUME TypeOK, ClaimInv, [Next]_vars PROVE ClaimInv'
  OBVIOUS
<1> USE DEF ClaimInv, ClaimShape, ClaimMatchesPhase, ActiveClaims, Active, ActiveClaimStates
<1>1. CASE UNCHANGED <<phase, epoch, claimVars>>
  BY <1>1 DEF claimVars
<1>2. ASSUME NEW o \in Operation, NEW w \in Owner, NEW E \in SUBSET Ref,
             RecordTerminalOutcome(o, w, E)
      PROVE ClaimInv'
  BY <1>2 DEF TypeOK, RecordTerminalOutcome, Woken, claimVars
<1>3. ASSUME NEW k \in Gen, NEW w \in Owner, NEW D \in SUBSET Operation,
             NEW X \in SUBSET Operation, NEW p \in BOOLEAN, RegisterWait(k, w, D, X, p)
      PROVE ClaimInv'
  BY <1>3 DEF TypeOK, RegisterWait, claimVars
<1>4. ASSUME NEW k \in Gen, NEW to \in {"parking", "waiting", "ready", "held"},
             NEW proof \in BOOLEAN, TransitionWaitPhase(k, to, proof)
      PROVE ClaimInv'
  BY <1>4 DEF TypeOK, TransitionWaitPhase, Resulting, AllowedTransitions, Phases, claimVars
<1>5. ASSUME NEW k \in Gen, NEW w \in Owner, NEW x \in {0, 1}, CancelWait(k, w, x)
      PROVE ClaimInv'
  BY <1>5 DEF TypeOK, CancelWait, TerminalPhases
<1>6. ASSUME NEW k \in Gen, NEW w \in Owner, NEW R \in SUBSET Operation, AcknowledgeResult(k, w, R)
      PROVE ClaimInv'
  BY <1>6 DEF TypeOK, AcknowledgeResult, keyVars, claimVars
<1>7. ASSUME NEW k \in Gen, NEW c \in ClaimId, NEW x \in {0, 1}, ClaimResume(k, c, x)
      PROVE ClaimInv'
  BY <1>7 DEF TypeOK, ClaimResume, keyVars
<1>8. ASSUME NEW k \in Gen, NEW c \in ClaimId, NEW a \in AttemptId, PublishResumeAttempt(k, c, a)
      PROVE ClaimInv'
  BY <1>8 DEF TypeOK, PublishResumeAttempt, keyVars
<1>9. ASSUME NEW k \in Gen, NEW c \in ClaimId, NEW outcome \in {"ready", "held"},
             ReleaseResumeClaim(k, c, outcome)
      PROVE ClaimInv'
  BY <1>9 DEF TypeOK, ReleaseResumeClaim, keyVars
<1>10. ASSUME NEW k \in Gen, NEW c \in ClaimId, HoldFailedResume(k, c)
       PROVE ClaimInv'
  BY <1>10 DEF TypeOK, HoldFailedResume, keyVars
<1> HIDE DEF ClaimInv
<1>11. QED
  BY <1>1, <1>2, <1>3, <1>4, <1>5, <1>6, <1>7, <1>8, <1>9, <1>10
  DEF Next, RegisterOperation, RecordSupervision, RecordEvidenceRead, RecordEvidencePin,
      ReleaseEvidencePins, ClaimOutbox, MarkOutboxDelivered, ReleaseOutbox, FinishDispatch,
      keyVars, vars

\* Every claim made is on a generation that resumes or was answered while it
\* resumed, at its cancellation epoch, and no generation has two of them.
THEOREM ClaimsMatchPhases == Spec => []ClaimMatchesPhase
<1>1. Init => ClaimInv
  BY DEF Init, ClaimInv, ClaimShape, ClaimMatchesPhase, ActiveClaims, Active, ActiveClaimStates
<1>2. ClaimInv => ClaimMatchesPhase
  BY DEF ClaimInv
<1>3. QED
  BY <1>1, <1>2, NextClaimInv, TypeCorrect, PTL DEF Spec

-----------------------------------------------------------------------------
(* The checkpoint gate *)

LEMMA NextCheckpointGate ==
    TypeOK /\ ClaimInv /\ CheckpointGate /\ [Next]_vars => CheckpointGate'
<1> SUFFICES ASSUME TypeOK, ClaimInv, CheckpointGate, [Next]_vars PROVE CheckpointGate'
  OBVIOUS
<1>1. CASE UNCHANGED <<phase, park, proven>>
  BY <1>1 DEF CheckpointGate
<1>2. ASSUME NEW o \in Operation, NEW w \in Owner, NEW E \in SUBSET Ref,
             RecordTerminalOutcome(o, w, E)
      PROVE CheckpointGate'
  BY <1>2 DEF CheckpointGate, TypeOK, RecordTerminalOutcome, Woken
<1>3. ASSUME NEW k \in Gen, NEW w \in Owner, NEW D \in SUBSET Operation,
             NEW X \in SUBSET Operation, NEW p \in BOOLEAN, RegisterWait(k, w, D, X, p)
      PROVE CheckpointGate'
  BY <1>3 DEF CheckpointGate, TypeOK, RegisterWait
<1>4. ASSUME NEW k \in Gen, NEW to \in {"parking", "waiting", "ready", "held"},
             NEW proof \in BOOLEAN, TransitionWaitPhase(k, to, proof)
      PROVE CheckpointGate'
  BY <1>4 DEF CheckpointGate, TypeOK, TransitionWaitPhase, Resulting, AllowedTransitions, Phases
<1>5. ASSUME NEW k \in Gen, NEW w \in Owner, NEW x \in {0, 1}, CancelWait(k, w, x)
      PROVE CheckpointGate'
  BY <1>5 DEF CheckpointGate, TypeOK, CancelWait
<1>6. ASSUME NEW k \in Gen, NEW w \in Owner, NEW R \in SUBSET Operation, AcknowledgeResult(k, w, R)
      PROVE CheckpointGate'
  BY <1>6 DEF CheckpointGate, TypeOK, AcknowledgeResult, Pending, keyVars, TerminalPhases
<1>7. ASSUME NEW k \in Gen, NEW c \in ClaimId, NEW x \in {0, 1}, ClaimResume(k, c, x)
      PROVE CheckpointGate'
  BY <1>7 DEF CheckpointGate, TypeOK, ClaimResume, keyVars
<1>8. ASSUME NEW k \in Gen, NEW c \in ClaimId, NEW outcome \in {"ready", "held"},
             ReleaseResumeClaim(k, c, outcome)
      PROVE CheckpointGate'
  <2>1. phase[k] \in {"resuming", "consumed"}
    BY <1>8 DEF ReleaseResumeClaim, ClaimInv, ClaimMatchesPhase, Active, ActiveClaimStates
  <2>2. QED
    BY <1>8, <2>1 DEF CheckpointGate, TypeOK, ReleaseResumeClaim, keyVars
<1>9. ASSUME NEW k \in Gen, NEW c \in ClaimId, HoldFailedResume(k, c)
      PROVE CheckpointGate'
  BY <1>9 DEF CheckpointGate, TypeOK, HoldFailedResume, keyVars
<1>10. QED
  BY <1>1, <1>2, <1>3, <1>4, <1>5, <1>6, <1>7, <1>8, <1>9
  DEF Next, RegisterOperation, RecordSupervision, RecordEvidenceRead, RecordEvidencePin,
      ReleaseEvidencePins, PublishResumeAttempt, ClaimOutbox, MarkOutboxDelivered,
      ReleaseOutbox, FinishDispatch, keyVars, vars

\* No call takes a parked worker's generation past parking without the
\* checkpoint, lease and process-exit proof of transitionWaitPhase.
THEOREM CheckpointGateHolds == Spec => []CheckpointGate
<1>1. Init => CheckpointGate /\ ClaimInv
  BY DEF Init, CheckpointGate, ClaimInv, ClaimShape, ClaimMatchesPhase, ActiveClaims, Active,
         ActiveClaimStates
<1>2. QED
  BY <1>1, NextClaimInv, NextCheckpointGate, TypeCorrect, PTL DEF Spec

-----------------------------------------------------------------------------
(* Wakeups *)

LEMMA NextNoLostWakeup == TypeOK /\ NoLostWakeup /\ [Next]_vars => NoLostWakeup'
<1> SUFFICES ASSUME TypeOK, NoLostWakeup, [Next]_vars PROVE NoLostWakeup'
  OBVIOUS
<1>1. CASE UNCHANGED <<phase, deps, settled, opPhase>>
  BY <1>1 DEF NoLostWakeup, Settled
<1>2. ASSUME NEW o \in Operation, NEW w \in Owner, NEW t \in Task, RegisterOperation(o, t, w)
      PROVE NoLostWakeup'
  BY <1>2 DEF NoLostWakeup, Settled, TypeOK, RegisterOperation, keyVars
<1>3. ASSUME NEW o \in Operation, NEW w \in Owner, NEW E \in SUBSET Ref,
             RecordTerminalOutcome(o, w, E)
      PROVE NoLostWakeup'
  <2> SUFFICES ASSUME NEW k \in Gen
               PROVE  /\ settled'[k] = {p \in deps'[k] : opPhase'[p] = "terminal"}
                      /\ phase'[k] = "waiting" => ~Settled(k)'
    BY DEF NoLostWakeup
  <2>1. /\ settled[k] = {p \in deps[k] : opPhase[p] = "terminal"}
        /\ phase[k] = "waiting" => ~Settled(k)
    BY DEF NoLostWakeup
  <2>2. /\ deps'[k] = deps[k] /\ deps[k] \subseteq Operation
        /\ \A p \in Operation : opPhase'[p] = "terminal" <=> p = o \/ opPhase[p] = "terminal"
        /\ o \notin settled[k]
    BY <1>3, <2>1 DEF TypeOK, RecordTerminalOutcome
  <2>3. settled'[k] = IF o \in deps[k] THEN settled[k] \cup {o} ELSE settled[k]
    BY <1>3, <2>2 DEF RecordTerminalOutcome
  <2>4. settled'[k] = {p \in deps'[k] : opPhase'[p] = "terminal"}
    BY <2>1, <2>2, <2>3
  <2>5. phase'[k] = "waiting" => ~Settled(k)'
    <3> SUFFICES ASSUME phase'[k] = "waiting", deps[k] # {}, deps[k] \subseteq settled'[k]
                 PROVE  FALSE
      BY <2>2 DEF Settled
    <3>1. phase[k] = "waiting" /\ ~(o \in deps[k] /\ deps[k] \subseteq settled[k] \cup {o})
      BY <1>3, <2>2 DEF TypeOK, RecordTerminalOutcome, Woken
    <3>2. QED
      BY <2>1, <2>3, <3>1 DEF Settled
  <2>6. QED
    BY <2>4, <2>5
<1>4. ASSUME NEW k \in Gen, NEW w \in Owner, NEW D \in SUBSET Operation,
             NEW X \in SUBSET Operation, NEW p \in BOOLEAN, RegisterWait(k, w, D, X, p)
      PROVE NoLostWakeup'
  BY <1>4 DEF NoLostWakeup, Settled, TypeOK, RegisterWait, opVars
<1>5. ASSUME NEW k \in Gen, NEW to \in {"parking", "waiting", "ready", "held"},
             NEW proof \in BOOLEAN, TransitionWaitPhase(k, to, proof)
      PROVE NoLostWakeup'
  BY <1>5 DEF NoLostWakeup, Settled, TypeOK, TransitionWaitPhase, Resulting, opVars
<1>6. ASSUME NEW k \in Gen, NEW w \in Owner, NEW x \in {0, 1}, CancelWait(k, w, x)
      PROVE NoLostWakeup'
  BY <1>6 DEF NoLostWakeup, Settled, TypeOK, CancelWait, opVars
<1>7. ASSUME NEW k \in Gen, NEW w \in Owner, NEW R \in SUBSET Operation, AcknowledgeResult(k, w, R)
      PROVE NoLostWakeup'
  BY <1>7 DEF NoLostWakeup, Settled, TypeOK, AcknowledgeResult, opVars, keyVars
<1>8. ASSUME NEW k \in Gen, NEW c \in ClaimId, NEW x \in {0, 1}, ClaimResume(k, c, x)
      PROVE NoLostWakeup'
  BY <1>8 DEF NoLostWakeup, Settled, TypeOK, ClaimResume, opVars, keyVars
<1>9. ASSUME NEW k \in Gen, NEW c \in ClaimId, NEW outcome \in {"ready", "held"},
             ReleaseResumeClaim(k, c, outcome)
      PROVE NoLostWakeup'
  BY <1>9 DEF NoLostWakeup, Settled, TypeOK, ReleaseResumeClaim, opVars, keyVars
<1>10. ASSUME NEW k \in Gen, NEW c \in ClaimId, HoldFailedResume(k, c)
       PROVE NoLostWakeup'
  BY <1>10 DEF NoLostWakeup, Settled, TypeOK, HoldFailedResume, opVars, keyVars
<1>11. QED
  BY <1>1, <1>2, <1>3, <1>4, <1>5, <1>6, <1>7, <1>8, <1>9, <1>10
  DEF Next, RecordSupervision, RecordEvidenceRead, RecordEvidencePin,
      ReleaseEvidencePins, PublishResumeAttempt, ClaimOutbox, MarkOutboxDelivered,
      ReleaseOutbox, FinishDispatch, opVars, keyVars, vars

\* A wait never sleeps on operations that have all ended, whether they ended
\* before it was registered, while it was parking or after it slept.
THEOREM WakeupsAreNotLost == Spec => []NoLostWakeup
<1>1. Init => NoLostWakeup
  BY DEF Init, NoLostWakeup
<1>2. QED
  BY <1>1, NextNoLostWakeup, TypeCorrect, PTL DEF Spec

-----------------------------------------------------------------------------
(* One pending generation per continuation, and superseded generations *)

LEMMA NextOnePending ==
    TypeOK /\ OnePendingPerContinuation /\ [Next]_vars => OnePendingPerContinuation'
<1> SUFFICES ASSUME TypeOK, OnePendingPerContinuation, [Next]_vars
             PROVE  OnePendingPerContinuation'
  OBVIOUS
<1>1. CASE /\ owner' = owner
           /\ \A k \in Gen : Pending(k)' => Pending(k)
  BY <1>1 DEF OnePendingPerContinuation
<1>2. ASSUME NEW k \in Gen, NEW w \in Owner, NEW D \in SUBSET Operation,
             NEW X \in SUBSET Operation, NEW p \in BOOLEAN, RegisterWait(k, w, D, X, p)
      PROVE OnePendingPerContinuation'
  BY <1>2 DEF OnePendingPerContinuation, Pending, TypeOK, RegisterWait, OnlyPending
<1>3. ASSUME NEW k \in Gen, NEW c \in ClaimId, NEW outcome \in {"ready", "held"},
             ReleaseResumeClaim(k, c, outcome)
      PROVE OnePendingPerContinuation'
  BY <1>3 DEF OnePendingPerContinuation, Pending, TypeOK, ReleaseResumeClaim, OnlyPending, keyVars
<1>4. ASSUME NEW o \in Operation, NEW w \in Owner, NEW E \in SUBSET Ref,
             RecordTerminalOutcome(o, w, E)
      PROVE OnePendingPerContinuation'
  BY <1>1, <1>4 DEF Pending, TypeOK, RecordTerminalOutcome, Woken, TerminalPhases
<1>5. ASSUME NEW k \in Gen, NEW to \in {"parking", "waiting", "ready", "held"},
             NEW proof \in BOOLEAN, TransitionWaitPhase(k, to, proof)
      PROVE OnePendingPerContinuation'
  BY <1>1, <1>5 DEF Pending, TypeOK, TransitionWaitPhase, AllowedTransitions, Phases, TerminalPhases
<1>6. ASSUME NEW k \in Gen, NEW w \in Owner, NEW x \in {0, 1}, CancelWait(k, w, x)
      PROVE OnePendingPerContinuation'
  BY <1>1, <1>6 DEF Pending, TypeOK, CancelWait
<1>7. ASSUME NEW k \in Gen, NEW w \in Owner, NEW R \in SUBSET Operation, AcknowledgeResult(k, w, R)
      PROVE OnePendingPerContinuation'
  BY <1>1, <1>7 DEF Pending, TypeOK, AcknowledgeResult, keyVars
<1>8. ASSUME NEW k \in Gen, NEW c \in ClaimId, NEW x \in {0, 1}, ClaimResume(k, c, x)
      PROVE OnePendingPerContinuation'
  BY <1>1, <1>8 DEF Pending, TypeOK, ClaimResume, keyVars, TerminalPhases
<1>9. ASSUME NEW k \in Gen, NEW c \in ClaimId, HoldFailedResume(k, c)
      PROVE OnePendingPerContinuation'
  BY <1>1, <1>9 DEF Pending, TypeOK, HoldFailedResume, keyVars, TerminalPhases
<1>10. CASE UNCHANGED <<phase, owner>>
  BY <1>1, <1>10 DEF Pending
<1>11. QED
  BY <1>2, <1>3, <1>4, <1>5, <1>6, <1>7, <1>8, <1>9, <1>10
  DEF Next, RegisterOperation, RecordSupervision, RecordEvidenceRead, RecordEvidencePin,
      ReleaseEvidencePins, PublishResumeAttempt, ClaimOutbox, MarkOutboxDelivered,
      ReleaseOutbox, FinishDispatch, keyVars, vars

\* A session and branch never has two generations to be continued with, also
\* across workspaces and goals and after a claim was given back late.
THEOREM OnePendingHolds == Spec => []OnePendingPerContinuation
<1>1. Init => OnePendingPerContinuation
  BY DEF Init, OnePendingPerContinuation, Pending
<1>2. QED
  BY <1>1, NextOnePending, TypeCorrect, PTL DEF Spec

LEMMA NextSuperseded ==
    TypeOK /\ ClaimInv /\ SupersededIsTerminal /\ [Next]_vars => SupersededIsTerminal'
<1> SUFFICES ASSUME TypeOK, ClaimInv, SupersededIsTerminal, [Next]_vars
             PROVE  SupersededIsTerminal'
  OBVIOUS
<1>1. CASE \A k \in Gen :
              /\ phase'[k] = "absent" <=> phase[k] = "absent"
              /\ phase'[k] # phase[k] => phase'[k] \in TerminalPhases \/ Current(k)
  BY <1>1 DEF SupersededIsTerminal, Current
<1>2. ASSUME NEW k \in Gen, NEW w \in Owner, NEW D \in SUBSET Operation,
             NEW X \in SUBSET Operation, NEW p \in BOOLEAN, RegisterWait(k, w, D, X, p)
      PROVE SupersededIsTerminal'
  <2> SUFFICES ASSUME NEW h \in Gen, NEW g \in Gen, g[1] = h[1], g[2] > h[2],
                      phase'[g] # "absent"
               PROVE  phase'[h] \in TerminalPhases
    BY DEF SupersededIsTerminal, Current
  <2>1. phase' = [phase EXCEPT ![k] = phase'[k]] /\ phase[k] = "absent"
    BY <1>2 DEF TypeOK, RegisterWait
  <2>2. CASE g = k
    <3>1. h # k /\ h[2] < k[2] /\ h[1] = k[1]
      BY <2>2 DEF Gen
    <3>2. phase[h] \in TerminalPhases
      BY <1>2, <3>1 DEF RegisterWait
    <3>3. QED
      BY <2>1, <3>1, <3>2 DEF TypeOK
  <2>3. CASE g # k
    <3>1. ~Current(h)
      BY <2>1, <2>3 DEF TypeOK, Current
    <3>2. h # k
      BY <2>1, <3>1 DEF SupersededIsTerminal, TerminalPhases
    <3>3. QED
      BY <2>1, <3>1, <3>2 DEF TypeOK, SupersededIsTerminal
  <2>4. QED
    BY <2>2, <2>3
<1>3. ASSUME NEW o \in Operation, NEW w \in Owner, NEW E \in SUBSET Ref,
             RecordTerminalOutcome(o, w, E)
      PROVE SupersededIsTerminal'
  <2>1. \A k \in Gen : phase'[k] # phase[k] => phase[k] = "waiting" /\ phase'[k] = "ready"
    BY <1>3 DEF TypeOK, RecordTerminalOutcome, Woken
  <2>2. QED
    BY <1>1, <2>1 DEF SupersededIsTerminal, TerminalPhases
<1>4. ASSUME NEW k \in Gen, NEW to \in {"parking", "waiting", "ready", "held"},
             NEW proof \in BOOLEAN, TransitionWaitPhase(k, to, proof)
      PROVE SupersededIsTerminal'
  BY <1>1, <1>4 DEF TypeOK, TransitionWaitPhase, Resulting
<1>5. ASSUME NEW k \in Gen, NEW w \in Owner, NEW x \in {0, 1}, CancelWait(k, w, x)
      PROVE SupersededIsTerminal'
  BY <1>1, <1>5 DEF TypeOK, CancelWait
<1>6. ASSUME NEW k \in Gen, NEW w \in Owner, NEW R \in SUBSET Operation, AcknowledgeResult(k, w, R)
      PROVE SupersededIsTerminal'
  BY <1>1, <1>6 DEF TypeOK, AcknowledgeResult, Pending
<1>7. ASSUME NEW k \in Gen, NEW c \in ClaimId, NEW x \in {0, 1}, ClaimResume(k, c, x)
      PROVE SupersededIsTerminal'
  BY <1>1, <1>7 DEF TypeOK, ClaimResume
<1>8. ASSUME NEW k \in Gen, NEW c \in ClaimId, NEW outcome \in {"ready", "held"},
             ReleaseResumeClaim(k, c, outcome)
      PROVE SupersededIsTerminal'
  <2>1. phase[k] \in {"resuming", "consumed"}
    BY <1>8 DEF ReleaseResumeClaim, ClaimInv, ClaimMatchesPhase, Active, ActiveClaimStates
  <2>2. QED
    BY <1>1, <1>8, <2>1 DEF TypeOK, ReleaseResumeClaim
<1>9. ASSUME NEW k \in Gen, NEW c \in ClaimId, HoldFailedResume(k, c)
      PROVE SupersededIsTerminal'
  BY <1>1, <1>9 DEF TypeOK, HoldFailedResume
<1>10. CASE UNCHANGED phase
  BY <1>1, <1>10
<1>11. QED
  BY <1>2, <1>3, <1>4, <1>5, <1>6, <1>7, <1>8, <1>9, <1>10
  DEF Next, RegisterOperation, RecordSupervision, RecordEvidenceRead, RecordEvidencePin,
      ReleaseEvidencePins, PublishResumeAttempt, ClaimOutbox, MarkOutboxDelivered,
      ReleaseOutbox, FinishDispatch, vars

\* A generation with a successor stays over: no late claim, hold, release or
\* settlement brings it back beside the generation that replaced it.
THEOREM SupersededHolds == Spec => []SupersededIsTerminal
<1>1. Init => SupersededIsTerminal /\ ClaimInv
  BY DEF Init, SupersededIsTerminal, Current, ClaimInv, ClaimShape, ClaimMatchesPhase,
         ActiveClaims, Active, ActiveClaimStates
<1>2. QED
  BY <1>1, NextClaimInv, NextSuperseded, TypeCorrect, PTL DEF Spec

\* Whatever call comes late: the rows of waits and claims agree.
THEOREM WaitsStaySound == Spec => []WaitsAreSound
  BY ClaimsMatchPhases, SupersededHolds, OnePendingHolds, CheckpointGateHolds, PTL DEF WaitsAreSound

-----------------------------------------------------------------------------
(* The invariants of the outbox and of the pins behind it. *)

\* What enqueueing needs beyond the properties: only a cancellation voids, a
\* delivery is of an operation that has ended, and a generation somebody has a
\* claim on stays deliverable after it was answered, because that claim may
\* still give it back.
VoidedIsCancelled ==
    \A k \in Gen, o \in Operation : outbox[k][o] = "voided" => phase[k] = "cancelled"

DeliveredHasEnded ==
    \A k \in Gen, o \in Operation : outbox[k][o] # "absent" => opPhase[o] = "terminal"

ClaimedIsDeliverable ==
    \A k \in Gen : phase[k] = "ready" \/ ActiveClaims(k) # {} =>
        /\ Settled(k)
        /\ \A o \in deps[k] : outbox[k][o] \notin {"absent", "voided"}

DeliveryInv == VoidedIsCancelled /\ DeliveredHasEnded /\ ClaimedIsDeliverable

Known == TypeOK /\ ClaimInv /\ NoLostWakeup

LEMMA NextDeliveryInv == Known /\ DeliveryInv /\ [Next]_vars => DeliveryInv'
<1> SUFFICES ASSUME TypeOK, ClaimInv, NoLostWakeup, DeliveryInv, [Next]_vars PROVE DeliveryInv'
  BY DEF Known
<1>1. CASE /\ UNCHANGED <<phase, opPhase, deps, settled, outbox>>
           /\ \A k \in Gen : ActiveClaims(k)' = ActiveClaims(k)
  BY <1>1 DEF DeliveryInv, VoidedIsCancelled, DeliveredHasEnded, ClaimedIsDeliverable, Settled
<1>2. ASSUME NEW o \in Operation, NEW w \in Owner, NEW t \in Task, RegisterOperation(o, t, w)
      PROVE DeliveryInv'
  <2>1. /\ UNCHANGED <<phase, deps, settled, outbox, claimOf, claimState>>
        /\ opPhase[o] = "absent" /\ opPhase' = [opPhase EXCEPT ![o] = "running"]
    BY <1>2 DEF RegisterOperation, keyVars, claimVars, boxVars
  <2>2. VoidedIsCancelled' /\ ClaimedIsDeliverable'
    BY <2>1 DEF DeliveryInv, VoidedIsCancelled, ClaimedIsDeliverable, Settled, ActiveClaims, Active
  <2>3. DeliveredHasEnded'
    BY <2>1 DEF DeliveryInv, DeliveredHasEnded, TypeOK
  <2>4. QED
    BY <2>2, <2>3 DEF DeliveryInv
<1>3. ASSUME NEW o \in Operation, NEW w \in Owner, NEW E \in SUBSET Ref,
             RecordTerminalOutcome(o, w, E)
      PROVE DeliveryInv'
  <2>1. /\ deps' = deps /\ deps \in [Gen -> SUBSET Operation]
        /\ opPhase[o] = "running" /\ opPhase' = [opPhase EXCEPT ![o] = "terminal"]
        /\ \A k \in Gen : settled[k] \subseteq settled'[k] /\ ActiveClaims(k)' = ActiveClaims(k)
    BY <1>3 DEF TypeOK, RecordTerminalOutcome, ActiveClaims, Active, claimVars
  <2> DEFINE woken == Woken(o, {k \in Gen : o \in deps[k] \ settled[k]})
  <2>2. /\ \A k \in woken : /\ phase[k] = "waiting" /\ phase'[k] = "ready"
                            /\ deps[k] # {} /\ deps[k] \subseteq settled[k] \cup {o}
                            /\ settled'[k] = settled[k] \cup {o}
        /\ \A k \in Gen \ woken : phase'[k] = phase[k]
    BY <1>3 DEF TypeOK, RecordTerminalOutcome, Woken
  <2>10. \A k \in Gen, p \in Operation :
          \/ outbox'[k][p] = outbox[k][p] /\ ~(k \in woken /\ p \in deps[k] /\ outbox[k][p] = "absent")
          \/ k \in woken /\ p \in deps[k] /\ outbox[k][p] = "absent" /\ outbox'[k][p] = "pending"
    BY <1>3 DEF RecordTerminalOutcome, Enqueued
  <2> HIDE DEF woken
  <2>3. VoidedIsCancelled'
    BY <2>2, <2>10 DEF DeliveryInv, VoidedIsCancelled
  <2>4. DeliveredHasEnded'
    BY <2>1, <2>2, <2>10 DEF DeliveryInv, DeliveredHasEnded, NoLostWakeup, TypeOK
  <2>5. ClaimedIsDeliverable'
    <3> SUFFICES ASSUME NEW k \in Gen, phase'[k] = "ready" \/ ActiveClaims(k) # {}
                 PROVE  /\ Settled(k)'
                        /\ \A p \in deps[k] : outbox'[k][p] \notin {"absent", "voided"}
      BY <2>1 DEF ClaimedIsDeliverable
    <3>1. CASE k \notin woken
      BY <2>1, <2>2, <2>10, <3>1 DEF DeliveryInv, ClaimedIsDeliverable, Settled
    <3>2. CASE k \in woken
      BY <2>1, <2>2, <2>10, <3>2 DEF DeliveryInv, VoidedIsCancelled, Settled
    <3>3. QED
      BY <3>1, <3>2
  <2>6. QED
    BY <2>3, <2>4, <2>5 DEF DeliveryInv
<1>4. ASSUME NEW k \in Gen, NEW w \in Owner, NEW D \in SUBSET Operation,
             NEW X \in SUBSET Operation, NEW p \in BOOLEAN, RegisterWait(k, w, D, X, p)
      PROVE DeliveryInv'
  <2>1. /\ phase[k] = "absent" /\ opPhase' = opPhase /\ D # {}
        /\ deps' = [deps EXCEPT ![k] = D]
        /\ settled' = [settled EXCEPT ![k] = {o \in D : opPhase[o] = "terminal"}]
        /\ \A h \in Gen : ActiveClaims(h)' = ActiveClaims(h)
        /\ \A h \in Gen \ {k} : phase'[h] = phase[h]
        /\ phase'[k] \in {"registering", "waiting", "ready"}
        /\ phase'[k] = "ready" => {o \in D : opPhase[o] = "terminal"} = D
    BY <1>4 DEF TypeOK, RegisterWait, ActiveClaims, Active, claimVars, opVars
  <2>2. \A h \in Gen, o \in Operation :
           \/ outbox'[h][o] = outbox[h][o]
           \/ /\ h = k /\ o \in D /\ outbox'[h][o] = "pending"
              /\ outbox[h][o] = "absent" /\ opPhase[o] = "terminal"
    <3>1. CASE \A o \in D : opPhase[o] = "terminal"
      <4>1. {o \in D : opPhase[o] = "terminal"} = D /\ deps'[k] = D
        BY <2>1, <3>1 DEF TypeOK
      <4>2. outbox' = Enqueued({k}, deps')
        BY <1>4, <4>1 DEF RegisterWait
      <4>3. QED
        BY <3>1, <4>1, <4>2 DEF Enqueued
    <3>2. CASE ~\A o \in D : opPhase[o] = "terminal"
      <4>1. {o \in D : opPhase[o] = "terminal"} # D
        BY <3>2
      <4>2. QED
        BY <1>4, <4>1 DEF RegisterWait
    <3>3. QED
      BY <3>1, <3>2
  <2>10. phase'[k] = "ready" => \A o \in D : outbox'[k][o] # "absent"
    <3> SUFFICES ASSUME phase'[k] = "ready"
                 PROVE  \A o \in D : outbox'[k][o] # "absent"
      OBVIOUS
    <3>1. {o \in D : opPhase[o] = "terminal"} = D /\ deps'[k] = D
      BY <2>1 DEF TypeOK
    <3>2. outbox' = Enqueued({k}, deps')
      BY <1>4, <3>1 DEF RegisterWait
    <3>3. QED
      BY <3>1, <3>2 DEF Enqueued
  <2>3. ActiveClaims(k) = {}
    BY <2>1 DEF ClaimInv, ClaimMatchesPhase, ActiveClaims
  <2>4. VoidedIsCancelled'
    BY <2>1, <2>2 DEF DeliveryInv, VoidedIsCancelled
  <2>5. DeliveredHasEnded'
    BY <2>1, <2>2 DEF DeliveryInv, DeliveredHasEnded
  <2>6. ClaimedIsDeliverable'
    <3> SUFFICES ASSUME NEW h \in Gen, phase'[h] = "ready" \/ ActiveClaims(h) # {}
                 PROVE  /\ Settled(h)'
                        /\ \A o \in deps'[h] : outbox'[h][o] \notin {"absent", "voided"}
      BY <2>1 DEF ClaimedIsDeliverable
    <3>1. CASE h = k
      <4>1. phase'[k] = "ready" /\ deps'[k] = D /\ settled'[k] = D
        BY <2>1, <2>3, <3>1 DEF TypeOK
      <4>2. \A o \in D : outbox'[k][o] \notin {"absent", "voided"}
        BY <2>1, <2>2, <2>10, <4>1 DEF DeliveryInv, VoidedIsCancelled
      <4>3. QED
        BY <2>1, <3>1, <4>1, <4>2 DEF Settled
    <3>2. CASE h # k
      BY <2>1, <2>2, <3>2 DEF DeliveryInv, ClaimedIsDeliverable, Settled, TypeOK
    <3>3. QED
      BY <3>1, <3>2
  <2>7. QED
    BY <2>4, <2>5, <2>6 DEF DeliveryInv
<1>5. ASSUME NEW k \in Gen, NEW to \in {"parking", "waiting", "ready", "held"},
             NEW proof \in BOOLEAN, TransitionWaitPhase(k, to, proof)
      PROVE DeliveryInv'
  BY <1>5 DEF DeliveryInv, VoidedIsCancelled, DeliveredHasEnded, ClaimedIsDeliverable, Settled,
              ActiveClaims, Active, TypeOK, TransitionWaitPhase, Resulting, BecomesReady,
              Enqueued, claimVars, opVars, NoLostWakeup, AllowedTransitions, Phases
<1>6. ASSUME NEW k \in Gen, NEW w \in Owner, NEW x \in {0, 1}, CancelWait(k, w, x)
      PROVE DeliveryInv'
  BY <1>6 DEF DeliveryInv, VoidedIsCancelled, DeliveredHasEnded, ClaimedIsDeliverable, Settled,
              ActiveClaims, Active, TypeOK, CancelWait, CloseOutbox, UnconsumedOutboxStates,
              opVars, ActiveClaimStates
<1>7. ASSUME NEW k \in Gen, NEW w \in Owner, NEW R \in SUBSET Operation, AcknowledgeResult(k, w, R)
      PROVE DeliveryInv'
  BY <1>7 DEF DeliveryInv, VoidedIsCancelled, DeliveredHasEnded, ClaimedIsDeliverable, Settled,
              ActiveClaims, Active, TypeOK, AcknowledgeResult, CloseOutbox, UnconsumedOutboxStates,
              Pending, TerminalPhases, opVars, keyVars, claimVars
<1>8. ASSUME NEW k \in Gen, NEW c \in ClaimId, NEW x \in {0, 1}, ClaimResume(k, c, x)
      PROVE DeliveryInv'
  BY <1>8 DEF DeliveryInv, VoidedIsCancelled, DeliveredHasEnded, ClaimedIsDeliverable, Settled,
              ActiveClaims, Active, TypeOK, ClaimResume, opVars, keyVars, boxVars
<1>9. ASSUME NEW k \in Gen, NEW c \in ClaimId, NEW a \in AttemptId, PublishResumeAttempt(k, c, a)
      PROVE DeliveryInv'
  BY <1>1, <1>9 DEF ActiveClaims, Active, ActiveClaimStates, TypeOK, PublishResumeAttempt, opVars,
              keyVars, boxVars
<1>10. ASSUME NEW k \in Gen, NEW c \in ClaimId, NEW outcome \in {"ready", "held"},
              ReleaseResumeClaim(k, c, outcome)
       PROVE DeliveryInv'
  <2>1. /\ c \in ActiveClaims(k) /\ phase[k] # "cancelled"
        /\ \A h \in Gen : ActiveClaims(h)' \subseteq ActiveClaims(h)
        /\ \A h \in Gen : phase'[h] = phase[h] \/ h = k
        /\ UNCHANGED <<opPhase, deps, settled, outbox>>
    BY <1>10 DEF ReleaseResumeClaim, ActiveClaims, Active, ActiveClaimStates, ClaimInv,
                 ClaimMatchesPhase, TypeOK, opVars, keyVars, boxVars
  <2>2. VoidedIsCancelled' /\ DeliveredHasEnded'
    BY <2>1 DEF DeliveryInv, VoidedIsCancelled, DeliveredHasEnded
  <2>3. ClaimedIsDeliverable'
    <3> SUFFICES ASSUME NEW h \in Gen, phase'[h] = "ready" \/ ActiveClaims(h)' # {}
                 PROVE  /\ Settled(h)
                        /\ \A o \in deps[h] : outbox[h][o] \notin {"absent", "voided"}
      BY <2>1 DEF ClaimedIsDeliverable, Settled
    <3>1. phase[h] = "ready" \/ ActiveClaims(h) # {}
      BY <2>1
    <3>2. QED
      BY <3>1 DEF DeliveryInv, ClaimedIsDeliverable
  <2>4. QED
    BY <2>2, <2>3 DEF DeliveryInv
<1>11. ASSUME NEW k \in Gen, NEW c \in ClaimId, HoldFailedResume(k, c)
       PROVE DeliveryInv'
  BY <1>11 DEF DeliveryInv, VoidedIsCancelled, DeliveredHasEnded, ClaimedIsDeliverable, Settled,
              ActiveClaims, Active, ActiveClaimStates, TypeOK, HoldFailedResume, opVars, keyVars,
              boxVars
<1>12. ASSUME NEW t \in DispatchToken, NEW S \in SUBSET Deliverable, ClaimOutbox(t, S)
       PROVE DeliveryInv'
  <2>1. /\ UNCHANGED <<phase, opPhase, deps, settled>>
        /\ \A k \in Gen : ActiveClaims(k)' = ActiveClaims(k)
    BY <1>12 DEF ClaimOutbox, ActiveClaims, Active, opVars, keyVars, claimVars
  <2>2. \A k \in Gen, o \in Operation :
           \/ outbox'[k][o] = outbox[k][o]
           \/ outbox[k][o] = "pending" /\ outbox'[k][o] = "claimed"
    BY <1>12 DEF ClaimOutbox, Deliverable, TypeOK
  <2>3. VoidedIsCancelled' /\ DeliveredHasEnded'
    BY <2>1, <2>2 DEF DeliveryInv, VoidedIsCancelled, DeliveredHasEnded
  <2>4. ClaimedIsDeliverable'
    <3> SUFFICES ASSUME NEW h \in Gen, phase[h] = "ready" \/ ActiveClaims(h) # {}
                 PROVE  /\ Settled(h)
                        /\ \A p \in deps[h] : outbox'[h][p] \notin {"absent", "voided"}
      BY <2>1 DEF ClaimedIsDeliverable, Settled
    <3>1. deps[h] \subseteq Operation
      BY DEF TypeOK
    <3>2. Settled(h) /\ \A p \in deps[h] : outbox[h][p] \notin {"absent", "voided"}
      BY DEF DeliveryInv, ClaimedIsDeliverable
    <3>3. QED
      BY <2>2, <3>1, <3>2
  <2>5. QED
    BY <2>3, <2>4 DEF DeliveryInv
<1>13. ASSUME NEW t \in DispatchToken, NEW k \in Gen, NEW o \in Operation,
              NEW s \in {"delivered", "pending"}, FinishDispatch(k, o, t, s)
       PROVE DeliveryInv'
  <2>1. /\ UNCHANGED <<phase, opPhase, deps, settled>>
        /\ \A h \in Gen : ActiveClaims(h)' = ActiveClaims(h)
    BY <1>13 DEF FinishDispatch, ActiveClaims, Active, TypeOK, opVars, keyVars, claimVars
  <2>10. \A h \in Gen, p \in Operation :
              \/ outbox'[h][p] = outbox[h][p]
              \/ outbox[h][p] = "claimed" /\ outbox'[h][p] \in {"delivered", "pending"}
    BY <1>13 DEF FinishDispatch, TypeOK
  <2>2. VoidedIsCancelled' /\ DeliveredHasEnded'
    BY <2>1, <2>10 DEF DeliveryInv, VoidedIsCancelled, DeliveredHasEnded
  <2>3. ClaimedIsDeliverable'
    <3> SUFFICES ASSUME NEW h \in Gen, phase[h] = "ready" \/ ActiveClaims(h) # {}
                 PROVE  /\ Settled(h)
                        /\ \A p \in deps[h] : outbox'[h][p] \notin {"absent", "voided"}
      BY <2>1 DEF ClaimedIsDeliverable, Settled
    <3>1. deps[h] \subseteq Operation
      BY DEF TypeOK
    <3>2. Settled(h) /\ \A p \in deps[h] : outbox[h][p] \notin {"absent", "voided"}
      BY DEF DeliveryInv, ClaimedIsDeliverable
    <3>3. QED
      BY <2>10, <3>1, <3>2
  <2>4. QED
    BY <2>2, <2>3 DEF DeliveryInv
<1>14. CASE UNCHANGED <<phase, opPhase, keyVars, claimVars, outbox>>
  BY <1>1, <1>14 DEF ActiveClaims, Active, keyVars, claimVars
<1>15. QED
  BY <1>2, <1>3, <1>4, <1>5, <1>6, <1>7, <1>8, <1>9, <1>10, <1>11, <1>12, <1>13, <1>14
  DEF Next, RecordSupervision, RecordEvidenceRead, RecordEvidencePin, ReleaseEvidencePins,
      MarkOutboxDelivered, ReleaseOutbox, boxVars, opVars, vars

LEMMA KnownHolds == Spec => [](Known /\ DeliveryInv)
<1>1. Init => Known /\ DeliveryInv
  <2>1. Init => TypeOK
    BY InitTypeOK
  <2>2. Init => ClaimInv /\ NoLostWakeup
    BY DEF Init, ClaimInv, ClaimShape, ClaimMatchesPhase, NoLostWakeup, ActiveClaims, Active,
           ActiveClaimStates
  <2>3. Init => DeliveryInv
    BY DEF Init, DeliveryInv, VoidedIsCancelled, DeliveredHasEnded, ClaimedIsDeliverable,
           ActiveClaims, Active, ActiveClaimStates
  <2>4. QED
    BY <2>1, <2>2, <2>3 DEF Known
<1>2. Known /\ DeliveryInv /\ [Next]_vars => (Known /\ DeliveryInv)'
  BY NextTypeOK, NextClaimInv, NextNoLostWakeup, NextDeliveryInv DEF Known
<1>3. QED
  BY <1>1, <1>2, PTL DEF Spec

\* Whatever made a generation ready, there is a delivery of every result it
\* waited for while it can be continued, also after a claim is given back.
THEOREM ReadyHasDeliveries == Spec => []ReadyIsDeliverable
<1>1. Known /\ DeliveryInv => ReadyIsDeliverable
  BY DEF Known, DeliveryInv, ClaimInv, ClaimMatchesPhase, ClaimedIsDeliverable, ReadyIsDeliverable
<1>2. QED
  BY <1>1, KnownHolds, PTL

-----------------------------------------------------------------------------
(* What a generation retains *)

LEMMA NextTerminalRetainsNothing ==
    Known /\ TerminalRetainsNothing /\ [Next]_vars => TerminalRetainsNothing'
<1> SUFFICES ASSUME TypeOK, ClaimInv, TerminalRetainsNothing, [Next]_vars
             PROVE  TerminalRetainsNothing'
  BY DEF Known
<1>1. CASE UNCHANGED <<phase, pinned, outbox>>
  BY <1>1 DEF TerminalRetainsNothing
<1>2. CASE \A k \in Gen : phase'[k] \in TerminalPhases =>
              phase[k] \in TerminalPhases /\ pinned'[k] = pinned[k] /\ outbox'[k] = outbox[k]
  BY <1>2 DEF TerminalRetainsNothing
<1>3. ASSUME NEW o \in Operation, NEW w \in Owner, NEW E \in SUBSET Ref,
             RecordTerminalOutcome(o, w, E)
      PROVE TerminalRetainsNothing'
  <2> DEFINE woken == Woken(o, {k \in Gen : o \in deps[k] \ settled[k]})
  <2>1. /\ \A k \in woken : phase'[k] = "ready"
        /\ \A k \in Gen \ woken : phase'[k] = phase[k]
    BY <1>3 DEF TypeOK, RecordTerminalOutcome, Woken
  <2>2. \A k \in Gen \ woken : pinned'[k] = pinned[k]
    BY <1>3 DEF RecordTerminalOutcome, PinnedWith
  <2>3. \A k \in Gen \ woken, p \in Operation : outbox'[k][p] = outbox[k][p]
    BY <1>3 DEF RecordTerminalOutcome, Enqueued
  <2> HIDE DEF woken
  <2>4. QED
    BY <2>1, <2>2, <2>3 DEF TerminalRetainsNothing, TerminalPhases
<1>4. ASSUME NEW k \in Gen, NEW w \in Owner, NEW D \in SUBSET Operation,
             NEW X \in SUBSET Operation, NEW p \in BOOLEAN, RegisterWait(k, w, D, X, p)
      PROVE TerminalRetainsNothing'
  <2>1. /\ phase'[k] \in {"registering", "waiting", "ready"}
        /\ \A h \in Gen \ {k} : phase'[h] = phase[h]
    BY <1>4 DEF TypeOK, RegisterWait
  <2>2. \A h \in Gen \ {k} : pinned'[h] = pinned[h]
    BY <1>4 DEF RegisterWait, PinnedWith
  <2>3. \A h \in Gen \ {k}, o \in Operation : outbox'[h][o] = outbox[h][o]
    <3>1. outbox' = outbox \/ outbox' = Enqueued({k}, deps')
      BY <1>4 DEF RegisterWait
    <3>2. QED
      BY <3>1 DEF Enqueued
  <2>4. QED
    BY <2>1, <2>2, <2>3 DEF TerminalRetainsNothing, TerminalPhases
<1>5. ASSUME NEW k \in Gen, NEW to \in {"parking", "waiting", "ready", "held"},
             NEW proof \in BOOLEAN, TransitionWaitPhase(k, to, proof)
      PROVE TerminalRetainsNothing'
  <2>1. /\ phase'[k] \in {"parking", "waiting", "ready", "held"}
        /\ \A h \in Gen \ {k} : phase'[h] = phase[h]
    BY <1>5 DEF TypeOK, TransitionWaitPhase, Resulting
  <2>2. \A h \in Gen \ {k} : pinned'[h] = pinned[h]
    BY <1>5 DEF TransitionWaitPhase, PinnedWith
  <2>3. \A h \in Gen \ {k}, o \in Operation : outbox'[h][o] = outbox[h][o]
    BY <1>5 DEF TransitionWaitPhase, Enqueued
  <2>4. QED
    BY <2>1, <2>2, <2>3 DEF TerminalRetainsNothing, TerminalPhases
<1>6. ASSUME NEW k \in Gen, NEW s \in {"voided", "acknowledged"},
             \A h \in Gen \ {k} : phase'[h] = phase[h],
             CloseOutbox(k, s), ReleaseGenerationPins(k)
      PROVE TerminalRetainsNothing'
  <2>1. pinned'[k] = {} /\ \A h \in Gen \ {k} : pinned'[h] = pinned[h]
    BY <1>6 DEF TypeOK, ReleaseGenerationPins
  <2>2. /\ \A o \in Operation : outbox'[k][o] \notin UnconsumedOutboxStates
        /\ \A h \in Gen \ {k} : outbox'[h] = outbox[h]
    BY <1>6 DEF TypeOK, CloseOutbox, UnconsumedOutboxStates
  <2>3. QED
    BY <1>6, <2>1, <2>2 DEF TerminalRetainsNothing, UnconsumedOutboxStates
<1>7. ASSUME NEW k \in Gen, NEW w \in Owner, NEW x \in {0, 1}, CancelWait(k, w, x)
      PROVE TerminalRetainsNothing'
  BY <1>6, <1>7 DEF TypeOK, CancelWait
<1>8. ASSUME NEW k \in Gen, NEW w \in Owner, NEW R \in SUBSET Operation, AcknowledgeResult(k, w, R)
      PROVE TerminalRetainsNothing'
  BY <1>6, <1>8 DEF TypeOK, AcknowledgeResult
<1>9. ASSUME NEW k \in Gen, NEW o \in Operation, NEW r \in Ref, RecordEvidencePin(k, o, r)
      PROVE TerminalRetainsNothing'
  BY <1>9 DEF TerminalRetainsNothing, TypeOK, RecordEvidencePin, Pending, boxVars
<1>10. ASSUME NEW k \in Gen, ReleaseEvidencePins(k)
       PROVE TerminalRetainsNothing'
  BY <1>10 DEF TerminalRetainsNothing, TypeOK, ReleaseEvidencePins, ReleaseGenerationPins, boxVars
<1>11. ASSUME NEW k \in Gen, NEW c \in ClaimId, NEW x \in {0, 1}, ClaimResume(k, c, x)
       PROVE TerminalRetainsNothing'
  BY <1>2, <1>11 DEF TypeOK, ClaimResume, pinVars, boxVars, TerminalPhases
<1>12. ASSUME NEW k \in Gen, NEW c \in ClaimId, NEW outcome \in {"ready", "held"},
              ReleaseResumeClaim(k, c, outcome)
       PROVE TerminalRetainsNothing'
  BY <1>2, <1>12 DEF TypeOK, ReleaseResumeClaim, pinVars, boxVars, TerminalPhases
<1>13. ASSUME NEW k \in Gen, NEW c \in ClaimId, HoldFailedResume(k, c)
       PROVE TerminalRetainsNothing'
  BY <1>2, <1>13 DEF TypeOK, HoldFailedResume, pinVars, boxVars, TerminalPhases
<1>14. ASSUME NEW t \in DispatchToken, NEW S \in SUBSET Deliverable, ClaimOutbox(t, S)
       PROVE TerminalRetainsNothing'
  BY <1>14 DEF TerminalRetainsNothing, TypeOK, ClaimOutbox, Deliverable, DeliverableWaitPhases,
               TerminalPhases, pinVars
<1>15. ASSUME NEW t \in DispatchToken, NEW k \in Gen, NEW o \in Operation,
              NEW s \in {"delivered", "pending"}, FinishDispatch(k, o, t, s)
       PROVE TerminalRetainsNothing'
  BY <1>15 DEF TerminalRetainsNothing, TypeOK, FinishDispatch, pinVars
<1>16. QED
  BY <1>1, <1>3, <1>4, <1>5, <1>7, <1>8, <1>9, <1>10, <1>11, <1>12, <1>13, <1>14, <1>15
  DEF Next, RegisterOperation, RecordSupervision, RecordEvidenceRead, PublishResumeAttempt,
      MarkOutboxDelivered, ReleaseOutbox, pinVars, boxVars, vars

\* A generation that was cancelled or answered keeps nothing from cleanup and
\* leaves nothing to be delivered, whatever is enqueued or pinned meanwhile.
THEOREM EndedRetainsNothing == Spec => []TerminalRetainsNothing
<1>1. Init => TerminalRetainsNothing
  BY DEF Init, TerminalRetainsNothing
<1>2. QED
  BY <1>1, NextTerminalRetainsNothing, KnownHolds, PTL DEF Spec

\* The references pinned when the deliveries of the generations K are inserted
\* cover the evidence ev of everything inserted.
LEMMA InsertionsArePinned ==
    ASSUME TypeOK, DeliveryHasEvidence, NEW K \in SUBSET Gen, NEW D,
           NEW ev \in [Operation -> SUBSET Ref],
           \A k \in Gen, o \in Operation : outbox[k][o] # "absent" => ev[o] = opEvidence[o],
           outbox' = Enqueued(K, D), pinned' = PinnedWith(K, D, ev),
           unpinned' = unpinned, opEvidence' = ev
    PROVE  DeliveryHasEvidence'
<1> SUFFICES ASSUME NEW k \in Gen, NEW o \in Operation, outbox'[k][o] # "absent", NEW r \in ev[o]
             PROVE  <<o, r>> \in pinned'[k] \cup unpinned[k]
  BY DEF DeliveryHasEvidence
<1>1. r \in Ref /\ pinned[k] \subseteq pinned'[k]
  BY DEF PinnedWith, TypeOK
<1>2. CASE outbox[k][o] # "absent"
  BY <1>1, <1>2 DEF DeliveryHasEvidence
<1>3. CASE outbox[k][o] = "absent"
  <2>1. k \in K /\ o \in D[k]
    BY <1>3 DEF Enqueued
  <2>2. CASE <<o, r>> \notin unpinned[k]
    BY <1>1, <1>3, <2>1, <2>2 DEF PinnedWith
  <2>3. QED
    BY <2>2
<1>4. QED
  BY <1>2, <1>3

LEMMA NextDeliveryHasEvidence ==
    Known /\ DeliveryInv /\ DeliveryHasEvidence /\ [Next]_vars => DeliveryHasEvidence'
<1> SUFFICES ASSUME TypeOK, DeliveredHasEnded, DeliveryHasEvidence, [Next]_vars
             PROVE  DeliveryHasEvidence'
  BY DEF Known, DeliveryInv
<1>1. CASE /\ opEvidence' = opEvidence
           /\ \A k \in Gen : pinned[k] \cup unpinned[k] \subseteq pinned'[k] \cup unpinned'[k]
           /\ \A k \in Gen, o \in Operation :
                 outbox'[k][o] # "absent" => outbox[k][o] # "absent"
  BY <1>1 DEF DeliveryHasEvidence, TypeOK
<1>2. ASSUME NEW o \in Operation, NEW w \in Owner, NEW E \in SUBSET Ref,
             RecordTerminalOutcome(o, w, E)
      PROVE DeliveryHasEvidence'
  <2> DEFINE woken == Woken(o, {k \in Gen : o \in deps[k] \ settled[k]})
  <2>1. /\ opEvidence' = [opEvidence EXCEPT ![o] = E] /\ opPhase[o] = "running"
        /\ outbox' = Enqueued(woken, deps) /\ pinned' = PinnedWith(woken, deps, opEvidence')
        /\ unpinned' = unpinned
    BY <1>2 DEF RecordTerminalOutcome
  <2>2. woken \in SUBSET Gen
    BY DEF Woken
  <2>3. opEvidence' \in [Operation -> SUBSET Ref]
    BY <2>1 DEF TypeOK
  <2>4. \A k \in Gen, p \in Operation : outbox[k][p] # "absent" => opEvidence'[p] = opEvidence[p]
    BY <2>1 DEF TypeOK, DeliveredHasEnded
  <2> HIDE DEF woken
  <2>5. QED
    BY <2>1, <2>2, <2>3, <2>4, InsertionsArePinned
<1>3. ASSUME NEW k \in Gen, NEW w \in Owner, NEW D \in SUBSET Operation,
             NEW X \in SUBSET Operation, NEW p \in BOOLEAN, RegisterWait(k, w, D, X, p)
      PROVE DeliveryHasEvidence'
  <2>1. opEvidence' = opEvidence /\ unpinned' = unpinned
    BY <1>3 DEF RegisterWait, opVars
  <2>2. \/ UNCHANGED <<outbox, pinned>>
        \/ outbox' = Enqueued({k}, deps') /\ pinned' = PinnedWith({k}, deps', opEvidence)
    BY <1>3 DEF RegisterWait
  <2>3. opEvidence \in [Operation -> SUBSET Ref]
    BY DEF TypeOK
  <2>4. QED
    BY <1>1, <2>1, <2>2, <2>3, InsertionsArePinned
<1>4. ASSUME NEW k \in Gen, NEW to \in {"parking", "waiting", "ready", "held"},
             NEW proof \in BOOLEAN, TransitionWaitPhase(k, to, proof)
      PROVE DeliveryHasEvidence'
  <2>1. opEvidence' = opEvidence /\ unpinned' = unpinned
    BY <1>4 DEF TransitionWaitPhase, opVars
  <2>2. \/ UNCHANGED <<outbox, pinned>>
        \/ outbox' = Enqueued({k}, deps) /\ pinned' = PinnedWith({k}, deps, opEvidence)
    BY <1>4 DEF TransitionWaitPhase
  <2>3. opEvidence \in [Operation -> SUBSET Ref]
    BY DEF TypeOK
  <2>4. QED
    BY <1>1, <2>1, <2>2, <2>3, InsertionsArePinned
<1>5. ASSUME NEW k \in Gen, NEW s \in {"voided", "acknowledged"}, opEvidence' = opEvidence,
             CloseOutbox(k, s), ReleaseGenerationPins(k)
      PROVE DeliveryHasEvidence'
  <2>1. \A h \in Gen : pinned[h] \cup unpinned[h] \subseteq pinned'[h] \cup unpinned'[h]
    BY <1>5 DEF TypeOK, ReleaseGenerationPins
  <2>2. \A h \in Gen, o \in Operation : outbox'[h][o] # "absent" => outbox[h][o] # "absent"
    BY <1>5 DEF TypeOK, CloseOutbox, UnconsumedOutboxStates
  <2>3. QED
    BY <1>1, <1>5, <2>1, <2>2
<1>6. ASSUME NEW k \in Gen, NEW w \in Owner, NEW x \in {0, 1}, CancelWait(k, w, x)
      PROVE DeliveryHasEvidence'
  BY <1>5, <1>6 DEF CancelWait, opVars
<1>7. ASSUME NEW k \in Gen, NEW w \in Owner, NEW R \in SUBSET Operation, AcknowledgeResult(k, w, R)
      PROVE DeliveryHasEvidence'
  BY <1>5, <1>7 DEF AcknowledgeResult, opVars
<1>8. ASSUME NEW k \in Gen, NEW o \in Operation, NEW r \in Ref, RecordEvidencePin(k, o, r)
      PROVE DeliveryHasEvidence'
  BY <1>1, <1>8 DEF TypeOK, RecordEvidencePin, opVars, boxVars
<1>9. ASSUME NEW k \in Gen, ReleaseEvidencePins(k)
      PROVE DeliveryHasEvidence'
  BY <1>1, <1>9 DEF TypeOK, ReleaseEvidencePins, ReleaseGenerationPins, opVars, boxVars
<1>10. ASSUME NEW t \in DispatchToken, NEW S \in SUBSET Deliverable, ClaimOutbox(t, S)
       PROVE DeliveryHasEvidence'
  BY <1>1, <1>10 DEF TypeOK, ClaimOutbox, Deliverable, opVars, pinVars
<1>11. ASSUME NEW t \in DispatchToken, NEW k \in Gen, NEW o \in Operation,
              NEW s \in {"delivered", "pending"}, FinishDispatch(k, o, t, s)
       PROVE DeliveryHasEvidence'
  BY <1>1, <1>11 DEF TypeOK, FinishDispatch, opVars, pinVars
<1>12. CASE UNCHANGED <<opEvidence, pinVars, outbox>>
  BY <1>1, <1>12 DEF pinVars
<1>13. QED
  BY <1>2, <1>3, <1>4, <1>6, <1>7, <1>8, <1>9, <1>10, <1>11, <1>12
  DEF Next, RegisterOperation, RecordSupervision, RecordEvidenceRead, ClaimResume,
      PublishResumeAttempt, ReleaseResumeClaim, HoldFailedResume, MarkOutboxDelivered,
      ReleaseOutbox, opVars, boxVars, vars

\* No delivery is made without the evidence of the outcome it delivers, also
\* when the delivery and the outcome are one transaction.
THEOREM DeliveriesHaveEvidence == Spec => []DeliveryHasEvidence
<1>1. Init => DeliveryHasEvidence
  BY DEF Init, DeliveryHasEvidence
<1>2. QED
  BY <1>1, NextDeliveryHasEvidence, KnownHolds, PTL DEF Spec

\* A dispatch token that holds deliveries gets no other one.
THEOREM TokensNameOneDispatch == Spec => TokenNamesOneDispatch
<1>1. ASSUME TypeOK, [Next]_vars, NEW t \in DispatchToken, NEW k \in Gen, NEW h \in Gen,
             NEW o \in Operation, NEW p \in Operation, holder[k][o] = t, holder'[h][p] = t
      PROVE  holder[h][p] = t
  <2> t # None /\ holder \in [Gen -> [Operation -> DispatchToken \cup {None}]]
    BY <1>1, NoneAssumption DEF TypeOK
  <2>1. CASE UNCHANGED holder
    BY <1>1, <2>1
  <2>2. ASSUME NEW g \in Gen, NEW s, CloseOutbox(g, s)
        PROVE  holder[h][p] = t
    BY <1>1, <2>2 DEF CloseOutbox
  <2>3. ASSUME NEW d \in DispatchToken, NEW S \in SUBSET Deliverable, ClaimOutbox(d, S)
        PROVE  holder[h][p] = t
    BY <1>1, <2>3 DEF ClaimOutbox, TokenUnused
  <2>4. ASSUME NEW d \in DispatchToken, NEW g \in Gen, NEW q \in Operation, NEW s,
               FinishDispatch(g, q, d, s)
        PROVE  holder[h][p] = t
    BY <1>1, <2>4 DEF FinishDispatch
  <2>5. ASSUME NEW q \in Operation, NEW w \in Owner, NEW E, RecordTerminalOutcome(q, w, E)
        PROVE  UNCHANGED holder
    BY <2>5 DEF RecordTerminalOutcome
  <2>6. ASSUME NEW g \in Gen, NEW w \in Owner, NEW D, NEW X, NEW b, RegisterWait(g, w, D, X, b)
        PROVE  UNCHANGED holder
    BY <2>6 DEF RegisterWait
  <2>7. ASSUME NEW g \in Gen, NEW to, NEW proof, TransitionWaitPhase(g, to, proof)
        PROVE  UNCHANGED holder
    BY <2>7 DEF TransitionWaitPhase
  <2>8. ASSUME NEW g \in Gen, NEW w \in Owner, NEW x, CancelWait(g, w, x)
        PROVE  CloseOutbox(g, "voided")
    BY <2>8 DEF CancelWait
  <2>9. ASSUME NEW g \in Gen, NEW w \in Owner, NEW R, AcknowledgeResult(g, w, R)
        PROVE  CloseOutbox(g, "acknowledged")
    BY <2>9 DEF AcknowledgeResult
  <2>10. ASSUME NEW o1 \in Operation, NEW w \in Owner,
                \/ \E x \in Task : RegisterOperation(o1, x, w)
                \/ \E x \in Health : RecordSupervision(o1, w, x)
         PROVE  UNCHANGED holder
    BY <2>10 DEF RegisterOperation, RecordSupervision, boxVars
  <2>11. ASSUME NEW g \in Gen,
                \/ \E w \in Owner, o1 \in Operation : RecordEvidenceRead(g, w, o1)
                \/ \E o1 \in Operation, r \in Ref : RecordEvidencePin(g, o1, r)
                \/ ReleaseEvidencePins(g)
         PROVE  UNCHANGED holder
    BY <2>11 DEF RecordEvidenceRead, RecordEvidencePin, ReleaseEvidencePins, boxVars
  <2>12. ASSUME NEW g \in Gen, NEW c \in ClaimId,
                \/ \E x \in {0, 1} : ClaimResume(g, c, x)
                \/ \E a \in AttemptId : PublishResumeAttempt(g, c, a)
                \/ \E x \in {"ready", "held"} : ReleaseResumeClaim(g, c, x)
                \/ HoldFailedResume(g, c)
         PROVE  UNCHANGED holder
    BY <2>12 DEF ClaimResume, PublishResumeAttempt, ReleaseResumeClaim, HoldFailedResume, boxVars
  <2>13. ASSUME NEW d \in DispatchToken, NEW g \in Gen, NEW q \in Operation,
                MarkOutboxDelivered(g, q, d) \/ ReleaseOutbox(g, q, d)
         PROVE  holder[h][p] = t
    BY <2>4, <2>13 DEF MarkOutboxDelivered, ReleaseOutbox
  <2>14. CASE UNCHANGED vars
    BY <2>1, <2>14 DEF vars, boxVars
  <2>15. CASE Next
    BY <2>1, <2>2, <2>3, <2>5, <2>6, <2>7, <2>8, <2>9, <2>10, <2>11, <2>12, <2>13, <2>15 DEF Next
  <2>16. QED
    BY <1>1, <2>14, <2>15
<1>2. TypeOK /\ [Next]_vars =>
        [\A t \in DispatchToken, k, h \in Gen, o, p \in Operation :
            holder[k][o] = t /\ holder'[h][p] = t => holder[h][p] = t]_vars
  BY <1>1
<1>3. QED
  BY <1>2, TypeCorrect, PTL DEF Spec, TokenNamesOneDispatch

\* What is ready can be delivered with its evidence, and what ended keeps nothing.
THEOREM DeliveriesStaySound == Spec => []DeliveriesAreSound
  BY ReadyHasDeliveries, EndedRetainsNothing, DeliveriesHaveEvidence, PTL DEF DeliveriesAreSound

-----------------------------------------------------------------------------
(* The resume claims implement OneWriter, and what was dealt with is final. *)

\* A step that disturbs nothing of what the claim rows say of published
\* attempts, and no answer to the question whether a generation was dealt with,
\* is a stutter.
LEMMA Stutters ==
    ASSUME Used' = Used,
           \A k \in Gen : Published(k)' = Published(k) /\ (Dealt(k)' <=> Dealt(k))
    PROVE  UNCHANGED Writers!vars
  BY DEF Writers!vars

LEMMA InitWriters == Init => Writers!Init
  BY DEF Init, Writers!Init, Published, Used, Dealt

LEMMA NextWriters == TypeOK /\ ClaimInv /\ [Next]_vars => [Writers!Next]_(Writers!vars)
<1> SUFFICES ASSUME TypeOK, ClaimInv, [Next]_vars PROVE [Writers!Next]_(Writers!vars)
  OBVIOUS
<1>1. CASE UNCHANGED <<phase, claimVars>>
  <2>1. Used' = Used /\ \A k \in Gen : Published(k)' = Published(k) /\ (Dealt(k)' <=> Dealt(k))
    BY <1>1 DEF Used, Published, Dealt, ActiveClaims, Active, claimVars
  <2>2. QED
    BY <2>1, Stutters
<1>2. CASE /\ UNCHANGED claimVars
           /\ \A k \in Gen : \/ phase'[k] = phase[k]
                             \/ {phase[k], phase'[k]} \cap {"consumed", "cancelled"} = {}
  <2>1. Used' = Used /\ \A k \in Gen : Published(k)' = Published(k) /\ (Dealt(k)' <=> Dealt(k))
    BY <1>2 DEF Used, Published, Dealt, ActiveClaims, Active, claimVars
  <2>2. QED
    BY <2>1, Stutters
<1>3. ASSUME NEW o \in Operation, NEW w \in Owner, NEW E \in SUBSET Ref,
             RecordTerminalOutcome(o, w, E)
      PROVE [Writers!Next]_(Writers!vars)
  <2>1. \A k \in Gen : phase'[k] = phase[k] \/ (phase[k] = "waiting" /\ phase'[k] = "ready")
    BY <1>3 DEF TypeOK, RecordTerminalOutcome, Woken
  <2>2. UNCHANGED claimVars
    BY <1>3 DEF RecordTerminalOutcome
  <2>3. QED
    BY <1>2, <2>1, <2>2
<1>4. ASSUME NEW k \in Gen, NEW w \in Owner, NEW D \in SUBSET Operation,
             NEW X \in SUBSET Operation, NEW p \in BOOLEAN, RegisterWait(k, w, D, X, p)
      PROVE [Writers!Next]_(Writers!vars)
  <2>1. /\ phase[k] = "absent" /\ phase'[k] \in {"registering", "ready", "waiting"}
        /\ \A h \in Gen \ {k} : phase'[h] = phase[h]
        /\ UNCHANGED claimVars
    BY <1>4 DEF TypeOK, RegisterWait
  <2>2. QED
    BY <1>2, <2>1
<1>5. ASSUME NEW k \in Gen, NEW to \in {"parking", "waiting", "ready", "held"},
             NEW proof \in BOOLEAN, TransitionWaitPhase(k, to, proof)
      PROVE [Writers!Next]_(Writers!vars)
  <2>1. /\ phase[k] \notin {"consumed", "cancelled"}
        /\ phase'[k] \in {"parking", "waiting", "ready", "held"}
        /\ \A h \in Gen \ {k} : phase'[h] = phase[h]
        /\ UNCHANGED claimVars
    BY <1>5 DEF TypeOK, TransitionWaitPhase, AllowedTransitions, Phases, Resulting
  <2>2. QED
    BY <1>2, <2>1
<1>6. ASSUME NEW k \in Gen, NEW w \in Owner, NEW x \in {0, 1}, CancelWait(k, w, x)
      PROVE [Writers!Next]_(Writers!vars)
  \* Close(k): every active claim of k is invalidated.
  <2>1. /\ phase[k] \notin {"consumed", "cancelled"} /\ phase' = [phase EXCEPT ![k] = "cancelled"]
        /\ claimState' = [c \in ClaimId |->
                            IF c \in ActiveClaims(k) THEN "invalidated" ELSE claimState[c]]
        /\ claimOf' = claimOf /\ claimAttempt' = claimAttempt
    BY <1>6 DEF CancelWait, TerminalPhases
  <2>2. Used' = Used
    BY <2>1 DEF Used
  <2>3. Published(k)' = {} /\ \A h \in Gen \ {k} : Published(h)' = Published(h)
    BY <2>1 DEF Published, ActiveClaims, Active, ActiveClaimStates
  <2>4. /\ ~Dealt(k) /\ Dealt(k)'
        /\ \A h \in Gen \ {k} : Dealt(h)' <=> Dealt(h)
    BY <2>1 DEF Dealt, ActiveClaims, Active, ActiveClaimStates, TypeOK
  <2>5. Writers!Close(k)
    BY <2>2, <2>3, <2>4 DEF Writers!Close
  <2>6. QED
    BY <2>5 DEF Writers!Next
<1>7. ASSUME NEW k \in Gen, NEW w \in Owner, NEW R \in SUBSET Operation, AcknowledgeResult(k, w, R)
      PROVE [Writers!Next]_(Writers!vars)
  \* Close(k), unless a claim that published nothing is open on it.
  <2>1. /\ phase[k] \notin {"consumed", "cancelled"} /\ phase' = [phase EXCEPT ![k] = "consumed"]
        /\ UNCHANGED claimVars
    BY <1>7 DEF AcknowledgeResult, Pending, TerminalPhases
  <2>2. Used' = Used /\ \A h \in Gen : Published(h)' = Published(h)
    BY <2>1 DEF Used, Published, claimVars
  <2>3. ~Dealt(k) /\ \A h \in Gen \ {k} : Dealt(h)' <=> Dealt(h)
    BY <2>1 DEF Dealt, ActiveClaims, Active, TypeOK, claimVars
  <2>4. CASE Dealt(k)'
    <3>1. Writers!Close(k)
      BY <2>2, <2>3, <2>4 DEF Writers!Close
    <3>2. QED
      BY <3>1 DEF Writers!Next
  <2>5. CASE ~Dealt(k)'
    BY <2>2, <2>3, <2>5, Stutters
  <2>6. QED
    BY <2>4, <2>5
<1>8. ASSUME NEW k \in Gen, NEW c \in ClaimId, NEW x \in {0, 1}, ClaimResume(k, c, x)
      PROVE [Writers!Next]_(Writers!vars)
  <2>1. /\ claimState[c] = "absent" /\ phase[k] = "ready" /\ phase' = [phase EXCEPT ![k] = "resuming"]
        /\ claimState' = [claimState EXCEPT ![c] = "claimed"]
        /\ claimOf' = [claimOf EXCEPT ![c] = k] /\ claimAttempt' = claimAttempt
    BY <1>8 DEF ClaimResume
  <2>2. Used' = Used /\ \A h \in Gen : Published(h)' = Published(h)
    BY <2>1 DEF Used, Published, TypeOK
  <2>3. \A h \in Gen : Dealt(h)' <=> Dealt(h)
    <3> SUFFICES ASSUME NEW h \in Gen PROVE Dealt(h)' <=> Dealt(h)
      OBVIOUS
    <3>1. CASE h = k
      BY <2>1, <3>1 DEF Dealt, TypeOK
    <3>2. CASE h # k
      BY <2>1, <3>2 DEF Dealt, ActiveClaims, Active, ActiveClaimStates, TypeOK
    <3>3. QED
      BY <3>1, <3>2
  <2>4. QED
    BY <2>2, <2>3, Stutters
<1>9. ASSUME NEW k \in Gen, NEW c \in ClaimId, NEW a \in AttemptId, PublishResumeAttempt(k, c, a)
      PROVE [Writers!Next]_(Writers!vars)
  \* Start(k, a): no other claim on k is active.
  <2>1. /\ claimOf[c] = k /\ claimState[c] = "claimed" /\ phase[k] = "resuming" /\ phase' = phase
        /\ claimState' = [claimState EXCEPT ![c] = "published"]
        /\ claimOf' = claimOf /\ claimAttempt' = [claimAttempt EXCEPT ![c] = a]
        /\ \A d \in ClaimId : claimAttempt[d] # a
    BY <1>9 DEF PublishResumeAttempt, AttemptUnused
  <2>2. a # None /\ claimAttempt[c] = None
    BY <2>1, NoneAssumption DEF ClaimInv, ClaimShape
  <2>3. a \notin Used /\ Used' = Used \cup {a}
    BY <2>1, <2>2 DEF Used, TypeOK
  <2>4. \A d \in ClaimId : claimOf[d] = k /\ Active(d) => d = c
    BY <2>1 DEF ClaimInv, ClaimMatchesPhase, Active, ActiveClaimStates
  <2>5. Published(k) = {} /\ Published(k)' = {a} /\ \A h \in Gen \ {k} : Published(h)' = Published(h)
    BY <2>1, <2>4 DEF Published, Active, ActiveClaimStates, TypeOK
  <2>6. ~Dealt(k) /\ \A h \in Gen : Dealt(h)' <=> Dealt(h)
    <3> SUFFICES ASSUME NEW h \in Gen PROVE ~Dealt(k) /\ (Dealt(h)' <=> Dealt(h))
      OBVIOUS
    <3>1. CASE h = k
      BY <2>1, <3>1 DEF Dealt, TypeOK
    <3>2. CASE h # k
      BY <2>1, <3>2 DEF Dealt, ActiveClaims, Active, ActiveClaimStates, TypeOK
    <3>3. QED
      BY <3>1, <3>2
  <2>7. Writers!Start(k, a)
    BY <2>3, <2>5, <2>6 DEF Writers!Start
  <2>8. QED
    BY <2>7 DEF Writers!Next
<1>10. ASSUME NEW k \in Gen, NEW c \in ClaimId, NEW outcome \in {"ready", "held"},
              ReleaseResumeClaim(k, c, outcome)
       PROVE [Writers!Next]_(Writers!vars)
  <2>1. /\ claimOf[c] = k /\ claimState[c] = "claimed" /\ phase' = [phase EXCEPT ![k] = outcome]
        /\ claimState' = [claimState EXCEPT ![c] = "released"]
        /\ claimOf' = claimOf /\ claimAttempt' = claimAttempt
    BY <1>10 DEF ReleaseResumeClaim
  <2>2. Used' = Used /\ \A h \in Gen : Published(h)' = Published(h)
    BY <2>1 DEF Used, Published, TypeOK
  <2>3. \A h \in Gen : Dealt(h)' <=> Dealt(h)
    <3> SUFFICES ASSUME NEW h \in Gen PROVE Dealt(h)' <=> Dealt(h)
      OBVIOUS
    <3>1. CASE h = k
      <4>1. phase[k] \in {"resuming", "consumed"} /\ c \in ActiveClaims(k)
        BY <2>1 DEF ClaimInv, ClaimMatchesPhase, ActiveClaims, Active, ActiveClaimStates
      <4>2. QED
        BY <2>1, <3>1, <4>1 DEF Dealt, TypeOK
    <3>2. CASE h # k
      BY <2>1, <3>2 DEF Dealt, ActiveClaims, Active, ActiveClaimStates, TypeOK
    <3>3. QED
      BY <3>1, <3>2
  <2>4. QED
    BY <2>2, <2>3, Stutters
<1>11. ASSUME NEW k \in Gen, NEW c \in ClaimId, HoldFailedResume(k, c)
       PROVE [Writers!Next]_(Writers!vars)
  \* Stop(k): the only published claim on k is c.
  <2>1. /\ claimOf[c] = k /\ claimState[c] = "published" /\ phase[k] = "resuming"
        /\ phase' = [phase EXCEPT ![k] = "held"]
        /\ claimState' = [claimState EXCEPT ![c] = "invalidated"]
        /\ claimOf' = claimOf /\ claimAttempt' = claimAttempt
    BY <1>11 DEF HoldFailedResume
  <2>2. \A d \in ClaimId : claimOf[d] = k /\ Active(d) => d = c
    BY <2>1 DEF ClaimInv, ClaimMatchesPhase, Active, ActiveClaimStates
  <2>3. Used' = Used
    BY <2>1 DEF Used
  <2>4. Published(k) # {} /\ Published(k)' = {} /\ \A h \in Gen \ {k} : Published(h)' = Published(h)
    <3>1. claimAttempt[c] \in Published(k)
      BY <2>1 DEF Published
    <3>2. Published(k)' = {}
      BY <2>1, <2>2 DEF Published, Active, ActiveClaimStates, TypeOK
    <3>3. \A h \in Gen \ {k} : Published(h)' = Published(h)
      BY <2>1 DEF Published, TypeOK
    <3>4. QED
      BY <3>1, <3>2, <3>3
  <2>5. \A h \in Gen : Dealt(h)' <=> Dealt(h)
    <3> SUFFICES ASSUME NEW h \in Gen PROVE Dealt(h)' <=> Dealt(h)
      OBVIOUS
    <3>1. CASE h = k
      BY <2>1, <3>1 DEF Dealt, TypeOK
    <3>2. CASE h # k
      BY <2>1, <3>2 DEF Dealt, ActiveClaims, Active, ActiveClaimStates, TypeOK
    <3>3. QED
      BY <3>1, <3>2
  <2>6. Writers!Stop(k)
    BY <2>3, <2>4, <2>5 DEF Writers!Stop
  <2>7. QED
    BY <2>6 DEF Writers!Next
<1>12. QED
  BY <1>1, <1>3, <1>4, <1>5, <1>6, <1>7, <1>8, <1>9, <1>10, <1>11
  DEF Next, RegisterOperation, RecordSupervision, RecordEvidenceRead, RecordEvidencePin,
      ReleaseEvidencePins, ClaimOutbox, MarkOutboxDelivered, ReleaseOutbox, FinishDispatch, vars

LEMMA ClaimInvHolds == Spec => [](TypeOK /\ ClaimInv)
<1>1. Init => ClaimInv
  BY DEF Init, ClaimInv, ClaimShape, ClaimMatchesPhase, ActiveClaims, Active, ActiveClaimStates
<1>2. QED
  BY <1>1, InitTypeOK, NextTypeOK, NextClaimInv, PTL DEF Spec

\* The store is an implementation of OneWriter: no order of claims,
\* publications, holds, releases, cancellations and answers starts two writers
\* on a generation, reuses an attempt, or starts one after the end.
THEOREM StoreImplementsOneWriter == Spec => ImplementsOneWriter
  BY InitWriters, NextWriters, ClaimInvHolds, PTL DEF Spec, ImplementsOneWriter, Writers!Spec

\* No call changes the phase of a generation that was dealt with.
THEOREM DealtWithStays == Spec => DealtWithIsFinal
<1>1. ASSUME TypeOK, ClaimInv, [Next]_vars, NEW k \in Gen, Dealt(k)
      PROVE  phase'[k] = phase[k]
  <2> phase[k] \in {"consumed", "cancelled"} /\ \A c \in ActiveClaims(k) : claimState[c] = "published"
    BY <1>1 DEF Dealt, ClaimInv, ClaimMatchesPhase, ActiveClaims
  <2>1. ASSUME NEW g \in Gen, phase[g] \notin TerminalPhases,
               \A h \in Gen \ {g} : phase'[h] = phase[h]
        PROVE  phase'[k] = phase[k]
    BY <2>1 DEF TerminalPhases
  <2>2. ASSUME NEW o \in Operation, NEW w \in Owner, NEW E \in SUBSET Ref,
               RecordTerminalOutcome(o, w, E)
        PROVE  phase'[k] = phase[k]
    BY <1>1, <2>2 DEF TypeOK, RecordTerminalOutcome, Woken
  <2>3. ASSUME NEW g \in Gen, NEW w \in Owner, NEW D \in SUBSET Operation,
               NEW X \in SUBSET Operation, NEW p \in BOOLEAN, RegisterWait(g, w, D, X, p)
        PROVE  phase'[k] = phase[k]
    BY <1>1, <2>3 DEF TypeOK, RegisterWait
  <2>4. ASSUME NEW g \in Gen, NEW to \in {"parking", "waiting", "ready", "held"},
               NEW proof \in BOOLEAN, TransitionWaitPhase(g, to, proof)
        PROVE  phase'[k] = phase[k]
    BY <1>1, <2>4 DEF TypeOK, TransitionWaitPhase, AllowedTransitions, Phases
  <2>5. ASSUME NEW g \in Gen, NEW w \in Owner, NEW x \in {0, 1}, CancelWait(g, w, x)
        PROVE  phase'[k] = phase[k]
    BY <1>1, <2>1, <2>5 DEF TypeOK, CancelWait
  <2>6. ASSUME NEW g \in Gen, NEW w \in Owner, NEW R \in SUBSET Operation, AcknowledgeResult(g, w, R)
        PROVE  phase'[k] = phase[k]
    BY <1>1, <2>1, <2>6 DEF TypeOK, AcknowledgeResult, Pending
  <2>7. ASSUME NEW g \in Gen, NEW c \in ClaimId, NEW x \in {0, 1}, ClaimResume(g, c, x)
        PROVE  phase'[k] = phase[k]
    BY <1>1, <2>7 DEF TypeOK, ClaimResume
  <2>8. ASSUME NEW g \in Gen, NEW c \in ClaimId, NEW outcome \in {"ready", "held"},
               ReleaseResumeClaim(g, c, outcome)
        PROVE  phase'[k] = phase[k]
    BY <1>1, <2>8 DEF TypeOK, ReleaseResumeClaim, ActiveClaims, Active, ActiveClaimStates
  <2>9. ASSUME NEW g \in Gen, NEW c \in ClaimId, HoldFailedResume(g, c)
        PROVE  phase'[k] = phase[k]
    BY <1>1, <2>9 DEF TypeOK, HoldFailedResume
  <2>10. CASE UNCHANGED phase
    BY <2>10
  <2>11. QED
    BY <1>1, <2>2, <2>3, <2>4, <2>5, <2>6, <2>7, <2>8, <2>9, <2>10
    DEF Next, RegisterOperation, RecordSupervision, PublishResumeAttempt, RecordEvidenceRead,
        RecordEvidencePin, ReleaseEvidencePins, ClaimOutbox, MarkOutboxDelivered, ReleaseOutbox,
        FinishDispatch, vars
<1>2. TypeOK /\ ClaimInv /\ [Next]_vars => [\A k \in Gen : Dealt(k) => phase'[k] = phase[k]]_vars
  BY <1>1
<1>3. QED
  BY <1>2, ClaimInvHolds, PTL DEF Spec, DealtWithIsFinal

\* A late call of a claimant or a dispatcher reopens no generation and settles no
\* delivery of another dispatch.
THEOREM LateCallsAreHarmless == Spec => LateCallsChangeNothing
  BY DealtWithStays, TokensNameOneDispatch DEF LateCallsChangeNothing
=============================================================================
