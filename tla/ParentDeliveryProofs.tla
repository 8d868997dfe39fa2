-------------------------- MODULE ParentDeliveryProofs --------------------------
(* Type correctness of the delivery of a task's end, the agreement of its  *)
(* receipts with the messages, and the return of stranded claims, for any  *)
(* number of processes, waits and openings.                                *)
EXTENDS ParentDelivery, FiniteSetTheorems, TLAPS

\* A copy that is still to be written has a token exactly when it has a claim.
Shaped(c) == c.by = None <=> c.token = 0

Copying(p) == doing[p] # None /\ doing[p].step = "write"

TypeInv == TypeOK /\ \A p \in Process : Copying(p) => Shaped(doing[p].copy)

-----------------------------------------------------------------------------
(* Tokens *)

\* The tokens of the notifications, of the copies and of the sidecar do not use up all.
LEMMA FreshTokenIsFresh == TypeOK => FreshToken \in Token \ {0}
<1> SUFFICES ASSUME TypeOK PROVE FreshToken \in Token \ {0}
  OBVIOUS
<1> DEFINE inSlot == {r \in Process : slot[r] # None}
           inCopy == {r \in Process : doing[r] # None /\ doing[r].step = "write"}
           S == {slot[q].token : q \in inSlot}
           C == {doing[q].copy.token : q \in inCopy}
           used == {sidecar.token} \cup S \cup C
           n == Cardinality(Process)
<1>1. IsFiniteSet(Process) /\ n \in Nat
  BY ParentDeliveryAssumption, FS_CardinalityType
<1>2. IsFiniteSet(S) /\ Cardinality(S) \in Nat /\ Cardinality(S) <= n
  <2> DEFINE f == [q \in inSlot |-> slot[q].token]
  <2>1. f \in Surjection(inSlot, S)
    BY DEF Surjection
  <2>2. IsFiniteSet(inSlot) /\ Cardinality(inSlot) <= n /\ Cardinality(inSlot) \in Nat
    BY <1>1, FS_Subset, FS_CardinalityType
  <2>3. IsFiniteSet(S) /\ Cardinality(S) <= Cardinality(inSlot)
    BY <2>1, <2>2, FS_Surjection
  <2>4. QED
    BY <1>1, <2>2, <2>3, FS_CardinalityType
<1>3. IsFiniteSet(C) /\ Cardinality(C) \in Nat /\ Cardinality(C) <= n
  <2> DEFINE f == [q \in inCopy |-> doing[q].copy.token]
  <2>1. f \in Surjection(inCopy, C)
    BY DEF Surjection
  <2>2. IsFiniteSet(inCopy) /\ Cardinality(inCopy) <= n /\ Cardinality(inCopy) \in Nat
    BY <1>1, FS_Subset, FS_CardinalityType
  <2>3. IsFiniteSet(C) /\ Cardinality(C) <= Cardinality(inCopy)
    BY <2>1, <2>2, FS_Surjection
  <2>4. QED
    BY <1>1, <2>2, <2>3, FS_CardinalityType
<1> HIDE DEF S, C, n
<1>4. IsFiniteSet(S \cup C) /\ Cardinality(S \cup C) \in Nat /\ Cardinality(S \cup C) <= 2 * n
  <2>1. IsFiniteSet(S \cap C) /\ Cardinality(S \cap C) \in Nat
    BY <1>2, FS_Intersection, FS_CardinalityType
  <2>2. /\ IsFiniteSet(S \cup C)
        /\ Cardinality(S \cup C) = Cardinality(S) + Cardinality(C) - Cardinality(S \cap C)
    BY <1>2, <1>3, FS_Union
  <2>3. Cardinality(S \cup C) \in Nat
    BY <2>2, FS_CardinalityType
  <2>4. QED
    BY <1>1, <1>2, <1>3, <2>1, <2>2, <2>3
<1>5. IsFiniteSet(used) /\ Cardinality(used) \in Nat /\ Cardinality(used) <= 2 * n + 1
  <2>1. used = (S \cup C) \cup {sidecar.token}
    OBVIOUS
  <2>2. /\ IsFiniteSet((S \cup C) \cup {sidecar.token})
        /\ Cardinality((S \cup C) \cup {sidecar.token}) \in
               {Cardinality(S \cup C), Cardinality(S \cup C) + 1}
    BY <1>4, FS_AddElement
  <2>3. QED
    BY <1>1, <1>4, <2>1, <2>2
<1>6. Token \ {0} = 1 .. 2 * n + 2
  BY <1>1 DEF Token, n
<1>7. Cardinality(1 .. 2 * n + 2) = 2 * n + 2
  BY <1>1, FS_Interval
<1>8. \E t \in Token \ {0} : t \notin used
  <2> SUFFICES ASSUME Token \ {0} \subseteq used PROVE FALSE
    OBVIOUS
  <2>1. Cardinality(Token \ {0}) <= Cardinality(used)
    BY <1>5, FS_Subset
  <2>2. Cardinality(Token \ {0}) = 2 * n + 2
    BY <1>6, <1>7
  <2> HIDE DEF used
  <2>3. QED
    BY <1>1, <1>5, <2>1, <2>2
<1>9. FreshToken = CHOOSE t \in Token \ {0} : t \notin used
  BY DEF FreshToken, S, C
<1>10. QED
  BY <1>8, <1>9

-----------------------------------------------------------------------------
(* Type correctness *)

LEMMA InitTypeInv == Init => TypeInv
<1> SUFFICES ASSUME Init PROVE TypeInv
  OBVIOUS
<1>1. 0 \in Token /\ 0 \in Opening /\ 0 \in 0 .. 2
  BY ParentDeliveryAssumption, FS_CardinalityType DEF Token, Opening
<1>2. TypeOK
  BY <1>1 DEF Init, TypeOK, Sidecar
<1>3. QED
  BY <1>2 DEF Init, TypeInv, Copying

\* What a process goes on to do is something it does, and its copies are shaped.
LEMMA DoesType ==
    ASSUME TypeInv, NEW p \in Process, NEW d \in Doing \cup {None},
           d # None /\ d.step = "write" => Shaped(d.copy),
           Does(p, d)
    PROVE  /\ doing' \in [Process -> Doing \cup {None}]
           /\ (\A q \in Process : Copying(q) => Shaped(doing[q].copy))'
  BY DEF TypeInv, TypeOK, Does, Copying, Shaped

LEMMA WritingType ==
    ASSUME NEW c \in Sidecar, NEW b \in BOOLEAN
    PROVE  /\ Writing(c, b) \in Doing /\ Writing(c, b) # None
           /\ Writing(c, b).step = "write" /\ Writing(c, b).copy = c /\ Writing(c, b).notify = b
  BY NoneAssumption DEF Writing, Doing

LEMMA StepsAreDoings ==
    /\ \A s \in {"recover", "inspect"} : [step |-> s] \in Doing /\ [step |-> s].step # "write"
    /\ \A w \in Wait : [step |-> "route", wait |-> w] \in Doing
                       /\ [step |-> "route", wait |-> w].step # "write"
  BY DEF Doing

LEMMA DoesNothing ==
    ASSUME TypeInv, UNCHANGED doing
    PROVE  /\ doing' \in [Process -> Doing \cup {None}]
           /\ (\A q \in Process : Copying(q) => Shaped(doing[q].copy))'
  BY DEF TypeInv, TypeOK, Copying, Shaped

LEMMA DoesWrite ==
    ASSUME TypeInv, NEW p \in Process, NEW c \in Sidecar, Shaped(c), NEW b \in BOOLEAN,
           Does(p, Writing(c, b))
    PROVE  /\ doing' \in [Process -> Doing \cup {None}]
           /\ (\A q \in Process : Copying(q) => Shaped(doing[q].copy))'
  BY WritingType, DoesType

LEMMA SkipsType ==
    ASSUME TypeInv, NEW p \in Process, Skips(p)
    PROVE  /\ doing' \in [Process -> Doing \cup {None}]
           /\ (\A q \in Process : Copying(q) => Shaped(doing[q].copy))'
<1>1. CASE doing' = doing
  BY <1>1, DoesNothing
<1>2. CASE Does(p, Writing(sidecar, FALSE))
  BY <1>2, DoesWrite DEF TypeInv, TypeOK, Shaped
<1>3. QED
  BY <1>1, <1>2 DEF Skips, Does

LEMMA UnclaimedType ==
    ASSUME NEW c \in Sidecar
    PROVE  /\ Unclaimed(c) \in Sidecar /\ Shaped(Unclaimed(c))
           /\ [Unclaimed(c) EXCEPT !.delivered = TRUE] \in Sidecar
           /\ Shaped([Unclaimed(c) EXCEPT !.delivered = TRUE])
<1>1. 0 \in Token
  BY ParentDeliveryAssumption, FS_CardinalityType DEF Token
<1>2. QED
  BY <1>1 DEF Unclaimed, Sidecar, Shaped

LEMMA MeType == ASSUME TypeInv, NEW p \in Process PROVE Me(p) \in Host /\ Me(p) # None
  BY NoneAssumption DEF TypeInv, TypeOK, Me, Host

LEMMA DeliveredType ==
    ASSUME TypeInv, NEW p \in Process, NEW c \in Closure, Delivered(p, c)
    PROVE  /\ event' \in [Wait -> {"absent", "pending", "claimed", "delivered", "closed"}]
           /\ eventBy' \in [Wait -> Host \cup {None}]
           /\ doing' \in [Process -> Doing \cup {None}]
           /\ (\A q \in Process : Copying(q) => Shaped(doing[q].copy))'
<1>1. c.what \in What
  BY DEF Closure
<1>2. CASE c.what = Callback
  <2>1. event' = event /\ eventBy' = eventBy
    BY <1>2 DEF Delivered
  <2>2. UNCHANGED doing \/ Does(p, Writing([Unclaimed(sidecar) EXCEPT !.delivered = TRUE], FALSE))
    BY <1>2 DEF Delivered
  <2>3. QED
    BY <2>1, <2>2, DoesNothing, DoesWrite, UnclaimedType DEF TypeInv, TypeOK
<1>3. CASE c.what # Callback
  <2>1. c.what \in Wait
    BY <1>1, <1>3 DEF What
  <2>2. /\ event' \in [Wait -> {"absent", "pending", "claimed", "delivered", "closed"}]
        /\ eventBy' \in [Wait -> Host \cup {None}]
    BY <1>3 DEF Delivered, TypeInv, TypeOK
  <2>3. /\ [sidecar EXCEPT !.proofs = @ \cup {c.what}] \in Sidecar
        /\ Shaped([sidecar EXCEPT !.proofs = @ \cup {c.what}])
    BY <2>1 DEF TypeInv, TypeOK, Sidecar, Shaped
  <2>4. UNCHANGED doing \/ Does(p, Writing([sidecar EXCEPT !.proofs = @ \cup {c.what}], FALSE))
    BY <1>3 DEF Delivered
  <2>5. QED
    BY <2>2, <2>3, <2>4, DoesNothing, DoesWrite
<1>4. QED
  BY <1>2, <1>3

LEMMA DeferType ==
    ASSUME TypeInv, NEW p \in Process, NEW c \in Closure, Defer(p, c)
    PROVE  /\ pend' \in [Process -> BOOLEAN]
           /\ event' \in [Wait -> {"absent", "pending", "claimed", "delivered", "closed"}]
           /\ eventBy' \in [Wait -> Host \cup {None}]
           /\ doing' \in [Process -> Doing \cup {None}]
           /\ (\A q \in Process : Copying(q) => Shaped(doing[q].copy))'
<1>1. pend' \in [Process -> BOOLEAN]
  BY DEF Defer, TypeInv, TypeOK
<1>2. /\ event' \in [Wait -> {"absent", "pending", "claimed", "delivered", "closed"}]
      /\ eventBy' \in [Wait -> Host \cup {None}]
  BY DEF Defer, TypeInv, TypeOK
<1>3. UNCHANGED doing \/ Skips(p) \/ Does(p, Writing(Unclaimed(sidecar), FALSE))
  BY DEF Defer
<1>4. QED
  BY <1>1, <1>2, <1>3, DoesNothing, SkipsType, DoesWrite, UnclaimedType DEF TypeInv, TypeOK

LEMMA EnqueueType ==
    ASSUME TypeInv, NEW p \in Process, NEW what \in What, NEW token \in Token,
           Enqueue(p, Notification(p, what, token))
    PROVE  slot' \in [Process -> Closure \cup {None}]
<1>1. Notification(p, what, token) \in Closure
  BY DEF Notification, Closure, TypeInv, TypeOK
<1>2. QED
  BY <1>1 DEF Enqueue, TypeInv, TypeOK

LEMMA StepType == ASSUME TypeInv, UNCHANGED scenario, NEW p \in Process, Step(p) PROVE TypeInv'
<1> USE DEF TypeInv
<1>0. 0 \in Token /\ 0 \in 0 .. 2 /\ 1 \in 0 .. 2 /\ 2 \in 0 .. 2
  BY ParentDeliveryAssumption, FS_CardinalityType DEF Token
<1>1. CASE Inspect(p)
  BY <1>1, DoesType, StepsAreDoings DEF Inspect, TypeOK, store, hosts, batcher
<1>2. CASE RecordTerminal(p)
  <2>1. /\ doing' \in [Process -> Doing \cup {None}]
        /\ (\A q \in Process : Copying(q) => Shaped(doing[q].copy))'
    BY <1>2, DoesType, DoesWrite DEF RecordTerminal, TypeOK, Shaped
  <2>2. QED
    BY <1>2, <2>1 DEF RecordTerminal, TypeOK, hosts, batcher
<1>3. CASE Attempt(p)
  <2> DEFINE c == [sidecar EXCEPT !.by = Me(p), !.token = FreshToken]
  <2>1. c \in Sidecar /\ Shaped(c)
    BY FreshTokenIsFresh, MeType DEF TypeOK, Sidecar, Shaped
  <2>2. UNCHANGED doing \/ Skips(p) \/ Does(p, Writing(c, TRUE))
    BY <1>3 DEF Attempt
  <2>3. /\ doing' \in [Process -> Doing \cup {None}]
        /\ (\A q \in Process : Copying(q) => Shaped(doing[q].copy))'
    BY <2>1, <2>2, DoesNothing, SkipsType, DoesWrite
  <2>4. pend' \in [Process -> BOOLEAN] /\ noticed' \in [Process -> BOOLEAN]
    BY <1>3 DEF Attempt, TypeOK
  <2>5. QED
    BY <1>3, <2>3, <2>4 DEF Attempt, TypeOK, store, hosts, batcher
<1>4. CASE Write(p)
  <2>1. doing[p].copy \in Sidecar /\ Shaped(doing[p].copy)
    BY <1>4 DEF Write, Copying, TypeOK, Doing
  <2>2. slot' \in [Process -> Closure \cup {None}]
    <3>1. CASE doing[p].notify
      BY <1>4, <2>1, <3>1, EnqueueType DEF Write, What, Sidecar
    <3>2. CASE ~doing[p].notify
      BY <1>4, <3>2 DEF Write, TypeOK
    <3>3. QED
      BY <3>1, <3>2
  <2>3. /\ doing' \in [Process -> Doing \cup {None}]
        /\ (\A q \in Process : Copying(q) => Shaped(doing[q].copy))'
    BY <1>4, DoesType DEF Write
  <2>4. QED
    BY <1>4, <2>1, <2>2, <2>3 DEF Write, TypeOK, Shaped, store, hosts
<1>5. CASE Route(p)
  <2> DEFINE w == doing[p].wait
             c == [sidecar EXCEPT !.proofs = @ \ {w}]
  <2>1. w \in Wait
    BY <1>5 DEF Route, TypeOK, Doing
  <2>2. c \in Sidecar /\ Shaped(c)
    BY DEF TypeOK, Sidecar, Shaped
  <2>3. Does(p, None) \/ Does(p, Writing(c, FALSE))
    BY <1>5 DEF Route
  <2>4. /\ doing' \in [Process -> Doing \cup {None}]
        /\ (\A q \in Process : Copying(q) => Shaped(doing[q].copy))'
    BY <2>2, <2>3, DoesType, DoesWrite
  <2>5. /\ event' \in [Wait -> {"absent", "pending", "claimed", "delivered", "closed"}]
        /\ eventBy' \in [Wait -> Host \cup {None}]
    BY <1>5, <2>1 DEF Route, TypeOK
  <2>6. UNCHANGED slot \/ Enqueue(p, Notification(p, w, 0))
    BY <1>5 DEF Route
  <2>7. slot' \in [Process -> Closure \cup {None}]
    BY <1>0, <2>1, <2>6, EnqueueType DEF TypeOK, What
  <2>8. QED
    BY <1>5, <2>4, <2>5, <2>7 DEF Route, TypeOK, hosts
<1>6. ASSUME NEW w \in Wait, ClaimOutbox(p, w) PROVE TypeInv'
  <2>1. /\ doing' \in [Process -> Doing \cup {None}]
        /\ (\A q \in Process : Copying(q) => Shaped(doing[q].copy))'
    BY <1>6, DoesType, StepsAreDoings DEF ClaimOutbox
  <2>2. QED
    BY <1>6, <2>1, MeType DEF ClaimOutbox, TypeOK, hosts, batcher
<1>7. CASE Flush(p)
  <2>1. slot[p] \in Closure
    BY <1>7 DEF Flush, TypeOK
  <2>2. Delivered(p, slot[p]) \/ Defer(p, slot[p]) \/ UNCHANGED <<event, eventBy, doing>>
    BY <1>7 DEF Flush
  <2>3. /\ doing' \in [Process -> Doing \cup {None}]
        /\ (\A q \in Process : Copying(q) => Shaped(doing[q].copy))'
        /\ event' \in [Wait -> {"absent", "pending", "claimed", "delivered", "closed"}]
        /\ eventBy' \in [Wait -> Host \cup {None}]
    BY <2>1, <2>2, DoesNothing, DeliveredType, DeferType DEF TypeOK
  <2>4. UNCHANGED pend \/ Defer(p, slot[p])
    BY <1>7 DEF Flush
  <2>5. pend' \in [Process -> BOOLEAN]
    BY <2>1, <2>4, DeferType DEF TypeOK
  <2>6. slot' \in [Process -> Closure \cup {None}]
    <3>1. \A stage \in {"accepted", "refused"} : [slot[p] EXCEPT !.stage = stage] \in Closure
      BY <2>1 DEF Closure
    <3>2. \/ slot' = [slot EXCEPT ![p] = None]
          \/ \E stage \in {"accepted", "refused"} : slot' = [slot EXCEPT ![p] = [slot[p] EXCEPT !.stage = stage]]
      BY <1>7 DEF Flush
    <3>3. CASE slot' = [slot EXCEPT ![p] = None]
      BY <3>3 DEF TypeOK
    <3>4. ASSUME NEW c \in Closure, slot' = [slot EXCEPT ![p] = c]
          PROVE slot' \in [Process -> Closure \cup {None}]
      BY <3>4 DEF TypeOK
    <3>5. QED
      BY <3>1, <3>2, <3>3, <3>4
  <2>7. heard' \in [Process -> [What -> 0 .. 2]]
    <3> DEFINE x == slot[p].what
    <3>1. x \in What /\ heard[p] \in [What -> 0 .. 2]
      BY <2>1 DEF TypeOK, Closure
    <3>2. \/ UNCHANGED heard
          \/ heard' = [heard EXCEPT ![p] = [heard[p] EXCEPT ![x] = IF heard[p][x] = 0 THEN 1 ELSE 2]]
      BY <1>7 DEF Flush, Shows
    <3> HIDE DEF x
    <3>3. [heard[p] EXCEPT ![x] = IF heard[p][x] = 0 THEN 1 ELSE 2] \in [What -> 0 .. 2]
      BY <1>0, <3>1
    <3>4. QED
      BY <3>2, <3>3 DEF TypeOK
  <2>8. QED
    BY <1>7, <2>3, <2>5, <2>6, <2>7 DEF Flush, TypeOK, hosts
<1>8. CASE Landed(p)
  <2>1. slot[p] \in Closure
    BY <1>8 DEF Landed, TypeOK
  <2>2. QED
    BY <1>8, <2>1, DeliveredType DEF Landed, TypeOK, hosts
<1>9. CASE Refused(p)
  <2>1. slot[p] \in Closure
    BY <1>9 DEF Refused, TypeOK
  <2>2. slot' \in [Process -> Closure \cup {None}]
    BY <1>9, <2>1 DEF Refused, TypeOK, Closure
  <2>3. QED
    BY <1>9, <2>2, DoesNothing DEF Refused, TypeOK, store, hosts
<1>10. CASE Recover(p)
  <2>1. Does(p, None) \/ Does(p, Writing(Unclaimed(sidecar), FALSE))
    BY <1>10 DEF Recover
  <2>2. /\ doing' \in [Process -> Doing \cup {None}]
        /\ (\A q \in Process : Copying(q) => Shaped(doing[q].copy))'
    BY <2>1, DoesType, DoesWrite, UnclaimedType DEF TypeOK
  <2>3. /\ event' \in [Wait -> {"absent", "pending", "claimed", "delivered", "closed"}]
        /\ eventBy' \in [Wait -> Host \cup {None}]
    BY <1>10 DEF Recover, TypeOK
  <2>4. QED
    BY <1>10, <2>2, <2>3 DEF Recover, TypeOK, hosts, batcher
<1>11. QED
  BY <1>1, <1>2, <1>3, <1>4, <1>5, <1>6, <1>7, <1>8, <1>9, <1>10 DEF Step

LEMMA EnvironmentType ==
    ASSUME TypeInv, UNCHANGED scenario, NEW p \in Process, Environment(p) PROVE TypeInv'
<1> USE DEF TypeInv
<1>1. CASE Close(p)
  BY <1>1, DoesNothing DEF Close, TypeOK, store
<1>2. CASE Navigate(p)
  BY <1>2, DoesType, StepsAreDoings DEF Navigate, TypeOK, Views, store, batcher
<1>3. CASE Crash(p)
  <2>1. Does(p, None)
    BY <1>3 DEF Crash, Does
  <2>2. QED
    BY <1>3, <2>1, DoesType DEF Crash, TypeOK, store
<1>4. CASE Status(p)
  BY <1>4, DoesNothing DEF Status, TypeOK, store, hosts, batcher
<1>5. CASE Dismiss(p)
  <2>1. /\ doing' \in [Process -> Doing \cup {None}]
        /\ (\A q \in Process : Copying(q) => Shaped(doing[q].copy))'
    BY <1>5, DoesWrite DEF Dismiss, TypeOK, Shaped
  <2>2. QED
    BY <1>5, <2>1 DEF Dismiss, TypeOK, store, hosts, batcher
<1>6. ASSUME NEW v \in Views, Start(p, v) PROVE TypeInv'
  <2>1. scenario.opens \in 0 .. MaxOpen
    BY ScenarioAssumption DEF TypeOK, Scenario
  <2>2. opening[p] + 1 \in Opening
    BY <1>6, <2>1, ParentDeliveryAssumption DEF Start, TypeOK, Opening
  <2>3. opening' \in [Process -> Opening] /\ host' \in [Process -> Opening]
    <3>1. host' = [host EXCEPT ![p] = opening[p] + 1] \/ host' = host
      BY <1>6 DEF Start
    <3>2. opening' = [opening EXCEPT ![p] = opening[p] + 1]
      BY <1>6 DEF Start
    <3>3. QED
      BY <2>2, <3>1, <3>2 DEF TypeOK
  <2>4. /\ doing' \in [Process -> Doing \cup {None}]
        /\ (\A q \in Process : Copying(q) => Shaped(doing[q].copy))'
    BY <1>6, DoesType, StepsAreDoings DEF Start
  <2>5. QED
    BY <1>6, <2>3, <2>4 DEF Start, TypeOK, store, batcher
<1>7. ASSUME NEW w \in Wait, RegisterWait(p, w) \/ EndWait(p, w) PROVE TypeInv'
  <2>1. /\ wait' \in [Wait -> {"absent", "waiting", "ready", "over"}]
        /\ event' \in [Wait -> {"absent", "pending", "claimed", "delivered", "closed"}]
        /\ eventBy' \in [Wait -> Host \cup {None}]
    BY <1>7 DEF RegisterWait, EndWait, TypeOK
  <2>2. UNCHANGED <<ended, recorded, sidecar, hosts, pend, noticed, doing, batcher>>
    BY <1>7 DEF RegisterWait, EndWait
  <2>3. QED
    BY <2>1, <2>2, DoesNothing DEF TypeOK, hosts, batcher
<1>8. QED
  BY <1>1, <1>2, <1>3, <1>4, <1>5, <1>6, <1>7 DEF Environment

LEMMA NextTypeInv == TypeInv /\ [Next]_vars => TypeInv'
<1> SUFFICES ASSUME TypeInv, [Next]_vars PROVE TypeInv'
  OBVIOUS
<1>1. CASE TaskEnds /\ UNCHANGED scenario
  BY <1>1, DoesNothing DEF TaskEnds, TypeInv, TypeOK, hosts, batcher
<1>2. CASE UNCHANGED vars
  BY <1>2, DoesNothing DEF vars, moving, store, hosts, batcher, TypeInv, TypeOK
<1>3. QED
  BY <1>1, <1>2, StepType, EnvironmentType DEF Next

\* The processes, their copies of the sidecar, the claims and the batchers keep their
\* ranges; in particular there is always a token that nothing refers to.
THEOREM TypeCorrect == Spec => []TypeOK
<1>1. Spec => []TypeInv
  BY InitTypeInv, NextTypeInv, PTL DEF Spec
<1>2. TypeInv => TypeOK
  BY DEF TypeInv
<1>3. QED
  BY <1>1, <1>2, PTL

-----------------------------------------------------------------------------
(* Receipts and messages *)

Accepted(p) == slot[p] # None /\ slot[p].stage = "accepted"
Receipted(c) == c.delivered \/ c.proofs # {}
CleanCopies == \A q \in Process : Copying(q) => ~Receipted(doing[q].copy)

\* Nothing in the store, in the sidecar, in a copy still to be written or in a batcher
\* says that the owner was told.
NoReceipt ==
    /\ ~Receipted(sidecar) /\ CleanCopies
    /\ \A w \in Wait : event[w] # "delivered"
    /\ \A q \in Process : ~handed[q] /\ ~Accepted(q)

\* A process that has shown a message remembers the key, or is about to, or is gone.
Remembers(q) == gone[q] \/ handed[q] \/ Accepted(q)

OneInv ==
    /\ \A q \in Process : gone[q] => ~open[q]
    /\ \A q \in Process : (\E x \in What : heard[q][x] > 0) => Remembers(q)
    /\ OneMessage

LEMMA DoesClean ==
    ASSUME TypeInv, NoReceipt, NEW p \in Process, NEW d,
           d # None /\ d.step = "write" => ~Receipted(d.copy),
           Does(p, d)
    PROVE  CleanCopies'
  BY DEF TypeInv, TypeOK, Does, Copying, NoReceipt, CleanCopies, Receipted

LEMMA DoesCleanWrite ==
    ASSUME TypeInv, NoReceipt, NEW p \in Process, NEW c \in Sidecar, ~Receipted(c),
           NEW b \in BOOLEAN, Does(p, Writing(c, b))
    PROVE  CleanCopies'
  BY WritingType, DoesClean

LEMMA CleanNothing == ASSUME NoReceipt, UNCHANGED doing PROVE CleanCopies'
  BY DEF NoReceipt, CleanCopies, Copying, Receipted

LEMMA SkipsClean == ASSUME TypeInv, NoReceipt, NEW p \in Process, Skips(p) PROVE CleanCopies'
<1>1. Does(p, Writing(sidecar, FALSE)) \/ UNCHANGED doing
  BY DEF Skips, Does
<1>2. QED
  BY <1>1, DoesCleanWrite, CleanNothing DEF NoReceipt, TypeInv, TypeOK

LEMMA UnclaimedClean ==
    ASSUME NEW c \in Sidecar, ~Receipted(c) PROVE Unclaimed(c) \in Sidecar /\ ~Receipted(Unclaimed(c))
<1>1. Unclaimed(c) \in Sidecar
  BY UnclaimedType
<1>2. QED
  BY <1>1 DEF Receipted, Unclaimed, Sidecar

LEMMA EnqueueClean ==
    ASSUME TypeInv, NoReceipt, NEW p \in Process, NEW what, NEW token,
           Enqueue(p, Notification(p, what, token))
    PROVE  (\A q \in Process : ~Accepted(q))'
  BY DEF Enqueue, Notification, Accepted, NoReceipt, TypeInv, TypeOK

\* Until the owner was told, no step makes a receipt: only a message does.
LEMMA StepClean ==
    ASSUME TypeInv, NoReceipt, NEW p \in Process, Step(p) PROVE NoReceipt' \/ Told'
<1> USE DEF TypeInv
<1>1. CASE Inspect(p)
  <2>1. CleanCopies'
    BY <1>1, StepsAreDoings, DoesClean DEF Inspect
  <2>2. QED
    BY <1>1, <2>1 DEF Inspect, NoReceipt, Receipted, Accepted, store, batcher
<1>2. CASE RecordTerminal(p)
  <2>1. CleanCopies'
    BY <1>2, DoesClean, DoesCleanWrite DEF RecordTerminal, NoReceipt, TypeOK
  <2>2. \A w \in Wait : event'[w] # "delivered"
    BY <1>2 DEF RecordTerminal, NoReceipt
  <2>3. QED
    BY <1>2, <2>1, <2>2 DEF RecordTerminal, NoReceipt, Receipted, Accepted, batcher
<1>3. CASE Attempt(p)
  <2> DEFINE c == [sidecar EXCEPT !.by = Me(p), !.token = FreshToken]
  <2>1. c \in Sidecar /\ ~Receipted(c)
    BY FreshTokenIsFresh, MeType DEF TypeOK, Sidecar, Receipted, NoReceipt
  <2>2. UNCHANGED doing \/ Skips(p) \/ Does(p, Writing(c, TRUE))
    BY <1>3 DEF Attempt
  <2>3. CleanCopies'
    BY <2>1, <2>2, CleanNothing, SkipsClean, DoesCleanWrite
  <2>4. QED
    BY <1>3, <2>3 DEF Attempt, NoReceipt, Receipted, Accepted, store, batcher
<1>4. CASE Write(p)
  <2>1. ~Receipted(sidecar')
    BY <1>4 DEF Write, NoReceipt, CleanCopies, Copying
  <2>2. CleanCopies'
    BY <1>4, DoesClean DEF Write
  <2>3. (\A q \in Process : ~Accepted(q))'
    BY <1>4, EnqueueClean DEF Write, NoReceipt, Accepted
  <2>4. QED
    BY <1>4, <2>1, <2>2, <2>3 DEF Write, NoReceipt, Receipted, store
<1>5. CASE Route(p)
  <2>1. sidecar.proofs = {}
    BY DEF NoReceipt, Receipted
  <2>2. /\ Does(p, None)
        /\ \A w \in Wait : event'[w] # "delivered"
        /\ UNCHANGED slot \/ Enqueue(p, Notification(p, doing[p].wait, 0))
    BY <1>5, <2>1 DEF Route, NoReceipt, TypeOK
  <2>3. CleanCopies' /\ (\A q \in Process : ~Accepted(q))'
    BY <2>2, DoesClean, EnqueueClean DEF NoReceipt, Accepted
  <2>4. QED
    BY <1>5, <2>2, <2>3 DEF Route, NoReceipt, Receipted
<1>6. ASSUME NEW w \in Wait, ClaimOutbox(p, w) PROVE NoReceipt'
  <2>1. CleanCopies'
    BY <1>6, StepsAreDoings, DoesClean DEF ClaimOutbox
  <2>2. QED
    BY <1>6, <2>1 DEF ClaimOutbox, NoReceipt, TypeOK, Receipted, Accepted, batcher
<1>7. CASE Flush(p)
  <2>1. slot[p] \in Closure /\ slot[p].what \in What
    BY <1>7 DEF Flush, TypeOK, Closure
  <2>2. CASE Shows(p, slot[p].what)
    <3>1. heard'[p][slot[p].what] > 0
      BY <2>1, <2>2 DEF Shows, TypeOK
    <3>2. QED
      BY <2>1, <3>1 DEF Told
  <2>3. CASE ~Shows(p, slot[p].what)
    <3>1. /\ \/ Defer(p, slot[p]) /\ slot' = [slot EXCEPT ![p] = None]
             \/ UNCHANGED <<event, doing>> /\ slot' = [slot EXCEPT ![p].stage = "refused"]
          /\ UNCHANGED <<sidecar, handed>>
      BY <1>7, <2>3 DEF Flush, NoReceipt
    <3>2. (\A q \in Process : ~Accepted(q))'
      <4>1. CASE slot' = [slot EXCEPT ![p] = None]
        BY <4>1 DEF Accepted, NoReceipt, TypeOK
      <4>2. CASE slot' = [slot EXCEPT ![p] = [slot[p] EXCEPT !.stage = "refused"]]
        <5>1. slot'[p].stage = "refused"
          BY <2>1, <4>2 DEF Closure, TypeOK
        <5>2. \A q \in Process \ {p} : slot'[q] = slot[q]
          BY <4>2 DEF TypeOK
        <5>3. QED
          BY <5>1, <5>2 DEF Accepted, NoReceipt
      <4>3. QED
        BY <3>1, <4>1, <4>2
    <3>3. \A w \in Wait : event'[w] # "delivered"
      <4>1. \/ UNCHANGED event
            \/ event' = [event EXCEPT ![slot[p].what] = "pending"]
        BY <3>1 DEF Defer
      <4>2. event \in [Wait -> {"absent", "pending", "claimed", "delivered", "closed"}]
        BY DEF TypeOK
      <4>3. QED
        BY <4>1, <4>2 DEF NoReceipt
    <3>4. UNCHANGED doing \/ Skips(p) \/ Does(p, Writing(Unclaimed(sidecar), FALSE))
      BY <3>1 DEF Defer
    <3>5. CleanCopies'
      BY <3>4, CleanNothing, SkipsClean, DoesCleanWrite, UnclaimedClean DEF NoReceipt, TypeOK
    <3>6. QED
      BY <3>1, <3>2, <3>3, <3>5 DEF NoReceipt, Receipted
  <2>4. QED
    BY <2>2, <2>3
<1>8. ~Landed(p)
  BY DEF Landed, NoReceipt, Accepted
<1>9. CASE Refused(p)
  <2>1. (\A q \in Process : ~Accepted(q))'
    BY <1>9 DEF Refused, NoReceipt, Accepted, TypeOK, Closure
  <2>2. QED
    BY <1>9, <2>1, CleanNothing DEF Refused, NoReceipt, Receipted, store
<1>10. CASE Recover(p)
  <2>1. CleanCopies'
    BY <1>10, DoesClean, DoesCleanWrite, UnclaimedClean DEF Recover, NoReceipt, TypeOK
  <2>2. \A w \in Wait : event'[w] # "delivered"
    BY <1>10 DEF Recover, NoReceipt
  <2>3. QED
    BY <1>10, <2>1, <2>2 DEF Recover, NoReceipt, Receipted, Accepted, batcher
<1>11. QED
  BY <1>1, <1>2, <1>3, <1>4, <1>5, <1>6, <1>7, <1>8, <1>9, <1>10 DEF Step

LEMMA EnvironmentClean ==
    ASSUME TypeInv, NoReceipt, NEW p \in Process, Environment(p) PROVE NoReceipt'
<1> USE DEF TypeInv
<1>1. CASE Close(p)
  BY <1>1, CleanNothing DEF Close, NoReceipt, Receipted, Accepted, TypeOK, store
<1>2. CASE Navigate(p)
  <2>1. CleanCopies'
    BY <1>2, StepsAreDoings, DoesClean DEF Navigate
  <2>2. QED
    BY <1>2, <2>1 DEF Navigate, NoReceipt, Receipted, Accepted, store, batcher
<1>3. CASE Crash(p)
  <2>1. CleanCopies'
    BY <1>3, DoesClean DEF Crash, Does
  <2>2. QED
    BY <1>3, <2>1 DEF Crash, NoReceipt, Receipted, Accepted, TypeOK, store
<1>4. CASE Status(p)
  BY <1>4, CleanNothing DEF Status, NoReceipt, Receipted, Accepted, store, batcher
<1>5. CASE Dismiss(p)
  <2>1. CleanCopies'
    BY <1>5, DoesCleanWrite DEF Dismiss, NoReceipt, TypeOK
  <2>2. QED
    BY <1>5, <2>1 DEF Dismiss, NoReceipt, Receipted, Accepted, store, batcher
<1>6. ASSUME NEW v \in Views, Start(p, v) PROVE NoReceipt'
  <2>1. CleanCopies'
    BY <1>6, StepsAreDoings, DoesClean DEF Start
  <2>2. QED
    BY <1>6, <2>1 DEF Start, NoReceipt, Receipted, Accepted, store, batcher
<1>7. ASSUME NEW w \in Wait, RegisterWait(p, w) \/ EndWait(p, w) PROVE NoReceipt'
  <2>1. \A x \in Wait : event'[x] # "delivered"
    BY <1>7 DEF RegisterWait, EndWait, NoReceipt, TypeOK
  <2>2. UNCHANGED <<sidecar, doing, batcher>>
    BY <1>7 DEF RegisterWait, EndWait
  <2>3. QED
    BY <2>1, <2>2, CleanNothing DEF NoReceipt, Receipted, Accepted, batcher
<1>8. QED
  BY <1>1, <1>2, <1>3, <1>4, <1>5, <1>6, <1>7 DEF Environment

LEMMA ToldStays ==
    ASSUME TypeInv, NEW p \in Process, Step(p) \/ Environment(p) PROVE Told => Told'
<1>1. UNCHANGED heard \/ (slot[p] # None /\ Shows(p, slot[p].what))
  BY DEF Step, Inspect, RecordTerminal, Attempt, Write, Route, ClaimOutbox, Flush, Landed,
         Refused, Recover, Environment, Close, Navigate, Crash, Status, Dismiss, Start,
         RegisterWait, EndWait, batcher
<1>2. CASE UNCHANGED heard
  BY <1>2 DEF Told
<1>3. CASE slot[p] # None /\ Shows(p, slot[p].what)
  <2>1. slot[p].what \in What
    BY <1>3 DEF TypeInv, TypeOK, Closure
  <2>2. heard'[p][slot[p].what] > 0
    BY <1>3, <2>1 DEF Shows, TypeInv, TypeOK
  <2>3. QED
    BY <2>1, <2>2 DEF Told
<1>4. QED
  BY <1>1, <1>2, <1>3

LEMMA NextClean == TypeInv /\ [Next]_vars /\ (Told \/ NoReceipt) => (Told \/ NoReceipt)'
<1> SUFFICES ASSUME TypeInv, [Next]_vars, Told \/ NoReceipt PROVE (Told \/ NoReceipt)'
  OBVIOUS
<1>1. CASE TaskEnds \/ UNCHANGED vars
  <2>1. UNCHANGED <<sidecar, doing, event, batcher>>
    BY <1>1 DEF TaskEnds, vars, moving, store
  <2>2. QED
    BY <2>1, CleanNothing DEF Told, NoReceipt, Receipted, Accepted, batcher
<1>2. ASSUME NEW p \in Process, Step(p) \/ Environment(p) PROVE (Told \/ NoReceipt)'
  BY <1>2, ToldStays, StepClean, EnvironmentClean
<1>3. QED
  BY <1>1, <1>2 DEF Next

LEMMA OneInvKept ==
    ASSUME OneInv, UNCHANGED heard,
           \A q \in Process : gone'[q] => ~open'[q],
           \A q \in Process : Remembers(q) => Remembers(q)'
    PROVE  OneInv'
  BY DEF OneInv, OneMessage

LEMMA EnqueueRemembers ==
    ASSUME TypeInv, NEW p \in Process, NEW c, UNCHANGED slot \/ Enqueue(p, c),
           UNCHANGED <<gone, handed>>
    PROVE  \A q \in Process : Remembers(q) => Remembers(q)'
<1>1. \A q \in Process : slot[q] # None => slot'[q] = slot[q]
  BY DEF Enqueue, TypeInv, TypeOK
<1>2. QED
  BY <1>1 DEF Remembers, Accepted

\* A process shows its message when it has shown none; it forgets none until it is gone.
LEMMA FlushOne == ASSUME TypeInv, OneInv, NEW p \in Process, Flush(p) PROVE OneInv'
<1> DEFINE x == slot[p].what
<1>1. slot[p] \in Closure /\ slot[p].stage = "queued" /\ x \in What /\ open[p] /\ ~gone[p] /\ ~Accepted(p)
  BY DEF Flush, Free, TypeInv, TypeOK, Closure, OneInv, Accepted
<1>2. UNCHANGED <<gone, open, handed>>
  BY DEF Flush, hosts
<1>3. \A q \in Process \ {p} : slot'[q] = slot[q]
  BY DEF Flush, TypeInv, TypeOK
<1>4. \A q \in Process \ {p} : Remembers(q) => Remembers(q)'
  BY <1>2, <1>3 DEF Remembers, Accepted
<1>5. CASE UNCHANGED heard
  <2>1. Remembers(p) => Remembers(p)'
    BY <1>1, <1>2 DEF Remembers
  <2>2. QED
    BY <1>2, <1>4, <1>5, <2>1, OneInvKept DEF OneInv
<1>6. CASE ~handed[p] /\ slot' = [slot EXCEPT ![p] = [slot[p] EXCEPT !.stage = "accepted"]]
           /\ Shows(p, x)
  <2>1. \A y \in What : heard[p][y] = 0
    <3>1. ~Remembers(p)
      BY <1>1, <1>6 DEF Remembers
    <3>2. ~(\E y \in What : heard[p][y] > 0)
      BY <3>1 DEF OneInv
    <3>3. heard[p] \in [What -> 0 .. 2]
      BY DEF TypeInv, TypeOK
    <3>4. QED
      BY <3>2, <3>3
  <2>2. Accepted(p)'
    <3>1. slot'[p] = [slot[p] EXCEPT !.stage = "accepted"]
      BY <1>6 DEF TypeInv, TypeOK
    <3>2. slot'[p] \in Closure /\ slot'[p].stage = "accepted"
      BY <1>1, <3>1 DEF Closure
    <3>3. QED
      BY <3>2, NoneAssumption DEF Accepted
  <2>3. \A y \in What : heard'[p][y] = IF y = x THEN 1 ELSE 0
    BY <1>1, <1>6, <2>1 DEF Shows, TypeInv, TypeOK
  <2>4. \A q \in Process \ {p} : heard'[q] = heard[q]
    BY <1>6 DEF Shows, TypeInv, TypeOK
  <2>5. OneMessage'
    BY <2>3, <2>4 DEF OneInv, OneMessage
  <2>6. \A q \in Process : (\E y \in What : heard'[q][y] > 0) => Remembers(q)'
    <3>1. Remembers(p)'
      BY <2>2 DEF Remembers
    <3>2. QED
      BY <1>4, <2>4, <3>1 DEF OneInv
  <2>7. QED
    BY <1>2, <2>5, <2>6 DEF OneInv
<1>7. QED
  BY <1>5, <1>6 DEF Flush

LEMMA StepOne == ASSUME TypeInv, OneInv, NEW p \in Process, Step(p) PROVE OneInv'
<1>1. CASE Flush(p)
  BY <1>1, FlushOne
<1>2. CASE Landed(p)
  <2>1. UNCHANGED <<gone, open, heard>> /\ handed'[p]
    BY <1>2 DEF Landed, hosts, TypeInv, TypeOK
  <2>2. \A q \in Process \ {p} : slot'[q] = slot[q] /\ handed'[q] = handed[q]
    BY <1>2 DEF Landed, TypeInv, TypeOK
  <2>3. \A q \in Process : Remembers(q) => Remembers(q)'
    BY <2>1, <2>2 DEF Remembers, Accepted
  <2>4. QED
    BY <2>1, <2>3, OneInvKept DEF OneInv
<1>3. CASE Refused(p)
  <2>1. UNCHANGED <<gone, open, heard, handed>> /\ ~Accepted(p)
    BY <1>3 DEF Refused, hosts, Accepted
  <2>2. \A q \in Process \ {p} : slot'[q] = slot[q]
    BY <1>3 DEF Refused, TypeInv, TypeOK
  <2>3. \A q \in Process : Remembers(q) => Remembers(q)'
    BY <2>1, <2>2 DEF Remembers, Accepted
  <2>4. QED
    BY <2>1, <2>3, OneInvKept DEF OneInv
<1>4. CASE ~Flush(p) /\ ~Landed(p) /\ ~Refused(p)
  <2>1. /\ UNCHANGED <<gone, open, handed, heard>>
        /\ \/ UNCHANGED slot \/ Enqueue(p, Notification(p, Callback, doing[p].copy.token))
           \/ Enqueue(p, Notification(p, doing[p].wait, 0))
    BY <1>4 DEF Step, Inspect, RecordTerminal, Attempt, Write, Route, ClaimOutbox, Recover,
                hosts, batcher
  <2>2. \A q \in Process : Remembers(q) => Remembers(q)'
    BY <2>1, EnqueueRemembers
  <2>3. QED
    BY <2>1, <2>2, OneInvKept DEF OneInv
<1>5. QED
  BY <1>1, <1>2, <1>3, <1>4

LEMMA EnvironmentOne == ASSUME TypeInv, OneInv, NEW p \in Process, Environment(p) PROVE OneInv'
<1>0. UNCHANGED <<heard, handed>>
  BY DEF Environment, Close, Navigate, Crash, Status, Dismiss, Start, RegisterWait, EndWait, batcher
<1>1. \A q \in Process : gone'[q] => ~open'[q]
  <2>1. CASE Close(p) \/ Crash(p)
    <3>1. open' = [open EXCEPT ![p] = FALSE] /\ \A q \in Process \ {p} : gone'[q] = gone[q]
      BY <2>1 DEF Close, Crash, TypeInv, TypeOK
    <3>2. \A q \in Process : gone[q] => ~open[q]
      BY DEF OneInv
    <3>3. open \in [Process -> BOOLEAN]
      BY DEF TypeInv, TypeOK
    <3>4. QED
      BY <3>1, <3>2, <3>3
  <2>2. ASSUME NEW v \in Views, Start(p, v) PROVE \A q \in Process : gone'[q] => ~open'[q]
    BY <2>2 DEF Start, OneInv, TypeInv, TypeOK
  <2>3. CASE ~Close(p) /\ ~Crash(p) /\ ~ \E v \in Views : Start(p, v)
    <3>1. UNCHANGED <<gone, open>>
      BY <2>3 DEF Environment, Navigate, Status, Dismiss, RegisterWait, EndWait, hosts
    <3>2. QED
      BY <3>1 DEF OneInv
  <2>4. QED
    BY <2>1, <2>2, <2>3
<1>2. \A q \in Process \ {p} : slot'[q] = slot[q] /\ gone'[q] = gone[q]
  <2>1. CASE Close(p) \/ Crash(p)
    BY <2>1 DEF Close, Crash, TypeInv, TypeOK
  <2>2. CASE ~Close(p) /\ ~Crash(p)
    BY <2>2 DEF Environment, Navigate, Status, Dismiss, Start, RegisterWait, EndWait, hosts, batcher
  <2>3. QED
    BY <2>1, <2>2
<1>3. (Accepted(p) => slot'[p] = slot[p] \/ gone'[p]) /\ (gone[p] => gone'[p])
  <2>1. CASE Close(p)
    BY <2>1 DEF Close, TypeInv, TypeOK, Accepted
  <2>2. CASE Crash(p)
    BY <2>2 DEF Crash, TypeInv, TypeOK
  <2>3. CASE ~Close(p) /\ ~Crash(p)
    BY <2>3 DEF Environment, Navigate, Status, Dismiss, Start, RegisterWait, EndWait, hosts, batcher
  <2>4. QED
    BY <2>1, <2>2, <2>3
<1>4. \A q \in Process : Remembers(q) => Remembers(q)'
  BY <1>0, <1>2, <1>3 DEF Remembers, Accepted
<1>5. QED
  BY <1>0, <1>1, <1>4, OneInvKept

LEMMA NextOne == TypeInv /\ OneInv /\ [Next]_vars => OneInv'
<1> SUFFICES ASSUME TypeInv, OneInv, [Next]_vars PROVE OneInv'
  OBVIOUS
<1>1. CASE TaskEnds \/ UNCHANGED vars
  <2>1. UNCHANGED <<hosts, batcher>>
    BY <1>1 DEF TaskEnds, vars, moving
  <2>2. QED
    BY <2>1, OneInvKept DEF OneInv, Remembers, Accepted, hosts, batcher
<1>2. CASE \E p \in Process : Step(p) \/ Environment(p)
  BY <1>2, StepOne, EnvironmentOne
<1>3. QED
  BY <1>1, <1>2 DEF Next

\* The receipts and the messages agree for any number of processes, waits and openings.
THEOREM MessagesStayTrue == Spec => []MessagesAreTrue
<1> DEFINE Inv == TypeInv /\ (Told \/ NoReceipt) /\ OneInv
<1>1. Init => Inv
  <2> SUFFICES ASSUME Init PROVE Inv
    OBVIOUS
  <2>1. NoReceipt
    BY DEF Init, NoReceipt, Receipted, CleanCopies, Copying, Accepted
  <2>2. OneInv
    BY DEF Init, OneInv, OneMessage
  <2>3. QED
    BY <2>1, <2>2, InitTypeInv
<1>2. Inv /\ [Next]_vars => Inv'
  BY NextTypeInv, NextClean, NextOne
<1>3. Inv => MessagesAreTrue
  BY DEF MessagesAreTrue, ReceiptsAreTrue, NoReceipt, Receipted, OneInv
<1>4. QED
  BY <1>1, <1>2, <1>3, PTL DEF Spec

-----------------------------------------------------------------------------
(* Stranded claims *)

Recovering(p) == doing[p] # None /\ doing[p].step = "recover"

ClaimInv ==
    /\ NoStrandedClaim
    /\ \A w \in Wait : event[w] = "claimed" => eventBy[w] # None

\* A step that makes no claim, opens no host and does not end a recovery strands none.
LEMMA NothingClaimed ==
    ASSUME ClaimInv, UNCHANGED host,
           \A q \in Process : open'[q] /\ ~Recovering(q)' => open[q] /\ ~Recovering(q),
           \A w \in Wait : event'[w] = "claimed" => event[w] = "claimed" /\ eventBy'[w] = eventBy[w]
    PROVE  ClaimInv'
  BY DEF ClaimInv, NoStrandedClaim, Recovering, Me

LEMMA RecoversOnly ==
    ASSUME TypeInv, NEW p \in Process, NEW d, Does(p, d), ~Recovering(p), UNCHANGED open
    PROVE  \A q \in Process : open'[q] /\ ~Recovering(q)' => open[q] /\ ~Recovering(q)
  BY DEF TypeInv, TypeOK, Does, Recovering

LEMMA RecoverStrandsNone == ASSUME TypeInv, ClaimInv, NEW p \in Process, Recover(p) PROVE ClaimInv'
<1>1. UNCHANGED <<gone, open, host>>
  BY DEF Recover, hosts
<1>2. \A w \in Wait :
         event'[w] = "claimed" =>
             event[w] = "claimed" /\ eventBy'[w] = eventBy[w] /\ ~Dead(eventBy[w], p)
  BY DEF Recover
<1>3. \A w \in Wait : event'[w] = "claimed" => eventBy[w] # None /\ eventBy[w] \in Host
  BY <1>2 DEF ClaimInv, TypeInv, TypeOK
<1>4. \A w \in Wait : event'[w] = "claimed" /\ eventBy'[w].process = p => eventBy'[w] = Me(p)
  BY <1>2, <1>3 DEF Dead, Me, Host
<1>5. \A q \in Process \ {p} : doing'[q] = doing[q]
  BY DEF Recover, Does, TypeInv, TypeOK
<1>6. QED
  BY <1>1, <1>2, <1>3, <1>4, <1>5 DEF ClaimInv, NoStrandedClaim, Me

LEMMA ClaimOutboxStrandsNone ==
    ASSUME TypeInv, ClaimInv, NEW p \in Process, NEW w \in Wait, ClaimOutbox(p, w) PROVE ClaimInv'
<1>1. UNCHANGED <<open, host>> /\ ~Recovering(p)
  BY DEF ClaimOutbox, hosts, Free, Recovering
<1>2. /\ eventBy'[w] = Me(p) /\ Me(p).process = p /\ Me(p) # None
      /\ \A v \in Wait \ {w} : event'[v] = event[v] /\ eventBy'[v] = eventBy[v]
  BY MeType DEF ClaimOutbox, TypeInv, TypeOK, Me
<1>3. \A q \in Process : open'[q] /\ ~Recovering(q)' => open[q] /\ ~Recovering(q)
  BY <1>1, RecoversOnly DEF ClaimOutbox
<1>4. QED
  BY <1>1, <1>2, <1>3 DEF ClaimInv, NoStrandedClaim, Recovering, Me

\* Receipts and returned claims leave the other events as they are.
LEMMA ReturnsClaims ==
    ASSUME TypeInv, NEW p \in Process, NEW c, Delivered(p, c) \/ Defer(p, c)
    PROVE  \A w \in Wait : event'[w] = "claimed" => event[w] = "claimed" /\ eventBy'[w] = eventBy[w]
<1>1. CASE Delivered(p, c)
  BY <1>1 DEF Delivered, TypeInv, TypeOK
<1>2. CASE Defer(p, c)
  BY <1>2 DEF Defer, TypeInv, TypeOK
<1>3. QED
  BY <1>1, <1>2

LEMMA StepStrandsNone == ASSUME TypeInv, ClaimInv, NEW p \in Process, Step(p) PROVE ClaimInv'
<1>1. CASE Recover(p)
  BY <1>1, RecoverStrandsNone
<1>2. ASSUME NEW w \in Wait, ClaimOutbox(p, w) PROVE ClaimInv'
  BY <1>2, ClaimOutboxStrandsNone
<1>3. CASE ~Recover(p) /\ ~ \E w \in Wait : ClaimOutbox(p, w)
  <2>1. UNCHANGED <<open, host>> /\ ~Recovering(p)
    BY <1>3 DEF Step, Inspect, RecordTerminal, Attempt, Write, Route, Flush, Landed, Refused,
                hosts, Free, Recovering
  <2>2. UNCHANGED doing \/ \E d : Does(p, d)
    BY <1>3 DEF Step, Inspect, RecordTerminal, Attempt, Write, Route, Flush, Landed, Refused,
                Delivered, Defer, Skips, Does
  <2>3. \A q \in Process : open'[q] /\ ~Recovering(q)' => open[q] /\ ~Recovering(q)
    BY <2>1, <2>2, RecoversOnly DEF Recovering
  <2>4. \A w \in Wait : event'[w] = "claimed" => event[w] = "claimed" /\ eventBy'[w] = eventBy[w]
    <3>1. CASE Inspect(p) \/ Attempt(p) \/ Write(p) \/ Refused(p)
      BY <3>1 DEF Inspect, Attempt, Write, Refused, store
    <3>2. CASE RecordTerminal(p)
      BY <3>2 DEF RecordTerminal
    <3>3. CASE Route(p)
      BY <3>3 DEF Route, TypeInv, TypeOK
    <3>4. CASE Flush(p) \/ Landed(p)
      BY <3>4, ReturnsClaims DEF Flush, Landed
    <3>5. QED
      BY <1>3, <3>1, <3>2, <3>3, <3>4 DEF Step
  <2>5. QED
    BY <2>1, <2>3, <2>4, NothingClaimed
<1>4. QED
  BY <1>1, <1>2, <1>3

LEMMA StartStrandsNone ==
    ASSUME TypeInv, ClaimInv, NEW p \in Process, NEW v \in Views, Start(p, v) \/ Navigate(p)
    PROVE  ClaimInv'
<1>1. Recovering(p)'
  BY StepsAreDoings, NoneAssumption DEF Start, Navigate, Does, Recovering, TypeInv, TypeOK
<1>2. \A q \in Process \ {p} :
         open'[q] = open[q] /\ host'[q] = host[q] /\ doing'[q] = doing[q]
  BY DEF Start, Navigate, Does, TypeInv, TypeOK
<1>3. UNCHANGED <<event, eventBy>>
  BY DEF Start, Navigate, store
<1>4. QED
  BY <1>1, <1>2, <1>3 DEF ClaimInv, NoStrandedClaim, Recovering, Me

LEMMA EnvironmentStrandsNone ==
    ASSUME TypeInv, ClaimInv, NEW p \in Process, Environment(p) PROVE ClaimInv'
<1>1. ASSUME NEW v \in Views, Start(p, v) \/ Navigate(p) PROVE ClaimInv'
  BY <1>1, StartStrandsNone
<1>2. CASE Close(p) \/ Crash(p)
  <2>1. UNCHANGED <<host, event, eventBy>> /\ ~open'[p]
    BY <1>2 DEF Close, Crash, store, TypeInv, TypeOK
  <2>2. \A q \in Process \ {p} : open'[q] = open[q] /\ doing'[q] = doing[q]
    BY <1>2 DEF Close, Crash, TypeInv, TypeOK
  <2>3. QED
    BY <2>1, <2>2, NothingClaimed DEF Recovering
<1>3. CASE Status(p) \/ Dismiss(p)
  <2>1. /\ UNCHANGED <<open, host, event, eventBy>> /\ ~Recovering(p)
        /\ UNCHANGED doing \/ \E d : Does(p, d)
    BY <1>3 DEF Status, Dismiss, store, hosts, Free, Recovering
  <2>2. QED
    BY <2>1, RecoversOnly, NothingClaimed DEF Recovering
<1>4. ASSUME NEW w \in Wait, RegisterWait(p, w) \/ EndWait(p, w) PROVE ClaimInv'
  <2>1. UNCHANGED <<open, host, doing>>
    BY <1>4 DEF RegisterWait, EndWait, hosts
  <2>2. \A x \in Wait : event'[x] = "claimed" => event[x] = "claimed" /\ eventBy'[x] = eventBy[x]
    BY <1>4 DEF RegisterWait, EndWait, TypeInv, TypeOK
  <2>3. QED
    BY <2>1, <2>2, NothingClaimed DEF Recovering
<1>5. QED
  BY <1>1, <1>2, <1>3, <1>4 DEF Environment, Views

LEMMA NextStrandsNone == TypeInv /\ ClaimInv /\ [Next]_vars => ClaimInv'
<1> SUFFICES ASSUME TypeInv, ClaimInv, [Next]_vars PROVE ClaimInv'
  OBVIOUS
<1>1. CASE TaskEnds \/ UNCHANGED vars
  <2>1. UNCHANGED <<open, host, doing, event, eventBy>>
    BY <1>1 DEF TaskEnds, vars, moving, store, hosts
  <2>2. QED
    BY <2>1, NothingClaimed DEF Recovering
<1>2. CASE \E p \in Process : Step(p) \/ Environment(p)
  BY <1>2, StepStrandsNone, EnvironmentStrandsNone
<1>3. QED
  BY <1>1, <1>2 DEF Next

\* No event stays with an earlier instance of a process once the process has recovered.
THEOREM NoClaimIsStranded == Spec => []NoStrandedClaim
<1>1. Init => ClaimInv
  BY DEF Init, ClaimInv, NoStrandedClaim
<1>2. Spec => [](TypeInv /\ ClaimInv)
  BY <1>1, InitTypeInv, NextTypeInv, NextStrandsNone, PTL DEF Spec
<1>3. ClaimInv => NoStrandedClaim
  BY DEF ClaimInv
<1>4. QED
  BY <1>2, <1>3, PTL
================================================================================
