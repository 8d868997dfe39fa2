---------------------------- MODULE ParentDelivery ----------------------------
(***************************************************************************)
(* How the end of one supervised task reaches the session that launched it *)
(* (observed-waits.ts): as the stand-alone callback of the task, whose     *)
(* journal is a sidecar file, or as the outbox event of a registered wait. *)
(* Both are handed to the batcher of the process under one key.            *)
(*                                                                         *)
(* Every process that opens the store may record the end and deliver it.   *)
(* The store is transactional; the sidecar is a plain file, so its read and*)
(* the write of the changed copy are two steps to the other processes. One *)
(* process runs one thing at a time.  A host instance closes at a session  *)
(* switch, after which the same instance or a fresh one opens again.       *)
(*                                                                         *)
(* The task is owned by a session of a parent, its callback is on, and the *)
(* identity of the active session is readable.                             *)
(***************************************************************************)
EXTENDS Naturals, FiniteSets

CONSTANTS
    Process,
    Wait,        \* generations of waits of the owner on the task
    MaxOpen,     \* bound on the openings of the host in one process
    Scenarios,   \* what may happen around the hosts, see Scenario
    Callback,    \* the standalone callback, as something to deliver
    None

ASSUME ParentDeliveryAssumption ==
    /\ MaxOpen \in Nat
    /\ Callback \notin Wait
    /\ IsFiniteSet(Process)

Views == {"owner", "elsewhere", "foreign"}

\* A behaviour stays in one scenario: the processes that open a host, and how often;
\* the waits that are registered; what comes to the front of a process; whether an
\* instance may handle the next session_start itself, the foreground may refuse a
\* message, and the owner asks for the status of the task and dismisses it.
Scenario ==
    [processes : SUBSET Process, opens : 0 .. MaxOpen, waits : SUBSET Wait,
     views : SUBSET Views, reuse : BOOLEAN, refusals : BOOLEAN, tools : BOOLEAN]

ASSUME ScenarioAssumption == Scenarios \subseteq Scenario

Token == 0 .. (2 * Cardinality(Process) + 2)
Opening == 0 .. MaxOpen
What == Wait \cup {Callback}

\* An instance is named by the opening at which it was loaded.
Host == [process : Process, host : Opening]

Sidecar == [by : Host \cup {None}, token : Token, delivered : BOOLEAN, proofs : SUBSET Wait]

\* What the batcher holds: the closures of one notification.
Closure == [what : What, host : Opening, opening : Opening, token : Token,
            stage : {"queued", "refused", "accepted"}]

\* What a process is in the middle of.
Doing == [step : {"recover", "inspect"}]
    \cup [step : {"route"}, wait : Wait]
    \cup [step : {"write"}, copy : Sidecar, notify : BOOLEAN]

ASSUME NoneAssumption == None \notin Host \cup Closure \cup Doing

VARIABLES
    scenario,
    ended, recorded,       \* the supervisor's record; the terminal revision in the store
    wait,                  \* phase of each wait
    event, eventBy,        \* its outbox event and the claim of it
    sidecar,
    gone, open, opening, host, view,    \* the processes and the instance of each
    pend, noticed, doing,
    slot, handed,          \* the batcher of each process, for the key of the task
    heard                  \* messages shown by each process (0, 1, or 2 for more)

store == <<ended, recorded, wait, event, eventBy>>
hosts == <<gone, open, opening, host, view>>
batcher == <<slot, handed, heard>>
moving == <<store, sidecar, hosts, pend, noticed, doing, batcher>>
vars == <<scenario, moving>>

Init ==
    /\ scenario \in Scenarios
    /\ ended = FALSE /\ recorded = FALSE
    /\ wait = [w \in Wait |-> "absent"]
    /\ event = [w \in Wait |-> "absent"]
    /\ eventBy = [w \in Wait |-> None]
    /\ sidecar = [by |-> None, token |-> 0, delivered |-> FALSE, proofs |-> {}]
    /\ gone = [p \in Process |-> FALSE]
    /\ open = [p \in Process |-> FALSE]
    /\ opening = [p \in Process |-> 0]
    /\ host = [p \in Process |-> 0]
    /\ view = [p \in Process |-> "none"]
    /\ pend = [p \in Process |-> FALSE]
    /\ noticed = [p \in Process |-> FALSE]
    /\ doing = [p \in Process |-> None]
    /\ slot = [p \in Process |-> None]
    /\ handed = [p \in Process |-> FALSE]
    /\ heard = [p \in Process |-> [x \in What |-> 0]]

-----------------------------------------------------------------------------
(* Claims and the sidecar *)

Me(p) == [process |-> p, host |-> host[p]]

\* mutant: only processes that are gone lose their claims
DeadIfGone(claim, p) == gone[claim.process]

\* claimState "dead": an earlier instance of this process, or a process that is gone.
Dead(claim, p) ==
    \/ claim.process = p /\ claim.host # host[p]
    \/ gone[claim.process]

LiveElsewhere(claim, p) == claim # None /\ claim # Me(p) /\ ~Dead(claim, p)

\* Some wait of the owner on the task is not over: it owns the delivery.
WaitPending == \E w \in Wait : wait[w] \in {"waiting", "ready"}

\* Tokens are random: one that nothing refers to stands for a fresh one.
FreshToken ==
    LET used == {sidecar.token}
                \cup {slot[q].token : q \in {r \in Process : slot[r] # None}}
                \cup {doing[q].copy.token :
                        q \in {r \in Process : doing[r] # None /\ doing[r].step = "write"}}
    IN  CHOOSE t \in Token \ {0} : t \notin used

\* writeLaunchContext of a changed copy, still to be written, and then notifyParent.
Writing(copy, notify) == [step |-> "write", copy |-> copy, notify |-> notify]

\* mutant: the token of a claim is left behind
UnclaimedByName(copy) == [copy EXCEPT !.by = None]

Unclaimed(copy) == [copy EXCEPT !.by = None, !.token = 0]

\* p may begin something.
Free(p) == open[p] /\ doing[p] = None

Does(p, d) == doing' = [doing EXCEPT ![p] = d]

\* A diagnostic write of an unchanged copy, skipped when its text is the same.
Skips(p) == doing' \in {doing, [doing EXCEPT ![p] = Writing(sidecar, FALSE)]}

\* mutant: a key that is being delivered is queued again
AcceptAlways(p, c) == slot' = [slot EXCEPT ![p] = c]

\* enqueue: one notification of a key; the closures of another are dropped.
Enqueue(p, c) == slot' = IF slot[p] = None THEN [slot EXCEPT ![p] = c] ELSE slot

Notification(p, what, token) ==
    [what |-> what, host |-> host[p], opening |-> opening[p], token |-> token,
     stage |-> "queued"]

-----------------------------------------------------------------------------
(* The task and the waits of its owner *)

TaskEnds ==
    /\ ~ended
    /\ ended' = TRUE
    /\ UNCHANGED <<recorded, wait, event, eventBy, sidecar, hosts, pend, noticed, doing, batcher>>

\* A wait is registered on a running or on an ended task (coordinator, registerWait).
RegisterWait(p, w) ==
    /\ Free(p) /\ view[p] = "owner"
    /\ w \in scenario.waits
    /\ wait[w] = "absent" /\ ~WaitPending
    /\ wait' = [wait EXCEPT ![w] = IF recorded THEN "ready" ELSE "waiting"]
    /\ event' = [event EXCEPT ![w] = IF recorded THEN "pending" ELSE "absent"]
    /\ UNCHANGED <<ended, recorded, eventBy, sidecar, hosts, pend, noticed, doing, batcher>>

\* The owner acknowledges or cancels it: what was not delivered is closed.
EndWait(p, w) ==
    /\ Free(p) /\ view[p] = "owner"
    /\ wait[w] \in {"waiting", "ready"}
    /\ wait' = [wait EXCEPT ![w] = "over"]
    /\ event' = [event EXCEPT ![w] = IF @ = "delivered" THEN "delivered" ELSE "closed"]
    /\ eventBy' = [eventBy EXCEPT ![w] = None]
    /\ UNCHANGED <<ended, recorded, sidecar, hosts, pend, noticed, doing, batcher>>

-----------------------------------------------------------------------------
(* Reconciliation *)

\* reconcileNow lists the running operations and inspects this one: it has ended.
Inspect(p) ==
    /\ Free(p) /\ ended /\ ~recorded
    /\ Does(p, [step |-> "inspect"])
    /\ UNCHANGED <<store, sidecar, hosts, pend, noticed, batcher>>

\* recordTerminal: the store wakes the waits; the sidecar is annotated by the one
\* that recorded and by one that came late, unless it could not be inspected.
RecordTerminal(p) ==
    /\ doing[p] # None /\ doing[p].step = "inspect"
    /\ recorded' = TRUE
    /\ wait' = [w \in Wait |-> IF wait[w] = "waiting" THEN "ready" ELSE wait[w]]
    /\ event' = [w \in Wait |-> IF wait[w] = "waiting" THEN "pending" ELSE event[w]]
    /\ \/ Does(p, Writing(sidecar, FALSE))
       \/ Does(p, None)
    /\ UNCHANGED <<ended, eventBy, sidecar, hosts, pend, noticed, batcher>>

\* attemptTerminalCallback, from recovery, discovery, reconciliation and retry.
Attempt(p) ==
    /\ Free(p) /\ recorded
    /\ ~noticed[p] \/ pend[p]
    /\ noticed' = [noticed EXCEPT ![p] = TRUE]
    /\ \/ /\ LiveElsewhere(sidecar.by, p)
          /\ UNCHANGED <<pend, doing>>
       \/ /\ ~LiveElsewhere(sidecar.by, p)
          /\ sidecar.delivered \/ WaitPending
          /\ pend' = [pend EXCEPT ![p] = FALSE]
          /\ Skips(p)
       \/ /\ sidecar.by = Me(p) /\ ~sidecar.delivered /\ ~WaitPending
          /\ UNCHANGED <<pend, doing>>
       \/ /\ sidecar.by # Me(p) /\ ~LiveElsewhere(sidecar.by, p)
          /\ ~sidecar.delivered /\ ~WaitPending
          /\ pend' = [pend EXCEPT ![p] = view[p] # "foreign"]
          /\ CASE view[p] = "foreign" -> UNCHANGED doing
               [] view[p] = "elsewhere" -> Skips(p)
               [] OTHER -> Does(p, Writing([sidecar EXCEPT !.by = Me(p), !.token = FreshToken],
                                           TRUE))
    /\ UNCHANGED <<store, sidecar, hosts, batcher>>

\* status of the owner's tools is a recovery point of its own.
Status(p) ==
    /\ scenario.tools /\ Free(p) /\ view[p] \in {"owner", "elsewhere"} /\ recorded
    /\ noticed[p]
    /\ noticed' = [noticed EXCEPT ![p] = FALSE]
    /\ UNCHANGED <<store, sidecar, hosts, pend, doing, batcher>>

\* dismissDurableTask rewrites the journal of an ended task.
Dismiss(p) ==
    /\ scenario.tools /\ Free(p) /\ view[p] \in {"owner", "elsewhere"} /\ recorded
    /\ Does(p, Writing(sidecar, FALSE))
    /\ UNCHANGED <<store, sidecar, hosts, pend, noticed, batcher>>

\* The write of the copy, and notifyParent with the claim that it holds.
Write(p) ==
    /\ doing[p] # None /\ doing[p].step = "write"
    /\ sidecar' = doing[p].copy
    /\ IF doing[p].notify THEN Enqueue(p, Notification(p, Callback, doing[p].copy.token))
                          ELSE UNCHANGED slot
    /\ Does(p, None)
    /\ UNCHANGED <<store, hosts, pend, noticed, handed, heard>>

-----------------------------------------------------------------------------
(* The outbox *)

\* dispatchOutbox claims the events that are pending ...
ClaimOutbox(p, w) ==
    /\ Free(p)
    /\ event[w] = "pending"
    /\ event' = [event EXCEPT ![w] = "claimed"]
    /\ eventBy' = [eventBy EXCEPT ![w] = Me(p)]
    /\ Does(p, [step |-> "route", wait |-> w])
    /\ UNCHANGED <<ended, recorded, wait, sidecar, hosts, pend, noticed, batcher>>

\* ... and routes each: handed over already, not for this session, or to the batcher.
Route(p) ==
    /\ doing[p] # None /\ doing[p].step = "route"
    /\ LET w == doing[p].wait
           held == event[w] = "claimed" /\ eventBy[w] = Me(p)
       IN  \/ /\ w \in sidecar.proofs
              /\ event' = IF held THEN [event EXCEPT ![w] = "delivered"] ELSE event
              /\ eventBy' = IF held THEN [eventBy EXCEPT ![w] = None] ELSE eventBy
              /\ Does(p, Writing([sidecar EXCEPT !.proofs = @ \ {w}], FALSE))
              /\ UNCHANGED slot
           \/ /\ w \notin sidecar.proofs /\ view[p] # "owner"
              /\ event' = IF held THEN [event EXCEPT ![w] = "pending"] ELSE event
              /\ eventBy' = IF held THEN [eventBy EXCEPT ![w] = None] ELSE eventBy
              /\ Does(p, None)
              /\ UNCHANGED slot
           \/ /\ w \notin sidecar.proofs /\ view[p] = "owner"
              /\ Enqueue(p, Notification(p, w, 0))
              /\ Does(p, None)
              /\ UNCHANGED <<event, eventBy>>
    /\ UNCHANGED <<ended, recorded, wait, sidecar, hosts, pend, noticed, handed, heard>>

-----------------------------------------------------------------------------
(* The batcher and the closures *)

\* delivered(): the receipt of the callback if its claim is still the current one;
\* the receipt of the event, or a proof when its store has closed or lost the claim.
Delivered(p, c) ==
    IF c.what = Callback
    THEN /\ IF sidecar.token = c.token
            THEN Does(p, Writing([Unclaimed(sidecar) EXCEPT !.delivered = TRUE], FALSE))
            ELSE UNCHANGED doing
         /\ UNCHANGED <<event, eventBy>>
    ELSE IF open[p] /\ opening[p] = c.opening /\ event[c.what] = "claimed"
            /\ eventBy[c.what] = [process |-> p, host |-> c.host]
    THEN /\ event' = [event EXCEPT ![c.what] = "delivered"]
         /\ eventBy' = [eventBy EXCEPT ![c.what] = None]
         /\ UNCHANGED doing
    ELSE /\ Does(p, Writing([sidecar EXCEPT !.proofs = @ \cup {c.what}], FALSE))
         /\ UNCHANGED <<event, eventBy>>

\* mutant: what the foreground does not take is receipted as well
DeferReceipts(p, c) == Delivered(p, c) /\ UNCHANGED pend

\* defer(): the claim is given back and the callback stays pending.
Defer(p, c) ==
    /\ pend' = [pend EXCEPT ![p] = @ \/ c.host = host[p]]
    /\ IF c.what = Callback
       THEN /\ IF sidecar.token = c.token /\ ~sidecar.delivered
               THEN Does(p, Writing(Unclaimed(sidecar), FALSE))
               ELSE UNCHANGED doing
            /\ UNCHANGED <<event, eventBy>>
       ELSE LET held == open[p] /\ opening[p] = c.opening /\ event[c.what] = "claimed"
                        /\ eventBy[c.what] = [process |-> p, host |-> c.host]
            IN  /\ event' = IF held THEN [event EXCEPT ![c.what] = "pending"] ELSE event
                /\ eventBy' = IF held THEN [eventBy EXCEPT ![c.what] = None] ELSE eventBy
                /\ IF sidecar.delivered \/ LiveElsewhere(sidecar.by, p)
                   THEN UNCHANGED doing ELSE Skips(p)

\* isParentOriginActive, asked of the instance that made the notification.
OriginActive(p, c) == c.host = host[p] /\ view[p] = "owner"

\* sendMessage was accepted.
Shows(p, what) == heard' = [heard EXCEPT ![p][what] = IF @ = 0 THEN 1 ELSE 2]

\* performFlush up to its await: a key that was handed over needs no message.
Flush(p) ==
    /\ Free(p) /\ slot[p] # None /\ slot[p].stage = "queued"
    /\ \/ /\ handed[p]
          /\ Delivered(p, slot[p])
          /\ slot' = [slot EXCEPT ![p] = None]
          /\ UNCHANGED <<pend, heard>>
       \/ /\ ~handed[p] /\ ~OriginActive(p, slot[p])
          /\ Defer(p, slot[p])
          /\ slot' = [slot EXCEPT ![p] = None]
          /\ UNCHANGED heard
       \/ /\ ~handed[p] /\ OriginActive(p, slot[p])
          /\ slot' = [slot EXCEPT ![p].stage = "accepted"]
          /\ Shows(p, slot[p].what)
          /\ UNCHANGED <<event, eventBy, pend, doing>>
       \/ /\ ~handed[p] /\ OriginActive(p, slot[p]) /\ scenario.refusals
          /\ slot' = [slot EXCEPT ![p].stage = "refused"]
          /\ UNCHANGED <<event, eventBy, pend, doing, heard>>
    /\ UNCHANGED <<ended, recorded, wait, sidecar, hosts, noticed, handed>>

\* The hand-over was accepted: the key is remembered and its closure called.
Landed(p) ==
    /\ ~gone[p] /\ doing[p] = None
    /\ slot[p] # None /\ slot[p].stage = "accepted"
    /\ handed' = [handed EXCEPT ![p] = TRUE]
    /\ Delivered(p, slot[p])
    /\ slot' = [slot EXCEPT ![p] = None]
    /\ UNCHANGED <<ended, recorded, wait, sidecar, hosts, pend, noticed, heard>>

\* It was refused: the notification queues again.
Refused(p) ==
    /\ ~gone[p] /\ doing[p] = None
    /\ slot[p] # None /\ slot[p].stage = "refused"
    /\ slot' = [slot EXCEPT ![p].stage = "queued"]
    /\ UNCHANGED <<store, sidecar, hosts, pend, noticed, doing, handed, heard>>

-----------------------------------------------------------------------------
(* Sessions and processes *)

\* session_before_switch and session_shutdown: the host closes, the queue is cancelled.
Close(p) ==
    /\ Free(p)
    /\ open' = [open EXCEPT ![p] = FALSE]
    /\ view' = [view EXCEPT ![p] = "none"]
    /\ pend' = [pend EXCEPT ![p] = FALSE]
    /\ slot' = IF slot[p] # None /\ slot[p].stage = "queued"
               THEN [slot EXCEPT ![p] = None] ELSE slot
    /\ UNCHANGED <<store, sidecar, gone, opening, host, noticed, doing, handed, heard>>

\* session_start: a fresh instance after a reload, or the one that was closed.
Start(p, v) ==
    /\ ~gone[p] /\ ~open[p] /\ doing[p] = None
    /\ p \in scenario.processes /\ v \in scenario.views
    /\ opening[p] < scenario.opens
    /\ open' = [open EXCEPT ![p] = TRUE]
    /\ opening' = [opening EXCEPT ![p] = @ + 1]
    /\ host' \in {[host EXCEPT ![p] = opening[p] + 1]}
                 \cup (IF scenario.reuse /\ host[p] > 0 THEN {host} ELSE {})
    /\ view' = [view EXCEPT ![p] = v]
    /\ noticed' = [noticed EXCEPT ![p] = FALSE]
    /\ Does(p, [step |-> "recover"])
    /\ UNCHANGED <<store, sidecar, gone, pend, batcher>>

\* session_tree, noteParentContext: the session stays, its branch may change.
Navigate(p) ==
    /\ Free(p) /\ view[p] \in {"owner", "elsewhere"} /\ "elsewhere" \in scenario.views
    /\ view' = [view EXCEPT ![p] = IF @ = "owner" THEN "elsewhere" ELSE "owner"]
    /\ Does(p, [step |-> "recover"])
    /\ UNCHANGED <<store, sidecar, gone, open, opening, host, pend, noticed, batcher>>

\* mutant: the claims on events are left as they are
RecoverCallback(p) ==
    /\ doing[p] # None /\ doing[p].step = "recover"
    /\ Does(p, IF recorded /\ sidecar.by # None /\ Dead(sidecar.by, p)
               THEN Writing(Unclaimed(sidecar), FALSE) ELSE None)
    /\ UNCHANGED <<store, sidecar, hosts, pend, noticed, batcher>>

\* recoverAbandonedDeliveries: claims of hosts that are gone are given back.
Recover(p) ==
    /\ doing[p] # None /\ doing[p].step = "recover"
    /\ LET abandoned == {w \in Wait : event[w] = "claimed" /\ Dead(eventBy[w], p)}
       IN  /\ event' = [w \in Wait |-> IF w \in abandoned THEN "pending" ELSE event[w]]
           /\ eventBy' = [w \in Wait |-> IF w \in abandoned THEN None ELSE eventBy[w]]
    /\ Does(p, IF recorded /\ sidecar.by # None /\ Dead(sidecar.by, p)
               THEN Writing(Unclaimed(sidecar), FALSE) ELSE None)
    /\ UNCHANGED <<ended, recorded, wait, sidecar, hosts, pend, noticed, batcher>>

\* The process dies; what it held in memory is lost.
Crash(p) ==
    /\ ~gone[p] /\ opening[p] > 0
    /\ gone' = [gone EXCEPT ![p] = TRUE]
    /\ open' = [open EXCEPT ![p] = FALSE]
    /\ view' = [view EXCEPT ![p] = "none"]
    /\ pend' = [pend EXCEPT ![p] = FALSE]
    /\ doing' = [doing EXCEPT ![p] = None]
    /\ slot' = [slot EXCEPT ![p] = None]
    /\ UNCHANGED <<store, sidecar, opening, host, noticed, handed, heard>>

-----------------------------------------------------------------------------

Step(p) ==
    \/ Inspect(p) \/ RecordTerminal(p) \/ Attempt(p) \/ Write(p)
    \/ Route(p) \/ \E w \in Wait : ClaimOutbox(p, w)
    \/ Flush(p) \/ Landed(p) \/ Refused(p)
    \/ Recover(p)

Environment(p) ==
    \/ Close(p) \/ Navigate(p) \/ Crash(p) \/ Status(p) \/ Dismiss(p)
    \/ \E v \in Views : Start(p, v)
    \/ \E w \in Wait : RegisterWait(p, w) \/ EndWait(p, w)

Next ==
    /\ TaskEnds \/ \E p \in Process : Step(p) \/ Environment(p)
    /\ UNCHANGED scenario

Spec == Init /\ [][Next]_vars

\* The timers and promises of a process run: reconcileNow every 250 ms, the flush
\* after its window, the continuation of the hand-over, also between tool calls.
Fairness ==
    \A p \in Process :
        /\ WF_moving(Recover(p) \/ RecordTerminal(p) \/ Write(p) \/ Route(p))
        /\ SF_moving(Landed(p) \/ Refused(p)) /\ SF_moving(Flush(p))
        /\ SF_moving(Inspect(p)) /\ SF_moving(Attempt(p))

FairSpec == Spec /\ Fairness

-----------------------------------------------------------------------------
(* Properties *)

TypeOK ==
    /\ scenario \in Scenarios
    /\ {ended, recorded} \subseteq BOOLEAN
    /\ wait \in [Wait -> {"absent", "waiting", "ready", "over"}]
    /\ event \in [Wait -> {"absent", "pending", "claimed", "delivered", "closed"}]
    /\ eventBy \in [Wait -> Host \cup {None}]
    /\ sidecar \in Sidecar /\ (sidecar.by = None <=> sidecar.token = 0)
    /\ {gone, open, pend, noticed, handed} \subseteq [Process -> BOOLEAN]
    /\ opening \in [Process -> Opening] /\ host \in [Process -> Opening]
    /\ view \in [Process -> Views \cup {"none"}]
    /\ doing \in [Process -> Doing \cup {None}]
    /\ slot \in [Process -> Closure \cup {None}]
    /\ heard \in [Process -> [What -> 0 .. 2]]

Told == \E p \in Process, x \in What : heard[p][x] > 0

(* No receipt without a message: the callback, an event or a proof of a hand-over  *)
(* is recorded only when the owner was told about the task, however claims, stale   *)
(* closures, reloads and crashes interleave (completeTerminalCallback, delivered).  *)
ReceiptsAreTrue ==
    sidecar.delivered \/ sidecar.proofs # {} \/ (\E w \in Wait : event[w] = "delivered")
        => Told

(* One process shows one message about the task: the callback and the waits, the    *)
(* retries, reloads and late hand-overs between them share one key of the batcher.  *)
OneMessage ==
    \A p \in Process : \A x, y \in What :
        heard[p][x] > 0 /\ heard[p][y] > 0 => x = y /\ heard[p][x] = 1

(* The receipts and the messages agree: a receipt has its message, and a process    *)
(* shows one (completeTerminalCallback, dispatchOutbox, enqueue).                   *)
MessagesAreTrue == ReceiptsAreTrue /\ OneMessage

(* A reload strands no event: once a host has recovered, no event is claimed by an  *)
(* earlier instance of its process, though older closures may still be in flight.   *)
NoStrandedClaim ==
    \A p \in Process, w \in Wait :
        open[p] /\ (doing[p] = None \/ doing[p].step # "recover") /\ event[w] = "claimed"
            /\ eventBy[w].process = p => eventBy[w] = Me(p)

\* No other process has opened a host on the task, no wait was registered on it and
\* no message is refused.
Undisturbed(p) ==
    /\ \A q \in Process \ {p} : opening[q] = 0
    /\ \A w \in Wait : wait[w] = "absent"
    /\ ~scenario.refusals

(* The owner of an ended task is told, when its session stays in front of an instance *)
(* that is not reused: nothing that happened before, a reload during the claim or the *)
(* hand-over included, loses the notification (recoverAbandonedDeliveries).           *)
OwnerIsTold ==
    \A p \in Process :
        <>[](ended /\ open[p] /\ view[p] = "owner" /\ host[p] = opening[p] /\ Undisturbed(p))
            => <>Told

-----------------------------------------------------------------------------
(* What the code says elsewhere and does not keep: see Divergences in the README *)

\* The events that p's instance has claimed.
ClaimedBy(p) == {w \in Wait : event[w] = "claimed" /\ eventBy[w] = Me(p)}

(* The outbox comment (observed-waits.ts:3110): a callback stays claimed until the  *)
(* batcher's actual hand-over calls delivered().                                    *)
ClaimHasClosure ==
    \A p \in Process : open[p] /\ doing[p] = None =>
        \A w \in ClaimedBy(p) : slot[p] # None /\ slot[p].what = w

(* A standalone receipt is never proof for a later wait (observed-waits.ts:3052):   *)
(* the event of a wait is receipted only if the owner was told about that wait.     *)
WaitIsTold == \A w \in Wait : event[w] = "delivered" => \E p \in Process : heard[p][w] > 0

(* A registered wait carries the same information as the callback, so that the two  *)
(* paths do not double-notify (observed-waits.ts:2667): once the event of a wait was *)
(* shown and receipted, no later process of the owner shows the standalone callback. *)
NoDoubleNotify ==
    [][\A p \in Process : heard'[p][Callback] > heard[p][Callback] =>
          ~ \E q \in Process, w \in Wait :
                gone[q] /\ heard[q][w] > 0 /\ event[w] = "delivered"]_vars

(* A journal whose claim belongs to a live host is not written by another one       *)
(* (observed-waits.ts:2694): its claim is not taken away by a writer that is not it. *)
LiveClaimKept ==
    [][\A p \in Process :
          sidecar.by # None /\ LiveElsewhere(sidecar.by, p) /\ doing[p] # None
              /\ doing[p].step = "write" /\ doing'[p] = None /\ ~gone'[p]
                  => sidecar'.by = sidecar.by]_vars
=============================================================================
