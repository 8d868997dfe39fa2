------------------------ MODULE CallbackBatcherProofs ------------------------
(* Proofs about CallbackBatcher, for any events, sessions and tools. *)
EXTENDS CallbackBatcher, TLAPS

\* One event of each key is queued or in flight.
OneOfAKey ==
    \A e, f \in pending \cup InFlight : KeyOf[e] = KeyOf[f] => e = f

\* What the batcher remembers of its hand-overs, and what the host was told.
HandedIsTold ==
    told = handed \cup (IF flight # None /\ flight.taken THEN Keys(flight.batch) ELSE {})

\* A run that was requested is awaited, and no refusal can end the wait.
RequestIsAwaited ==
    run = "requested" => awaitingRun /\ (flight # None => flight.taken)

QueueInv == OneOfAKey /\ HandedIsTold /\ RequestIsAwaited /\ PendingIsScheduled /\ ReceiptIsTold

LEMMA KeysIn == \A E \in SUBSET Event : Keys(E) \subseteq Keys(Event)
  BY DEF Keys

LEMMA NoneIsOther == None \notin Hand /\ None # "followUp" /\ None # "steer"
  BY NoneAssumption

LEMMA FailingIn == \A E : \A F \in Failing(E) : F \subseteq E
  BY DEF Failing

(* A flush, whoever starts it. *)

LEMMA FlushKeepsTypes ==
  ASSUME NEW ts, TypeOK, flight = None, Flush(ts)
  PROVE  /\ pending' \subseteq Ordinary
         /\ flight' \in Hand \cup {None}
         /\ flight' # None => flight'.batch # {}
         /\ handed' \subseteq Keys(Event) /\ told' \subseteq Keys(Event)
         /\ timer' \in BOOLEAN /\ awaitingRun' \in BOOLEAN
         /\ run' \in {"idle", "requested", "running", "ending", "compacting"}
         /\ receipt' \in [Event -> {"none", "delivered", "suppressed"}]
<1>1. CASE Hold
  BY <1>1 DEF Hold, TypeOK, records, Awaited, Idle
<1>2. CASE Mode(ts) # None /\ Deliver(Mode(ts))
  <2>1. Mode(ts) \in {"followUp", "steer"}
    BY <1>2 DEF Mode
  <2>2. PICK failing \in Failing(pending) :
            /\ pending' = failing
            /\ receipt' \in [Event -> {"none", "delivered", "suppressed"}]
            /\ \/ Rearm(failing) /\ UNCHANGED <<flight, run, handed, told>>
               \/ \E own \in SUBSET pending : HandOver(own, Mode(ts))
    BY <1>2 DEF Deliver, TypeOK
  <2>3. pending' \subseteq Ordinary
    BY <2>2, FailingIn DEF TypeOK
  <2>4. CASE Rearm(failing) /\ UNCHANGED <<flight, run, handed, told>>
    BY <2>2, <2>3, <2>4 DEF Rearm, Awaited, Idle, TypeOK
  <2>5. CASE \E own \in SUBSET pending : HandOver(own, Mode(ts))
    <3>1. PICK own \in SUBSET pending : HandOver(own, Mode(ts))
      BY <2>5
    <3>2. PICK batch \in Represented(own), taken \in BOOLEAN :
              /\ flight' = [mode |-> Mode(ts), batch |-> batch, rest |-> own \ batch,
                            taken |-> taken]
              /\ timer' = FALSE
              /\ awaitingRun' = (Mode(ts) = "followUp")
              /\ told' = IF taken THEN told \cup Keys(batch) ELSE told
              /\ run' = IF taken /\ Mode(ts) = "followUp" THEN "requested" ELSE run
              /\ UNCHANGED handed
      BY <3>1 DEF HandOver
    <3>3. batch \subseteq Ordinary /\ own \subseteq Ordinary /\ batch # {}
      BY <3>2 DEF Represented, TypeOK
    <3>4. Keys(batch) \subseteq Keys(Event)
      BY <3>3, KeysIn DEF Ordinary
    <3>5. flight' \in Hand
      BY <2>1, <3>2, <3>3 DEF Hand
    <3> QED BY <2>2, <2>3, <3>2, <3>3, <3>4, <3>5 DEF TypeOK
  <2> QED BY <2>2, <2>4, <2>5
<1> QED BY <1>1, <1>2 DEF Flush

LEMMA FlushKeepsQueue ==
  ASSUME NEW ts, TypeOK, QueueInv, flight = None, Flush(ts)
  PROVE  /\ OneOfAKey' /\ HandedIsTold' /\ PendingIsScheduled'
         /\ \A e \in Event : receipt'[e] = "delivered" => KeyOf[e] \in told'
         /\ run' = "requested" => awaitingRun' /\ (flight' # None => flight'.taken)
<1>0. InFlight = {} /\ told = handed
  BY DEF InFlight, QueueInv, HandedIsTold
<1>1. CASE Hold
  <2>1. UNCHANGED <<pending, flight, run, records>> /\ timer' = (pending # {})
    BY <1>1 DEF Hold
  <2>2. run = "requested" => awaitingRun'
    BY <1>1 DEF Hold, Awaited, Idle, QueueInv, RequestIsAwaited
  <2> QED
    BY <2>1, <2>2 DEF records, QueueInv, OneOfAKey, InFlight, HandedIsTold, PendingIsScheduled,
                      ReceiptIsTold
<1>2. CASE Mode(ts) # None /\ Deliver(Mode(ts))
  <2>1. PICK failing \in Failing(pending), own \in SUBSET pending :
            /\ pending' = failing
            /\ \A e \in Event : receipt'[e] = "delivered" =>
                   receipt[e] = "delivered" \/ KeyOf[e] \in handed
            /\ \/ Rearm(failing) /\ UNCHANGED <<flight, run, handed, told>>
               \/ HandOver(own \ failing, Mode(ts))
    BY <1>2 DEF Deliver, TypeOK
  <2>2. failing \subseteq pending
    BY <2>1, FailingIn
  <2>3. told \subseteq told'
    BY <2>1 DEF HandOver
  <2>4. \A e \in Event : receipt'[e] = "delivered" => KeyOf[e] \in told'
    BY <1>0, <2>1, <2>3 DEF QueueInv, ReceiptIsTold
  <2>5. CASE Rearm(failing) /\ UNCHANGED <<flight, run, handed, told>>
    <3>1. run = "requested" => awaitingRun'
      BY <2>5 DEF Rearm, Awaited, Idle, QueueInv, RequestIsAwaited
    <3> QED
      BY <1>0, <2>1, <2>2, <2>4, <2>5, <3>1 DEF Rearm, QueueInv, OneOfAKey, InFlight, HandedIsTold,
                                      PendingIsScheduled
  <2>6. CASE HandOver(own \ failing, Mode(ts))
    <3>1. PICK batch \in Represented(own \ failing), taken \in BOOLEAN :
              /\ flight' = [mode |-> Mode(ts), batch |-> batch,
                            rest |-> (own \ failing) \ batch, taken |-> taken]
              /\ awaitingRun' = (Mode(ts) = "followUp")
              /\ told' = IF taken THEN told \cup Keys(batch) ELSE told
              /\ run' = IF taken /\ Mode(ts) = "followUp" THEN "requested" ELSE run
              /\ UNCHANGED handed
      BY <2>6 DEF HandOver
    <3>2. flight' # None
      <4>1. Mode(ts) \in {"followUp", "steer"}
        BY <1>2 DEF Mode
      <4>2. flight' \in Hand
        BY <2>1, <3>1, <4>1 DEF Hand, Represented, TypeOK
      <4> QED BY <4>2, NoneIsOther
    <3>3. (pending \cup InFlight)' \subseteq pending
      BY <2>1, <2>2, <3>1, <3>2 DEF InFlight, Represented
    <3>4. OneOfAKey'
      BY <3>3 DEF OneOfAKey, QueueInv
    <3>5. HandedIsTold' /\ PendingIsScheduled'
      BY <1>0, <3>1, <3>2 DEF HandedIsTold, PendingIsScheduled, Keys
    <3>6. run = "requested" => Mode(ts) # "followUp" /\ Mode(ts) = None
      BY NoneIsOther DEF Mode, Idle, QueueInv, RequestIsAwaited
    <3>7. run' = "requested" => awaitingRun' /\ flight'.taken
      BY <1>2, <3>1, <3>6
    <3> QED BY <2>4, <3>4, <3>5, <3>7
  <2> QED BY <2>1, <2>5, <2>6
<1> QED BY <1>1, <1>2 DEF Flush

(* Every step. *)

LEMMA NextTypeOK == TypeOK /\ [Next]_vars => TypeOK'
<1> SUFFICES ASSUME TypeOK, [Next]_vars PROVE TypeOK'
  OBVIOUS
<1> USE DEF TypeOK
<1>1. CASE UNCHANGED vars
  BY <1>1 DEF vars, queue, tooling, host, records
<1>2. ASSUME NEW e \in Ordinary, Enqueue(e) PROVE TypeOK'
  BY <1>2 DEF Enqueue, Schedule, Awaited, Idle, tooling, host, records
<1>3. CASE TimerFires
  <2>1. CASE flight = None
    BY <1>3, <2>1, FlushKeepsTypes DEF TimerFires, tooling
  <2>2. CASE flight # None
    BY <1>3, <2>2 DEF TimerFires, tooling, records
  <2> QED BY <2>1, <2>2
<1>4. CASE Landed
  <2>1. Keys(flight.batch) \subseteq Keys(Event)
    BY <1>4, KeysIn DEF Landed, Hand, Ordinary
  <2>2. PICK failing \in Failing(flight.batch) :
            pending' = pending \cup failing \cup flight.rest
    BY <1>4 DEF Landed
  <2>3. pending' \subseteq Ordinary
    BY <1>4, <2>2, FailingIn DEF Landed, Hand
  <2>4. receipt' \in [Event -> {"none", "delivered", "suppressed"}]
    BY <1>4 DEF Landed
  <2> QED BY <1>4, <2>1, <2>3, <2>4 DEF Landed, Schedule, Awaited, Idle, tooling, host
<1>5. CASE Refused
  BY <1>5 DEF Refused, InFlight, Hand, tooling, host, records
<1>6. CASE BoundaryFlush
  <2>1. CASE pending = {}
    BY <1>6, <2>1 DEF BoundaryFlush, queue, records
  <2>2. CASE pending # {}
    BY <1>6, <2>2, FlushKeepsTypes DEF BoundaryFlush
  <2> QED BY <2>1, <2>2
<1>7. ASSUME NEW u \in Urgent, DeliverUrgent(u) \/ UrgentLanded(u) \/ UrgentRefused(u)
      PROVE  TypeOK'
  <2>1. u \in Event /\ KeyOf[u] \in Keys(Event)
    BY EventsAssumption DEF Keys
  <2>2. CASE DeliverUrgent(u)
    BY <2>1, <2>2 DEF DeliverUrgent, queue, tooling, host
  <2>3. CASE UrgentLanded(u)
    BY <2>1, <2>3 DEF UrgentLanded, queue, tooling, host
  <2>4. CASE UrgentRefused(u)
    BY <2>4 DEF UrgentRefused, queue, tooling, host, records
  <2> QED BY <1>7, <2>2, <2>3, <2>4
<1>8. ASSUME NEW t \in Tool, ToolStarted(t) PROVE TypeOK'
  BY <1>8 DEF ToolStarted, queue, host, records
<1>9. ASSUME NEW t \in Tool, ToolEnded(t) PROVE TypeOK'
  <2>1. CASE flight = None /\ Flush(tools')
    BY <1>9, <2>1, FlushKeepsTypes DEF ToolEnded
  <2>2. CASE UNCHANGED <<queue, run, records>>
    BY <1>9, <2>2 DEF ToolEnded, queue, records
  <2> QED BY <1>9, <2>1, <2>2 DEF ToolEnded
<1>10. ASSUME NEW mode \in {"hold", "steer"}, SetWhileBusy(mode) PROVE TypeOK'
  BY <1>10 DEF SetWhileBusy, Rearm, Awaited, Idle, host, records
<1>11. ASSUME NEW mode \in {"hold", "steer"}, NEW s \in Session, EnterSession(s, mode)
       PROVE  TypeOK'
  BY <1>11 DEF EnterSession, records
<1>12. CASE StartRun \/ EndRun \/ SettleRun
  BY <1>12 DEF StartRun, EndRun, SettleRun, Rearm, Awaited, Idle, tooling, records
<1>13. CASE Compact \/ LeaveSession \/ TroubleEnds
  <2>1. CASE Compact
    BY <2>1 DEF Compact, queue, tooling, records
  <2>2. CASE LeaveSession
    BY <2>2 DEF LeaveSession, records
  <2>3. CASE TroubleEnds
    BY <2>3 DEF TroubleEnds, queue, tooling, records
  <2>4. QED
    BY <1>13, <2>1, <2>2, <2>3
<1>14. ASSUME NEW e \in Event, SuppressEvent(e) PROVE TypeOK'
  BY <1>14 DEF SuppressEvent, queue, tooling, host
<1> QED
  BY <1>1, <1>2, <1>3, <1>4, <1>5, <1>6, <1>7, <1>8, <1>9, <1>10, <1>11, <1>12, <1>13, <1>14
  DEF Next, HandOverEnds

LEMMA InitTypeOK == Init => TypeOK
  BY DEF Init, TypeOK

\* Queue, flight, receipts and host stay in their ranges, and no message is empty
\* (performFlush, packCallbackBatch).
THEOREM TypeCorrect == Spec => []TypeOK
<1> QED BY InitTypeOK, NextTypeOK, PTL DEF Spec

LEMMA InitQueueInv == Init => QueueInv
  BY DEF Init, QueueInv, OneOfAKey, InFlight, HandedIsTold, RequestIsAwaited, PendingIsScheduled,
         ReceiptIsTold

\* A step that leaves the queue and the flight alone, and only adds receipts of what was told.
LEMMA QueueUntouched ==
  ASSUME QueueInv, UNCHANGED <<pending, flight, timer>>,
         \E K : told' = told \cup K /\ handed' = handed \cup K,
         run' = "requested" => run = "requested" /\ awaitingRun' = awaitingRun,
         \A e \in Event : receipt'[e] = "delivered" =>
             receipt[e] = "delivered" \/ KeyOf[e] \in told'
  PROVE  QueueInv'
<1>1. OneOfAKey' /\ HandedIsTold' /\ PendingIsScheduled'
  BY DEF QueueInv, OneOfAKey, InFlight, HandedIsTold, PendingIsScheduled
<1>2. RequestIsAwaited'
  BY DEF QueueInv, RequestIsAwaited
<1>3. ReceiptIsTold'
  BY DEF QueueInv, ReceiptIsTold
<1> QED BY <1>1, <1>2, <1>3 DEF QueueInv

LEMMA NextQueueInv == TypeOK /\ QueueInv /\ [Next]_vars => QueueInv'
<1> SUFFICES ASSUME TypeOK, QueueInv, [Next]_vars PROVE QueueInv'
  OBVIOUS
<1>0. UNCHANGED records => \E K : told' = told \cup K /\ handed' = handed \cup K
  <2>1. UNCHANGED records => told' = told \cup {} /\ handed' = handed \cup {}
    BY DEF records
  <2> QED BY <2>1
<1>1. CASE UNCHANGED vars
  BY <1>0, <1>1, QueueUntouched DEF vars, queue, host, records, QueueInv, ReceiptIsTold
<1>2. ASSUME NEW e \in Ordinary, Enqueue(e) PROVE QueueInv'
  <2>1. OneOfAKey'
    BY <1>2 DEF Enqueue, QueueInv, OneOfAKey, InFlight, Keys
  <2>2. HandedIsTold' /\ ReceiptIsTold' /\ PendingIsScheduled'
    BY <1>2 DEF Enqueue, Schedule, records, QueueInv, HandedIsTold, ReceiptIsTold,
                PendingIsScheduled, Keys
  <2>3. RequestIsAwaited'
    BY <1>2 DEF Enqueue, Schedule, Awaited, Idle, host, QueueInv, RequestIsAwaited
  <2> QED BY <2>1, <2>2, <2>3 DEF QueueInv
<1>3. CASE TimerFires
  <2>1. CASE flight = None
    BY <1>3, <2>1, FlushKeepsQueue DEF TimerFires, QueueInv, RequestIsAwaited, ReceiptIsTold
  <2>2. CASE flight # None
    BY <1>3, <2>2 DEF TimerFires, records, QueueInv, OneOfAKey, InFlight, HandedIsTold,
                      RequestIsAwaited, PendingIsScheduled, ReceiptIsTold
  <2> QED BY <2>1, <2>2
<1>4. CASE Landed
  <2>1. PICK failing \in Failing(flight.batch) :
            /\ pending' = pending \cup failing \cup flight.rest
            /\ \A e \in Event : receipt'[e] = "delivered" =>
                   receipt[e] = "delivered" \/ e \in flight.batch
    BY <1>4 DEF Landed, TypeOK
  <2>2. pending' \subseteq pending \cup InFlight /\ flight' = None
    BY <1>4, <2>1, FailingIn DEF Landed, InFlight
  <2>3. OneOfAKey'
    BY <2>2 DEF QueueInv, OneOfAKey, InFlight
  <2>4. HandedIsTold' /\ PendingIsScheduled'
    BY <1>4 DEF Landed, Schedule, QueueInv, HandedIsTold, PendingIsScheduled
  <2>5. \A e \in flight.batch : KeyOf[e] \in told'
    BY <1>4 DEF Landed, QueueInv, HandedIsTold, Keys
  <2>6. ReceiptIsTold'
    BY <1>4, <2>1, <2>5 DEF Landed, QueueInv, ReceiptIsTold
  <2>7. RequestIsAwaited'
    BY <1>4 DEF Landed, Schedule, Awaited, Idle, host, QueueInv, RequestIsAwaited
  <2> QED BY <2>3, <2>4, <2>6, <2>7 DEF QueueInv
<1>5. CASE Refused
  BY <1>5 DEF Refused, InFlight, host, records, QueueInv, OneOfAKey, HandedIsTold,
              RequestIsAwaited, PendingIsScheduled, ReceiptIsTold
<1>6. CASE BoundaryFlush
  <2>1. CASE pending = {}
    BY <1>0, <1>6, <2>1, QueueUntouched DEF BoundaryFlush, queue, records, QueueInv, ReceiptIsTold
  <2>2. CASE pending # {}
    BY <1>6, <2>2, FlushKeepsQueue DEF BoundaryFlush, QueueInv, RequestIsAwaited, ReceiptIsTold
  <2> QED BY <2>1, <2>2
<1>7. ASSUME NEW u \in Urgent, DeliverUrgent(u) \/ UrgentRefused(u)
      PROVE  QueueInv'
  <2>1. told' = told \cup {} /\ handed' = handed \cup {}
    BY <1>7 DEF DeliverUrgent, UrgentRefused, records
  <2>2. \A e \in Event : receipt'[e] = "delivered" =>
            receipt[e] = "delivered" \/ KeyOf[e] \in told'
    BY <1>7 DEF DeliverUrgent, UrgentRefused, records, TypeOK, QueueInv, HandedIsTold
  <2> QED BY <1>7, <2>1, <2>2, QueueUntouched DEF DeliverUrgent, UrgentRefused, queue, host
<1>8. ASSUME NEW u \in Urgent, UrgentLanded(u) PROVE QueueInv'
  <2>1. \A e \in Event : receipt'[e] = "delivered" =>
            receipt[e] = "delivered" \/ KeyOf[e] \in told'
    BY <1>8 DEF UrgentLanded, TypeOK
  <2> QED BY <1>8, <2>1, QueueUntouched DEF UrgentLanded, queue, host
<1>9. ASSUME NEW t \in Tool, ToolStarted(t) PROVE QueueInv'
  BY <1>0, <1>9, QueueUntouched DEF ToolStarted, queue, host, records, QueueInv, ReceiptIsTold
<1>10. ASSUME NEW t \in Tool, ToolEnded(t) PROVE QueueInv'
  <2>1. CASE flight = None /\ Flush(tools')
    BY <2>1, FlushKeepsQueue DEF QueueInv, RequestIsAwaited, ReceiptIsTold
  <2>2. CASE UNCHANGED <<queue, run, records>>
    BY <1>0, <2>2, QueueUntouched DEF queue, records, QueueInv, ReceiptIsTold
  <2> QED BY <1>10, <2>1, <2>2 DEF ToolEnded
<1>11. CASE \/ \E mode \in {"hold", "steer"} :
               SetWhileBusy(mode) \/ \E s \in Session : EnterSession(s, mode)
            \/ StartRun \/ EndRun \/ SettleRun \/ LeaveSession
  <2>1. /\ pending' \in {pending, {}} /\ UNCHANGED <<flight, records>>
        /\ timer' = (pending' # {})
    BY <1>11 DEF SetWhileBusy, EnterSession, StartRun, EndRun, SettleRun, LeaveSession, Rearm
  <2>2. run' = "requested" => run = "requested" /\ (awaitingRun => awaitingRun')
    BY <1>11 DEF SetWhileBusy, EnterSession, StartRun, EndRun, SettleRun, LeaveSession, Rearm,
                 Awaited, Idle, host
  <2> QED BY <2>1, <2>2 DEF records, QueueInv, OneOfAKey, InFlight, HandedIsTold,
                            RequestIsAwaited, PendingIsScheduled, ReceiptIsTold
<1>12. CASE Compact \/ TroubleEnds
  BY <1>0, <1>12, QueueUntouched DEF Compact, TroubleEnds, queue, records, QueueInv, ReceiptIsTold
<1>13. ASSUME NEW e \in Event, SuppressEvent(e) PROVE QueueInv'
  <2>1. told' = told \cup {} /\ handed' = handed \cup {}
    BY <1>13 DEF SuppressEvent
  <2>2. \A f \in Event : receipt'[f] = "delivered" => receipt[f] = "delivered"
    BY <1>13 DEF SuppressEvent, TypeOK
  <2> QED BY <1>13, <2>1, <2>2, QueueUntouched DEF SuppressEvent, queue, host
<1> QED
  BY <1>1, <1>2, <1>3, <1>4, <1>5, <1>6, <1>7, <1>8, <1>9, <1>10, <1>11, <1>12, <1>13
  DEF Next, HandOverEnds

THEOREM InductiveInvariant == Spec => [](TypeOK /\ QueueInv)
<1> QED BY InitTypeOK, InitQueueInv, NextTypeOK, NextQueueInv, PTL DEF Spec

\* A durable receipt is a proof of a hand-over, for any number of completions.
THEOREM ReceiptsAreTold == Spec => []ReceiptIsTold
<1>1. QueueInv => ReceiptIsTold
  BY DEF QueueInv
<1> QED BY <1>1, InductiveInvariant, PTL

\* No way out of a flush leaves completions behind without a timer (schedule).
THEOREM QueueIsScheduled == Spec => []PendingIsScheduled
<1>1. QueueInv => PendingIsScheduled
  BY DEF QueueInv
<1> QED BY <1>1, InductiveInvariant, PTL

LEMMA OnlyFlushTells == [Next]_vars /\ Tells => flight = None /\ \E ts : Flush(ts)
<1> SUFFICES ASSUME [Next]_vars, Tells PROVE flight = None /\ \E ts : Flush(ts)
  OBVIOUS
<1> USE DEF Tells
<1>1. CASE UNCHANGED vars
  BY <1>1 DEF vars, queue
<1>2. CASE TimerFires
  BY <1>2 DEF TimerFires
<1>3. CASE BoundaryFlush
  BY <1>3 DEF BoundaryFlush, queue
<1>4. ASSUME NEW t \in Tool, ToolEnded(t) PROVE flight = None /\ \E ts : Flush(ts)
  BY <1>4 DEF ToolEnded, queue
<1>5. CASE \/ \E e \in Ordinary : Enqueue(e)
           \/ HandOverEnds
           \/ \E u \in Urgent : DeliverUrgent(u) \/ UrgentLanded(u) \/ UrgentRefused(u)
           \/ \E t \in Tool : ToolStarted(t)
           \/ \E mode \in {"hold", "steer"} :
                 SetWhileBusy(mode) \/ \E s \in Session : EnterSession(s, mode)
           \/ StartRun \/ EndRun \/ SettleRun \/ Compact \/ LeaveSession
           \/ \E e \in Event : SuppressEvent(e)
           \/ TroubleEnds
  BY <1>5 DEF Enqueue, HandOverEnds, Landed, Refused, DeliverUrgent, UrgentLanded, UrgentRefused,
              ToolStarted, SetWhileBusy, EnterSession, StartRun, EndRun, SettleRun, Compact,
              LeaveSession, SuppressEvent, TroubleEnds, queue
<1> QED BY <1>1, <1>2, <1>3, <1>4, <1>5 DEF Next

LEMMA TellingFlush ==
  ASSUME QueueInv, flight = None, NEW ts, Flush(ts), Tells
  PROVE  /\ Keys(flight'.batch) \cap told = {}
         /\ flight'.batch \subseteq pending
         /\ flight'.mode = "followUp" => run # "requested"
<1>1. Deliver(Mode(ts)) /\ told = handed
  BY DEF Flush, Hold, Tells, QueueInv, HandedIsTold
<1>2. PICK failing \in SUBSET pending :
          HandOver({e \in pending \ {f \in pending : KeyOf[f] \in handed} :
                       receipt[e] = "none" /\ OwnerOf[e] = session} \ failing, Mode(ts))
  BY <1>1, FailingIn DEF Deliver, Tells
<1>3. PICK batch \in SUBSET {e \in pending : KeyOf[e] \notin handed} :
          flight'.batch = batch /\ flight'.mode = Mode(ts)
  BY <1>2 DEF HandOver, Represented
<1>4. Mode(ts) = "followUp" => run # "requested"
  BY NoneIsOther DEF Mode, Idle, QueueInv, RequestIsAwaited
<1> QED BY <1>1, <1>3, <1>4 DEF Keys

\* However completions, refusals, failed receipts and session switches interleave,
\* no completion is shown twice, in one message or in two (completionKey, handedOff).
THEOREM CompletionsAreToldOnce == Spec => ToldOnce
<1> DEFINE Once == Tells => /\ Keys(flight'.batch) \cap told = {}
                            /\ \A e, f \in flight'.batch : KeyOf[e] = KeyOf[f] => e = f
<1>1. TypeOK /\ QueueInv /\ [Next]_vars => [Once]_vars
  BY OnlyFlushTells, TellingFlush DEF QueueInv, OneOfAKey
<1> QED BY <1>1, InductiveInvariant, PTL DEF Spec, ToldOnce

\* A host that has not started the run it was asked for is not handed a batch that
\* asks for another one (awaitingRun).
THEOREM RequestsAreSingle == Spec => OneRequest
<1> DEFINE Once == Tells /\ flight'.mode = "followUp" => run # "requested"
<1>1. TypeOK /\ QueueInv /\ [Next]_vars => [Once]_vars
  BY OnlyFlushTells, TellingFlush
<1> QED BY <1>1, InductiveInvariant, PTL DEF Spec, OneRequest
=============================================================================
