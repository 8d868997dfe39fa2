--------------------------- MODULE CallbackBatcher ---------------------------
(***************************************************************************)
(* The queue of packages/callback-batcher between completions (of subagent *)
(* runs and background tasks) and the conversation in the foreground.  One *)
(* batcher serves both extensions of a process and outlives sessions.      *)
(*                                                                         *)
(* A flush runs without interruption up to the hand-over to the host and   *)
(* awaits it; everything else interleaves with the wait.  The host decides *)
(* when it is called whether it takes the message; the promise tells later.*)
(* A producer's callbacks are its durable receipt, and the owner check that*)
(* suppresses a completion of another session.                             *)
(*                                                                         *)
(* trouble stands for a phase in which receipts cannot be read or written, *)
(* the host refuses messages and the availability check throws.            *)
(***************************************************************************)
EXTENDS Naturals

CONSTANTS
    Event,       \* notifications of the producers
    Urgent,      \* those of them that bypass the queue
    KeyOf,       \* completionKey and eventKey: what counts as one notification
    Session,
    OwnerOf,     \* the session an event is meant for
    Tool,        \* tool calls of a run
    None

Ordinary == Event \ Urgent
Keys(E) == {KeyOf[e] : e \in E}

ASSUME EventsAssumption ==
    /\ Urgent \subseteq Event
    /\ DOMAIN KeyOf = Event
    /\ OwnerOf \in [Event -> Session]
    /\ \A e \in Ordinary, u \in Urgent : KeyOf[e] # KeyOf[u]

VARIABLES
    pending,       \* the queue
    flight,        \* the batch being handed over, and what did not fit into it
    urgentFlight,  \* urgent events being handed over
    handed,        \* handedOff: keys of the messages the host accepted
    timer,         \* a flush is scheduled
    awaitingRun,   \* a hand-over asked for a run that has not been seen
    whileBusy, foreground, tools,
    boundary,      \* a toolEnded call waits for the flight
    session, run,  \* the host: active session, state of its agent
    receipt,       \* what the producers recorded
    told,          \* keys the conversation was told about
    trouble

Hand == [mode : {"followUp", "steer"}, batch : SUBSET Ordinary, rest : SUBSET Ordinary,
         taken : BOOLEAN]

ASSUME NoneAssumption == None \notin Session \cup Hand \cup {"followUp", "steer"}

queue == <<pending, flight, timer, awaitingRun>>
tooling == <<whileBusy, foreground, tools, boundary>>
host == <<session, run, trouble>>
records == <<handed, receipt, told>>
vars == <<queue, urgentFlight, tooling, host, records>>

InFlight == IF flight = None THEN {} ELSE flight.batch \cup flight.rest
Idle == run \in {"idle", "requested"}

Init ==
    /\ pending = {} /\ flight = None /\ urgentFlight = {} /\ handed = {}
    /\ timer = FALSE /\ awaitingRun = FALSE
    /\ whileBusy = "hold" /\ foreground = FALSE /\ tools = {} /\ boundary = FALSE
    /\ session = None /\ run = "idle"
    /\ receipt = [e \in Event |-> "none"]
    /\ told = {}
    /\ trouble = TRUE

-----------------------------------------------------------------------------
(* deliveryMode and schedule *)

\* mutant: an idle host is always handed the next batch
ModeUngated(ts) ==
    IF session = None THEN None
    ELSE IF Idle THEN "followUp"
    ELSE IF whileBusy = "steer" /\ foreground /\ ts = {} THEN "steer" ELSE None

Mode(ts) ==
    IF session = None THEN None
    ELSE IF Idle THEN IF awaitingRun THEN None ELSE "followUp"
    ELSE IF whileBusy = "steer" /\ foreground /\ ts = {} THEN "steer" ELSE None

\* deliveryMode sees a busy host: the run that was awaited has begun.
Awaited == awaitingRun /\ (session = None \/ Idle)

\* schedule after cancelTimer, with queue p.
Rearm(p) ==
    /\ timer' = (p # {})
    /\ awaitingRun' = IF p = {} THEN awaitingRun ELSE Awaited

\* schedule while an earlier timer may be running.
Schedule(p) ==
    /\ timer' = (timer \/ p # {})
    /\ awaitingRun' = IF timer \/ p = {} THEN awaitingRun ELSE Awaited

\* The events of E whose receipt cannot be read or written now.
Failing(E) == IF trouble THEN SUBSET E ELSE {{}}

-----------------------------------------------------------------------------
(* The queue *)

\* enqueue: one notification of a key, queued or in flight; the rest is dropped.
Enqueue(e) ==
    /\ receipt[e] = "none"
    /\ KeyOf[e] \notin Keys(pending \cup InFlight)
    /\ pending' = pending \cup {e}
    /\ Schedule(pending')
    /\ UNCHANGED <<flight, urgentFlight, tooling, host, records>>

\* No mode, or a check of availability that throws: try again later.
Hold ==
    /\ timer' = (pending # {})
    /\ awaitingRun' \in {Awaited} \cup (IF trouble THEN {awaitingRun} ELSE {})
    /\ UNCHANGED <<pending, flight, run, records>>

\* mutant: a batch may show no completion at all
SomeOf(E) == SUBSET E

\* packCallbackBatch: the rows that fit into the budget, one at least.
Represented(E) == (SUBSET E) \ {{}}

\* host.sendMessage with a batch of the deliverable events.
HandOver(deliverable, mode) ==
    \E batch \in Represented(deliverable), taken \in (IF trouble THEN BOOLEAN ELSE {TRUE}) :
        /\ flight' = [mode |-> mode, batch |-> batch, rest |-> deliverable \ batch,
                      taken |-> taken]
        /\ timer' = FALSE
        /\ awaitingRun' = (mode = "followUp")
        /\ told' = IF taken THEN told \cup Keys(batch) ELSE told
        /\ run' = IF taken /\ mode = "followUp" THEN "requested" ELSE run
        /\ UNCHANGED handed

\* performFlush up to its await: receipts that were handed over before, then the
\* owner check, then the rest in one message.
Deliver(mode) ==
    LET repeated == {e \in pending : KeyOf[e] \in handed}
        foreign == {e \in pending \ repeated : receipt[e] = "none" /\ OwnerOf[e] # session}
        own == {e \in pending \ repeated : receipt[e] = "none" /\ OwnerOf[e] = session}
    IN  \E failing \in Failing(pending) : \E unsaid \in Failing(foreign) :
            /\ pending' = failing
            /\ receipt' = [e \in Event |->
                  IF receipt[e] # "none" \/ e \in failing \cup unsaid THEN receipt[e]
                  ELSE IF e \in repeated THEN "delivered"
                  ELSE IF e \in foreign THEN "suppressed"
                  ELSE receipt[e]]
            /\ IF own \subseteq failing
               THEN Rearm(failing) /\ UNCHANGED <<flight, run, handed, told>>
               ELSE HandOver(own \ failing, mode)

Flush(ts) ==
    \/ Mode(ts) # None /\ Deliver(Mode(ts))
    \/ (Mode(ts) = None \/ trouble) /\ Hold

\* The timer while a flight is awaited joins it.
TimerFires ==
    /\ timer
    /\ IF flight = None THEN Flush(tools)
       ELSE timer' = FALSE /\ UNCHANGED <<pending, flight, awaitingRun, run, records>>
    /\ UNCHANGED <<urgentFlight, tooling, session, trouble>>

\* mutant: rows that did not fit are receipted with the batch
LandedWhole ==
    /\ flight # None /\ flight.taken
    /\ \E failing \in Failing(flight.batch) :
          /\ receipt' = [e \in Event |->
                IF e \in InFlight \ failing /\ receipt[e] = "none" THEN "delivered"
                ELSE receipt[e]]
          /\ pending' = pending \cup failing
    /\ handed' = handed \cup Keys(flight.batch)
    /\ flight' = None
    /\ Schedule(pending')
    /\ UNCHANGED <<urgentFlight, tooling, host, told>>

\* mutant: what was handed over is not remembered when its receipt fails
LandedForgetting ==
    /\ flight # None /\ flight.taken
    /\ \E failing \in Failing(flight.batch) :
          /\ receipt' = [e \in Event |->
                IF e \in flight.batch \ failing /\ receipt[e] = "none" THEN "delivered"
                ELSE receipt[e]]
          /\ pending' = pending \cup failing \cup flight.rest
          /\ handed' = handed \cup Keys(flight.batch \ failing)
    /\ flight' = None
    /\ Schedule(pending')
    /\ UNCHANGED <<urgentFlight, tooling, host, told>>

\* The hand-over was accepted: receipts for the rows shown, the rest queues again.
Landed ==
    /\ flight # None /\ flight.taken
    /\ \E failing \in Failing(flight.batch) :
          /\ receipt' = [e \in Event |->
                IF e \in flight.batch \ failing /\ receipt[e] = "none" THEN "delivered"
                ELSE receipt[e]]
          /\ pending' = pending \cup failing \cup flight.rest
    /\ handed' = handed \cup Keys(flight.batch)
    /\ flight' = None
    /\ Schedule(pending')
    /\ UNCHANGED <<urgentFlight, tooling, host, told>>

\* mutants: no retry is scheduled; the run that was not started is awaited
RefusedForGood ==
    /\ flight # None /\ ~flight.taken
    /\ pending' = pending \cup InFlight
    /\ flight' = None
    /\ awaitingRun' = FALSE
    /\ UNCHANGED <<timer, urgentFlight, tooling, host, records>>

RefusedAwaiting ==
    /\ flight # None /\ ~flight.taken
    /\ pending' = pending \cup InFlight
    /\ flight' = None
    /\ timer' = TRUE
    /\ UNCHANGED <<awaitingRun, urgentFlight, tooling, host, records>>

\* The hand-over failed: everything queues again, also after a cancel.
Refused ==
    /\ flight # None /\ ~flight.taken
    /\ pending' = pending \cup InFlight
    /\ flight' = None
    /\ timer' = TRUE
    /\ awaitingRun' = FALSE
    /\ UNCHANGED <<urgentFlight, tooling, host, records>>

-----------------------------------------------------------------------------
(* deliverUrgent: at once, in any mode *)

DeliverUrgent(u) ==
    /\ u \notin urgentFlight
    /\ IF KeyOf[u] \in handed
       THEN /\ \E failing \in Failing({u}) :
                  receipt' = IF receipt[u] = "none" /\ failing = {}
                             THEN [receipt EXCEPT ![u] = "delivered"] ELSE receipt
            /\ UNCHANGED urgentFlight
       ELSE /\ receipt[u] = "none"
            /\ IF OwnerOf[u] # session
               THEN /\ \E failing \in Failing({u}) :
                         receipt' = IF failing = {} THEN [receipt EXCEPT ![u] = "suppressed"]
                                    ELSE receipt
                    /\ UNCHANGED urgentFlight
               ELSE urgentFlight' = urgentFlight \cup {u} /\ UNCHANGED receipt
    /\ UNCHANGED <<queue, tooling, host, handed, told>>

UrgentLanded(u) ==
    /\ u \in urgentFlight
    /\ urgentFlight' = urgentFlight \ {u}
    /\ handed' = handed \cup {KeyOf[u]}
    /\ told' = told \cup {KeyOf[u]}
    /\ \E failing \in Failing({u}) :
          receipt' = IF receipt[u] = "none" /\ failing = {}
                     THEN [receipt EXCEPT ![u] = "delivered"] ELSE receipt
    /\ UNCHANGED <<queue, tooling, host>>

UrgentRefused(u) ==
    /\ trouble
    /\ u \in urgentFlight
    /\ urgentFlight' = urgentFlight \ {u}
    /\ UNCHANGED <<queue, tooling, host, records>>

-----------------------------------------------------------------------------
(* Tools and settings *)

ToolStarted(t) ==
    /\ run = "running"
    /\ t \notin tools
    /\ tools' = tools \cup {t}
    /\ UNCHANGED <<queue, urgentFlight, whileBusy, foreground, boundary, host, records>>

\* The last tool of a steered run: flush here, or after the flight.
ToolEnded(t) ==
    /\ t \in tools
    /\ tools' = tools \ {t}
    /\ LET steers == tools' = {} /\ whileBusy = "steer" /\ session # None
       IN  /\ boundary' = (boundary \/ (steers /\ flight # None))
           /\ IF steers /\ flight = None /\ pending # {}
              THEN Flush(tools')
              ELSE UNCHANGED <<queue, run, records>>
    /\ UNCHANGED <<urgentFlight, whileBusy, foreground, session, trouble>>

\* toolEnded goes on after the flight it waited for.
BoundaryFlush ==
    /\ boundary
    /\ flight = None
    /\ boundary' = FALSE
    /\ IF pending # {} THEN Flush(tools) ELSE UNCHANGED <<queue, run, records>>
    /\ UNCHANGED <<urgentFlight, whileBusy, foreground, tools, session, trouble>>

SetWhileBusy(mode) ==
    /\ session # None
    /\ whileBusy' = mode
    /\ Rearm(pending)
    /\ UNCHANGED <<pending, flight, urgentFlight, foreground, tools, boundary, host, records>>

-----------------------------------------------------------------------------
(* The host and the producers *)

\* agent_start: setAvailability sees a busy host; then setForegroundRunning.
StartRun ==
    /\ session # None
    /\ Idle
    /\ run' = "running"
    /\ foreground' = TRUE
    /\ awaitingRun' = FALSE
    /\ timer' = (pending # {})
    /\ UNCHANGED <<pending, flight, urgentFlight, whileBusy, tools, boundary, session, trouble,
                   records>>

\* agent_end
EndRun ==
    /\ run = "running"
    /\ run' = "ending"
    /\ foreground' = FALSE
    /\ Rearm(pending)
    /\ UNCHANGED <<pending, flight, urgentFlight, whileBusy, tools, boundary, session, trouble,
                   records>>

\* agent_settled
SettleRun ==
    /\ run = "ending"
    /\ run' = "idle"
    /\ timer' = (pending # {})
    /\ UNCHANGED <<pending, flight, awaitingRun, urgentFlight, tooling, session, trouble, records>>

\* A manual compaction: the host is busy, and no event says so.
Compact ==
    /\ session # None
    /\ \/ run = "idle" /\ run' = "compacting"
       \/ run = "compacting" /\ run' = "idle"
    /\ UNCHANGED <<queue, urgentFlight, tooling, session, trouble, records>>

\* session_before_switch and session_shutdown: cancelCallbackBatch.
LeaveSession ==
    /\ session # None
    /\ session' = None /\ run' = "idle"
    /\ pending' = {} /\ timer' = FALSE /\ awaitingRun' = FALSE
    /\ tools' = {} /\ foreground' = FALSE
    /\ UNCHANGED <<flight, urgentFlight, whileBusy, boundary, trouble, records>>

\* session_start: setCallbackBatchContext with the settings of the session.
EnterSession(s, mode) ==
    /\ session = None
    /\ session' = s
    /\ whileBusy' = mode
    /\ timer' = (pending # {})
    /\ UNCHANGED <<pending, flight, awaitingRun, urgentFlight, foreground, tools, boundary, run,
                   trouble, records>>

\* The producer settles an event by itself: its result was read, its task stopped.
SuppressEvent(e) ==
    /\ receipt[e] = "none"
    /\ receipt' = [receipt EXCEPT ![e] = "suppressed"]
    /\ UNCHANGED <<queue, urgentFlight, tooling, host, handed, told>>

TroubleEnds ==
    /\ trouble' = FALSE
    /\ UNCHANGED <<queue, urgentFlight, tooling, session, run, records>>

-----------------------------------------------------------------------------

HandOverEnds == Landed \/ Refused

Next ==
    \/ \E e \in Ordinary : Enqueue(e)
    \/ TimerFires \/ HandOverEnds \/ BoundaryFlush
    \/ \E u \in Urgent : DeliverUrgent(u) \/ UrgentLanded(u) \/ UrgentRefused(u)
    \/ \E t \in Tool : ToolStarted(t) \/ ToolEnded(t)
    \/ \E mode \in {"hold", "steer"} :
          SetWhileBusy(mode) \/ \E s \in Session : EnterSession(s, mode)
    \/ StartRun \/ EndRun \/ SettleRun \/ Compact \/ LeaveSession
    \/ \E e \in Event : SuppressEvent(e)
    \/ TroubleEnds

Spec == Init /\ [][Next]_vars

\* Timers fire and promises settle; a requested run starts and a run ends; the
\* host is idle, or steerable, through a flush window now and then; receipts
\* and the host recover in the end.
FairSpec ==
    /\ Spec
    /\ WF_vars(TimerFires) /\ WF_vars(HandOverEnds)
    /\ SF_vars(TimerFires /\ flight = None /\ Mode(tools) # None)
    /\ WF_vars(run = "requested" /\ StartRun) /\ WF_vars(EndRun) /\ WF_vars(SettleRun)
    /\ WF_vars(run = "compacting" /\ Compact)
    /\ WF_vars(TroubleEnds)

-----------------------------------------------------------------------------

\* Queue, flight and host stay in their ranges; a batch shows a completion.
TypeOK ==
    /\ pending \subseteq Ordinary
    /\ flight \in Hand \cup {None}
    /\ flight # None => flight.batch # {}
    /\ urgentFlight \subseteq Urgent
    /\ handed \subseteq Keys(Event) /\ told \subseteq Keys(Event)
    /\ timer \in BOOLEAN /\ awaitingRun \in BOOLEAN /\ trouble \in BOOLEAN
    /\ whileBusy \in {"hold", "steer"} /\ foreground \in BOOLEAN
    /\ tools \subseteq Tool /\ boundary \in BOOLEAN
    /\ session \in Session \cup {None}
    /\ run \in {"idle", "requested", "running", "ending", "compacting"}
    /\ receipt \in [Event -> {"none", "delivered", "suppressed"}]

\* This step hands a batch over and the host takes it.
Tells == flight' # flight /\ flight' # None /\ flight'.taken

\* A conversation is told of a completion once: not twice in a message because a
\* second notification came beside a flight that was refused, and not again after
\* a failed receipt or a cancelled session (completionKey, handedOff).
ToldOnce ==
    [][Tells => /\ Keys(flight'.batch) \cap told = {}
                /\ \A e, f \in flight'.batch : KeyOf[e] = KeyOf[f] => e = f]_vars

\* A producer only records a delivery of what the host accepted: not of rows that
\* did not fit, nor of a message that was refused (packCallbackBatch, performFlush).
ReceiptIsTold == \A e \in Event : receipt[e] = "delivered" => KeyOf[e] \in told

\* An idle host that accepted a message and has not started its run gets no other
\* one ("Permit no second handoff until a run starts").
OneRequest == [][Tells /\ flight'.mode = "followUp" => run # "requested"]_vars

\* The queue never strands: while something is pending, a timer runs or a flight
\* is awaited, whichever way the last flush ended (schedule).
PendingIsScheduled == pending # {} => timer \/ flight # None

\* What is queued is told or settled in the end, while its session is the active
\* one: through refusals, failed receipts, busy phases and session switches.
QueuedIsSettled ==
    \A e \in Ordinary : e \in pending ~> (receipt[e] # "none" \/ session # OwnerOf[e])
=============================================================================
