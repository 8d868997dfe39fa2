------------------------------ MODULE WorkerWaits ------------------------------
(***************************************************************************)
(* The parked assignment of one worker (worker-waits.ts): a worker attempt *)
(* saves its conversation and exits to wait for an operation; when the     *)
(* operation has settled, a new attempt resumes the conversation, reads    *)
(* the result and acknowledges it.                                         *)
(*                                                                         *)
(* One generation of one wait.  The phase and the resume claim of the      *)
(* generation are in the coordinator's store; the park record is a file    *)
(* that mirrors them and that decides what the user may do.  A host is an  *)
(* instance of the extension: it closes when its session shuts down, and   *)
(* its process lives on with the exit handlers it installed.               *)
(*                                                                         *)
(* What a host does at a stretch is cut at each transaction that changes   *)
(* the store (todo holds the rest); nothing else of that host runs in      *)
(* between, but other processes do, and a crash may.  A stretch ends where *)
(* the code awaits something that takes time: in resume(), between the     *)
(* steps of job, and in checkpointWorkerWait, which delivers what is ready *)
(* before it returns (parked).  A read of the store and the update of the  *)
(* record that follows it are one step.                                    *)
(***************************************************************************)
CONSTANTS
    Host,
    Original,    \* the attempt that parks
    Resumed,     \* ids for the attempts that resume it
    Scenarios,   \* what may happen around the assignment, see Scenario
    None

ASSUME WorkerWaitsAssumption ==
    /\ Original \notin Resumed
    /\ None \notin Host \cup Resumed \cup {Original}

\* A behaviour stays in one scenario: the session that launched the attempt and those that
\* open; whether processes die, sessions shut down by a reload, a switch or a quit, and
\* the user stops runs, also before the coordinator's store is reachable.
Scenario ==
    [first : Host, sessions : SUBSET Host, crashes : BOOLEAN, closes : BOOLEAN,
     stops : BOOLEAN, unserved : BOOLEAN]

ASSUME ScenarioAssumption == Scenarios \subseteq Scenario

Attempt == Resumed \cup {Original}
Over == {"consumed", "cancelled"}
Phases == {"parking", "waiting", "ready", "resuming", "held"} \cup Over
Left == {"waiting", "ready"}    \* what the proof of the exit makes of parking
Record == [phase : Phases, by : Resumed \cup {None}]
Claim == [attempt : Resumed, published : BOOLEAN]

\* The rest of what a host is doing at a stretch.
Todo == [step : {"admit", "fail", "park", "follow"}]
    \cup [step : {"mirror"}, phase : Phases]
    \cup [step : {"settle", "publish", "register"}, attempt : Resumed]

\* resume(), between two awaits.
Job == [at : {"admit", "claim", "publish", "launch"}, attempt : Resumed \cup {None}]

ASSUME NoneAssumption == None \notin Record \cup Claim \cup Todo \cup Job \cup Left

VARIABLES
    scenario,
    phase, claim, settled,           \* the store; settled: the operation is over
    record,                          \* park.json of the original attempt
    meta, child, parent, seen,       \* the attempts, as ConversationWriters has them
    host,
    scan,                            \* the record as reconciliation listed it
    parked,                          \* what a checkpointWorkerWait that still delivers will return
    todo, job

store == <<phase, claim, settled>>
runs == <<meta, child, parent, seen>>
hosts == <<host, scan, parked>>
moving == <<store, record, runs, hosts, todo, job>>
vars == <<scenario, moving>>

Init ==
    /\ scenario \in Scenarios
    /\ phase = "none" /\ claim = None /\ settled = FALSE
    /\ record = None
    /\ meta = [a \in Attempt |-> IF a = Original THEN "running" ELSE "none"]
    /\ child = [a \in Attempt |-> IF a = Original THEN "alive" ELSE "none"]
    /\ parent = [a \in Attempt |-> IF a = Original THEN scenario.first ELSE None]
    /\ host = [h \in Host |-> IF h = scenario.first THEN "on" ELSE "off"]
    /\ seen = {}
    /\ scan = [h \in Host |-> None]
    /\ parked = [h \in Host |-> None]
    /\ todo = [h \in Host |-> None]
    /\ job = [h \in Host |-> None]

-----------------------------------------------------------------------------
Alive(a) == child[a] = "alive"
Gone(a) == child[a] \in {"clean", "failed"}

\* effectiveStatus: the record of a process that is gone is not running.
Terminal(a) == meta[a] \notin {"none", "running"} \/ Gone(a)

\* isPendingPark
Pending(r) == r # None /\ r.phase \notin Over

\* evaluateParkDisposition, for a clean exit
Parks(r) == r.phase \in {"parking", "waiting", "ready"}

Running(h) == host[h] \in {"starting", "on", "closed"}
Free(h) == Running(h) /\ todo[h] = None
Open(h) == Free(h) /\ host[h] = "on"
At(h, step) == todo[h] # None /\ todo[h].step = step

Does(h, t) == todo' = [todo EXCEPT ![h] = t]
Done(h) == Does(h, None)
Task(h, j) == job' = [job EXCEPT ![h] = j]

\* updateParkRecord, which does nothing without a record
Marked(r, p) == IF r = None THEN None ELSE [r EXCEPT !.phase = p]
Marks(p) == record' = Marked(record, p)
Mirror(h, p) == Does(h, [step |-> "mirror", phase |-> p])

\* The bridge of the host that launched a is there to answer it.
Linked(a) == Alive(a) /\ parent[a] # None /\ Open(parent[a])

-----------------------------------------------------------------------------
(* The worker and its operation *)

OperationEnds ==
    /\ ~settled /\ settled' = TRUE
    /\ phase' = IF phase = "waiting" THEN "ready" ELSE phase
    /\ UNCHANGED <<claim, record, runs, hosts, todo, job>>

\* wait_for_operations: the wait is registered, and then it is parking.
WaitAdmission ==
    /\ Linked(Original) /\ phase = "none"
    /\ phase' = "registering"
    /\ Does(parent[Original], [step |-> "admit"])
    /\ UNCHANGED <<claim, settled, record, runs, hosts, job>>

\* mutant: the record names the attempt that parks as the one that resumes
CheckpointOfOriginal ==
    /\ Linked(Original) /\ phase = "parking" /\ record = None
    /\ record' = [phase |-> "parking", by |-> Original]
    /\ UNCHANGED <<store, runs, hosts, todo, job>>

\* The saved conversation is certified and staged while its writer lives.
Checkpoint ==
    /\ Linked(Original) /\ phase = "parking" /\ record = None
    /\ record' = [phase |-> "parking", by |-> None]
    /\ UNCHANGED <<store, runs, hosts, todo, job>>

\* The worker could not certify or leave, says so, and goes on.
ParkFailed ==
    /\ Linked(Original) /\ phase = "parking"
    /\ phase' = "cancelled"
    /\ Does(parent[Original], [step |-> "follow"])
    /\ UNCHANGED <<claim, settled, record, runs, hosts, job>>

\* acknowledge_operation_result by the attempt that resumed the conversation
Acknowledge(a) ==
    /\ a # Original /\ Linked(a)
    /\ settled /\ phase \in {"waiting", "ready", "resuming", "held"}
    /\ phase' = "consumed"
    /\ Mirror(parent[a], "consumed")
    /\ UNCHANGED <<claim, settled, record, runs, hosts, job>>

ChildEnds(a) ==
    /\ Alive(a)
    /\ \E how \in {"clean", "failed"} : child' = [child EXCEPT ![a] = how]
    /\ UNCHANGED <<store, record, meta, parent, seen, hosts, todo, job>>

\* The second transaction of registerWorkerWait
Admitted(h) ==
    /\ At(h, "admit")
    /\ phase' = IF phase = "registering" THEN "parking" ELSE phase
    /\ Done(h)
    /\ UNCHANGED <<claim, settled, record, runs, hosts, job>>

-----------------------------------------------------------------------------
(* Exits *)

\* finalizeRun of a, of which only the log is known when clean is FALSE: what
\* becomes of the park record
Finalized(a, clean) ==
    IF a = Original /\ Pending(record) /\ ~(clean /\ Parks(record))
    THEN Marked(record, "held") ELSE record

\* mutant: the exit of a resumed attempt is not settled
SettlementOfOriginal(h, a, clean, r) ==
    IF r = None \/ a # Original THEN record' = r /\ UNCHANGED todo
    ELSE /\ record' = IF host[h] = "closed" THEN Marked(r, "held") ELSE r
         /\ IF host[h] = "closed" THEN UNCHANGED todo
            ELSE Does(h, [step |-> IF clean /\ Parks(r) THEN "park" ELSE "fail"])

\* The rest of the exit handler, with the record r: settleParkedExit for the
\* original attempt, settleResumedAttemptExit for the one the record names.
Settlement(h, a, clean, r) ==
    IF r = None \/ (a # Original /\ (r.by # a \/ ~Pending(r)))
    THEN record' = r /\ UNCHANGED todo
    ELSE IF host[h] = "closed"
         THEN record' = Marked(r, "held") /\ UNCHANGED todo
         ELSE /\ record' = r
              /\ Does(h, IF a # Original THEN [step |-> "settle", attempt |-> a]
                         ELSE [step |-> IF clean /\ Parks(r) THEN "park" ELSE "fail"])

\* The exit event reaches the instance that spawned the child.
Exit(h, a) ==
    LET open == meta[a] \in {"running", "lost"}
        clean == child[a] = "clean" /\ (open \/ meta[a] = "completed")
    IN  /\ Free(h) /\ parent[a] = h /\ Gone(a) /\ a \notin seen /\ meta[a] # "none"
        /\ seen' = seen \cup {a}
        /\ meta' = IF ~open THEN meta
                   ELSE [meta EXCEPT ![a] = IF clean THEN "completed" ELSE "failed"]
        /\ Settlement(h, a, clean, IF open THEN Finalized(a, clean) ELSE record)
        /\ UNCHANGED <<store, child, parent, hosts, job>>

\* recoverInterruptedSubagents and reconcileAbandonedRuns: what a session that is gone
\* left behind is read from the log, or is lost.
Recover(h, a) ==
    /\ Free(h) /\ host[h] # "closed"
    /\ meta[a] = "running" /\ Gone(a)
    /\ host[parent[a]] \in {"closed", "quit", "dead"}
    /\ \/ /\ host[parent[a]] # "dead"
          /\ \E s \in {"completed", "failed"} : meta' = [meta EXCEPT ![a] = s]
          /\ record' = Finalized(a, FALSE)
       \/ meta' = [meta EXCEPT ![a] = "lost"] /\ UNCHANGED record
    /\ UNCHANGED <<store, child, parent, seen, hosts, todo, job>>

\* checkpointWorkerWait, with the proof of the exit. A wait that leaves parking is
\* followed by an awaited delivery of all that is ready, also of other waits.
Park(h) ==
    /\ At(h, "park")
    /\ \/ /\ phase = "parking"
          /\ phase' = IF settled THEN "ready" ELSE "waiting"
          /\ parked' = [parked EXCEPT ![h] = phase']
          /\ Done(h)
       \/ /\ phase # "parking"
          /\ Mirror(h, IF phase = "cancelled" THEN "held" ELSE phase)
          /\ UNCHANGED <<phase, parked>>
    /\ UNCHANGED <<claim, settled, record, runs, host, scan, job>>

\* failWorkerPark: held if the store can hold it, else cancelled.
FailPark(h) ==
    /\ At(h, "fail")
    /\ \/ /\ phase \in {"waiting", "ready"}
          /\ phase' = "held" /\ Mirror(h, "held") /\ UNCHANGED claim
       \/ /\ phase \in {"parking", "resuming", "held"}
          /\ phase' = "cancelled" /\ claim' = None /\ Does(h, [step |-> "follow"])
       \/ /\ phase \in Over
          /\ Mirror(h, "held") /\ UNCHANGED <<phase, claim>>
    /\ UNCHANGED <<settled, record, runs, hosts, job>>

\* mutant: the store gives the generation back to be resumed again
HoldAsReady(h) ==
    LET a == todo[h].attempt
        matches == phase = "resuming" /\ claim = [attempt |-> a, published |-> TRUE]
    IN  /\ At(h, "settle")
        /\ IF matches THEN phase' = "ready" /\ claim' = None ELSE UNCHANGED <<phase, claim>>
        /\ Mirror(h, IF matches THEN "ready" ELSE IF phase \in Over THEN phase ELSE "held")
        /\ UNCHANGED <<settled, record, runs, hosts, job>>

\* holdFailedResumeForWorker; what the store refuses is held in the record alone.
HoldFailedResume(h) ==
    LET a == todo[h].attempt IN
    /\ At(h, "settle")
    /\ IF phase = "resuming" /\ claim = [attempt |-> a, published |-> TRUE]
       THEN phase' = "held" /\ claim' = None
       ELSE UNCHANGED <<phase, claim>>
    /\ Mirror(h, IF phase \in Over THEN phase ELSE "held")
    /\ UNCHANGED <<settled, record, runs, hosts, job>>

\* The phases of the record, as resume() is given it, that forbid a new attempt
Resumable(r) == r.phase \notin {"resuming", "held"}

\* resume(): capacity, owner and branch are checked here, before anything is claimed.
Begins(h, r) ==
    /\ job[h] = None /\ Resumable(r)
    /\ ~(meta[Original] = "running" /\ Alive(Original))
    /\ Task(h, [at |-> "admit", attempt |-> None])

\* The record is updated with the phase p that checkpointWorkerWait returned. The session
\* that launched the attempt resumes it if it is ready: settleParkedExit.
ParkSettled(h, p) ==
    /\ Marks(p)
    /\ \/ p = "ready" /\ parent[Original] = h /\ Begins(h, Marked(record, p))
       \/ UNCHANGED job

\* updateParkRecord with the outcome
MirrorPhase(h) ==
    /\ At(h, "mirror")
    /\ ParkSettled(h, todo[h].phase)
    /\ Done(h)
    /\ UNCHANGED <<store, runs, hosts>>

\* checkpointWorkerWait returns the wait as it was before the delivery. On a store that
\* was closed meanwhile the call fails, and the park is held in the record.
ParkReturns(h) ==
    /\ Free(h) /\ parked[h] # None
    /\ ParkSettled(h, IF host[h] = "on" THEN parked[h] ELSE "held")
    /\ parked' = [parked EXCEPT ![h] = None]
    /\ UNCHANGED <<store, runs, host, scan, todo>>

\* mutant: a cancellation is not followed to the attempt
LeavesAttempt(h) == UNCHANGED meta

\* stopPublishedAttempt: the attempt that the record names, if it is known and this
\* process spawned it
StopsAttempt(h) ==
    LET a == IF record = None THEN None ELSE record.by
        stoppable == a # None /\ record.phase # "cancelled" /\ meta[a] = "running"
    IN  \/ /\ stoppable /\ (parent[a] = h \/ host[parent[a]] = "closed")
           /\ meta' = [meta EXCEPT ![a] = "killed"]
        \/ ~(stoppable /\ parent[a] = h) /\ UNCHANGED meta

\* onWaitCancelled
FollowCancel(h) ==
    /\ At(h, "follow")
    /\ StopsAttempt(h)
    /\ Marks("cancelled")
    /\ Done(h)
    /\ UNCHANGED <<store, child, parent, seen, hosts, job>>

-----------------------------------------------------------------------------
(* resume() *)

\* hold(): in the record, and in the store where there is a service
Hold(h) ==
    /\ Marks("held")
    /\ IF host[h] = "on" THEN Does(h, [step |-> "fail"]) ELSE UNCHANGED todo
    /\ Task(h, None)

\* onWaitReady
Delivered(h) ==
    /\ Open(h) /\ phase = "ready" /\ record # None
    /\ Begins(h, record)
    /\ UNCHANGED <<store, record, runs, hosts, todo>>

\* The Goal admits or refuses; then the wait is read again.
Admit(h) ==
    /\ Open(h) /\ job[h] # None /\ job[h].at = "admit"
    /\ \/ Hold(h)
       \/ /\ phase # "ready"
          /\ Marks(phase) /\ Task(h, None) /\ UNCHANGED todo
       \/ /\ phase = "ready"
          /\ Task(h, [at |-> "claim", attempt |-> None]) /\ UNCHANGED <<record, todo>>
    /\ UNCHANGED <<store, runs, hosts>>

\* Ids are random.
Unused(a) ==
    /\ child[a] = "none"
    /\ claim # None => claim.attempt # a
    /\ record.by # a
    /\ \A h \in Host : job[h] # None => job[h].attempt # a

ClaimResume(h) ==
    /\ Free(h) /\ job[h] # None /\ job[h].at = "claim"
    /\ IF phase = "ready"
       THEN \E a \in Resumed :
              /\ Unused(a)
              /\ phase' = "resuming" /\ claim' = [attempt |-> a, published |-> FALSE]
              /\ Task(h, [at |-> "publish", attempt |-> a])
              /\ UNCHANGED <<record, todo>>
       ELSE Hold(h) /\ UNCHANGED <<phase, claim>>
    /\ UNCHANGED <<settled, runs, hosts>>

Claimed(h) == phase = "resuming" /\ claim = [attempt |-> job[h].attempt, published |-> FALSE]

PublishResume(h) ==
    /\ Free(h) /\ job[h] # None /\ job[h].at = "publish"
    /\ IF Claimed(h)
       THEN /\ claim' = [claim EXCEPT !.published = TRUE]
            /\ Does(h, [step |-> "publish", attempt |-> job[h].attempt])
            /\ Task(h, [job[h] EXCEPT !.at = "launch"])
            /\ UNCHANGED record
       ELSE Hold(h) /\ UNCHANGED claim
    /\ UNCHANGED <<phase, settled, runs, hosts>>

\* The store is busy: the claim is given back, and the wait held.
PublishFails(h) ==
    /\ Open(h) /\ job[h] # None /\ job[h].at = "publish" /\ Claimed(h)
    /\ phase' = "ready" /\ claim' = None
    /\ Hold(h)
    /\ UNCHANGED <<settled, runs, hosts>>

\* The record names the attempt before there is one.
RecordPublished(h) ==
    /\ At(h, "publish")
    /\ record' = [phase |-> "resuming", by |-> todo[h].attempt]
    /\ Done(h)
    /\ UNCHANGED <<store, runs, hosts, job>>

\* mutant: the guard at the release of the child reads no phase
GuardBlind(h) == host[h] = "on" /\ \A b \in Attempt : ~Alive(b)

\* planContinuation and the lease, and the guard that is called with the spawn
DispatchGuard(h) ==
    /\ host[h] = "on" /\ phase = "resuming"
    /\ \A b \in Attempt : ~Alive(b)

Launch(h) ==
    LET a == job[h].attempt IN
    /\ Free(h) /\ job[h] # None /\ job[h].at = "launch"
    /\ DispatchGuard(h)
    /\ child' = [child EXCEPT ![a] = "alive"]
    /\ parent' = [parent EXCEPT ![a] = h]
    /\ Does(h, [step |-> "register", attempt |-> a])
    /\ Task(h, None)
    /\ UNCHANGED <<store, record, meta, seen, hosts>>

\* writeMeta
Register(h) ==
    /\ At(h, "register")
    /\ meta' = [meta EXCEPT ![todo[h].attempt] = "running"]
    /\ Done(h)
    /\ UNCHANGED <<store, record, child, parent, seen, hosts, job>>

\* A fence before the spawn refuses. The published claim stays.
LaunchFails(h) ==
    /\ Free(h) /\ job[h] # None /\ job[h].at = "launch"
    /\ Marks("held") /\ Task(h, None)
    /\ UNCHANGED <<store, runs, hosts, todo>>

\* The calls of an instance whose session is over fail.
Abandon(h) ==
    /\ Free(h) /\ host[h] = "closed" /\ job[h] # None
    /\ Hold(h)
    /\ UNCHANGED <<store, runs, hosts>>

-----------------------------------------------------------------------------
(* reconcileParkedWaits *)

\* The lease of an attempt is held until its parent has seen it exit.
LeaseLive(a) == a \notin seen /\ Running(parent[a])

\* settleResumedAttemptExit, up to the transaction
Settles(h, a) ==
    IF record.by # a \/ ~Pending(record) THEN UNCHANGED <<record, todo>>
    ELSE IF meta[a] = "none" \/ Alive(a) \/ LeaseLive(a)
         THEN Marks("held") /\ UNCHANGED todo
         ELSE Does(h, [step |-> "settle", attempt |-> a]) /\ UNCHANGED record

\* mutant: the life of the recorded writer is not asked for
StagedBlind(h) == Does(h, [step |-> IF Parks(record) THEN "park" ELSE "fail"]) /\ UNCHANGED record

\* recoverStagedPark
Staged(h) ==
    IF Alive(Original)
    THEN /\ IF meta[Original] = "running" THEN UNCHANGED record ELSE Marks("held")
         /\ UNCHANGED todo
    ELSE Does(h, [step |-> IF Parks(record) THEN "park" ELSE "fail"]) /\ UNCHANGED record

\* One pass over the listed record r.
Reconciles(h, r) ==
    LET known == r.by # None /\ meta[r.by] # "none"
        idle == UNCHANGED <<record, todo>>
    IN  \/ r.phase = "resuming" /\ ~known /\ Marks("held") /\ UNCHANGED <<todo, job>>
        \/ /\ known /\ Terminal(r.by)
           /\ r.phase = "resuming" \/ phase = "resuming"
           /\ Settles(h, r.by) /\ UNCHANGED job
        \/ /\ r.phase = "resuming" => known /\ ~Terminal(r.by)
           /\ \/ phase \in Over /\ Marks("consumed") /\ UNCHANGED <<todo, job>>
              \/ /\ phase = "resuming" /\ ~(known /\ Terminal(r.by))
                 /\ IF r.by = None \/ known THEN idle ELSE Settles(h, r.by)
                 /\ UNCHANGED job
              \/ phase = "ready" /\ (Begins(h, r) \/ UNCHANGED job) /\ idle
              \/ phase = "parking" /\ Staged(h) /\ UNCHANGED job
              \/ phase \in {"waiting", "held"} /\ UNCHANGED <<todo, job>>
                 /\ IF phase # r.phase THEN Marks(phase) ELSE UNCHANGED record

Reconcile(h) ==
    /\ Open(h) /\ scan[h] # None
    /\ Reconciles(h, scan[h])
    /\ scan' = [scan EXCEPT ![h] = None]
    /\ UNCHANGED <<store, runs, host, parked>>

-----------------------------------------------------------------------------
(* The user, sessions and processes *)

\* mutant: the record is marked before the store has cancelled
StopParkedLate(h) ==
    /\ scenario.stops /\ Open(h) /\ Pending(record)
    /\ Marks("cancelled") /\ Does(h, [step |-> "fail"])
    /\ UNCHANGED <<store, runs, hosts, job>>

\* subagent_stop of the parked attempt: cancelParkedWait. A durable cancellation
\* that is refused is recorded as a hold.
StopParked(h) ==
    /\ scenario.stops /\ Open(h) /\ Pending(record)
    /\ IF phase \in Over
       THEN Marks("held") /\ UNCHANGED <<phase, claim, todo>>
       ELSE /\ phase' = "cancelled" /\ claim' = None
            /\ Does(h, [step |-> "follow"]) /\ UNCHANGED record
    /\ UNCHANGED <<settled, runs, hosts, job>>

\* The same without a service: only the record is marked.
StopUnserved(h) ==
    /\ scenario.unserved /\ Free(h) /\ host[h] = "starting" /\ Pending(record)
    /\ StopsAttempt(h)
    /\ Marks("cancelled")
    /\ UNCHANGED <<store, child, parent, seen, hosts, todo, job>>

\* subagent_stop of any other run
StopRun(h, a) ==
    /\ scenario.stops /\ Open(h)
    /\ meta[a] = "running" /\ Alive(a)
    /\ a = Original => ~Pending(record)
    /\ meta' = [meta EXCEPT ![a] = "killed"]
    /\ UNCHANGED <<store, record, child, parent, seen, hosts, todo, job>>

Start(h) ==
    /\ h \in scenario.sessions /\ host[h] = "off"
    /\ host' = [host EXCEPT ![h] = "starting"]
    /\ UNCHANGED <<store, record, runs, scan, parked, todo, job>>

\* startWorkerOperations: the bridge opens, and the pending parks are listed.
Opens(h) ==
    /\ host[h] = "starting"
    /\ host' = [host EXCEPT ![h] = "on"]
    /\ scan' = [scan EXCEPT ![h] = IF Pending(record) THEN record ELSE None]
    /\ UNCHANGED <<store, record, runs, parked, todo, job>>

\* session_shutdown
Close(h) ==
    /\ scenario.closes /\ Open(h)
    /\ host' = [host EXCEPT ![h] = "closed"]
    /\ scan' = [scan EXCEPT ![h] = None]
    /\ UNCHANGED <<store, record, runs, parked, todo, job>>

\* A process ends, whatever it was doing; its children do not.
Dies(h, how) ==
    /\ host' = [host EXCEPT ![h] = how]
    /\ scan' = [scan EXCEPT ![h] = None]
    /\ parked' = [parked EXCEPT ![h] = None]
    /\ todo' = [todo EXCEPT ![h] = None]
    /\ job' = [job EXCEPT ![h] = None]
    /\ UNCHANGED <<store, record, runs>>

Quit(h) == host[h] = "closed" /\ Dies(h, "quit")
Crash(h) == scenario.crashes /\ host[h] \in {"starting", "on"} /\ Dies(h, "dead")

Steps(h) ==
    \/ Admitted(h) \/ Park(h) \/ FailPark(h) \/ HoldFailedResume(h) \/ MirrorPhase(h)
    \/ FollowCancel(h) \/ RecordPublished(h) \/ Register(h)

Resumes(h) ==
    \/ ParkReturns(h) \/ Admit(h) \/ ClaimResume(h) \/ PublishResume(h) \/ PublishFails(h)
    \/ Launch(h) \/ LaunchFails(h) \/ Abandon(h)

\* What the instance of h does by itself.
Moves(h) ==
    \/ Steps(h) \/ Delivered(h) \/ Resumes(h) \/ Reconcile(h) \/ Start(h) \/ Opens(h)
    \/ \E a \in Attempt : Exit(h, a) \/ Recover(h, a)

\* What happens to it.
Suffers(h) ==
    \/ StopParked(h) \/ StopUnserved(h) \/ Close(h) \/ Quit(h) \/ Crash(h)
    \/ \E a \in Attempt : StopRun(h, a)

Next ==
    /\ \/ OperationEnds \/ WaitAdmission \/ Checkpoint \/ ParkFailed
       \/ \E a \in Attempt : Acknowledge(a) \/ ChildEnds(a)
       \/ \E h \in Host : Moves(h) \/ Suffers(h)
    /\ UNCHANGED scenario

Spec == Init /\ [][Next]_vars

\* Operations and children end, and an instance that has something to do goes on; what
\* is ready is delivered again until the capacity admits it.
Fairness ==
    /\ WF_moving(OperationEnds)
    /\ WF_moving(\E a \in Attempt : ChildEnds(a))
    /\ \A h \in Host : WF_moving(Moves(h))

FairSpec == Spec /\ Fairness

-----------------------------------------------------------------------------
TypeOK ==
    /\ phase \in Phases \cup {"none", "registering"}
    /\ claim \in Claim \cup {None}
    /\ settled \in BOOLEAN
    /\ record \in Record \cup {None}
    /\ meta \in [Attempt -> {"none", "running", "completed", "failed", "killed", "lost"}]
    /\ child \in [Attempt -> {"none", "alive", "clean", "failed"}]
    /\ parent \in [Attempt -> Host \cup {None}]
    /\ seen \subseteq Attempt
    /\ host \in [Host -> {"off", "starting", "on", "closed", "quit", "dead"}]
    /\ scan \in [Host -> Record \cup {None}]
    /\ parked \in [Host -> Left \cup {None}]
    /\ todo \in [Host -> Todo \cup {None}]
    /\ job \in [Host -> Job \cup {None}]

\* Whatever races for it, at most one attempt is ever started to resume a generation.
OneResume == \A a, b \in Resumed : child[a] # "none" /\ child[b] # "none" => a = b

\* The conversation is open to a resume only when the attempt that parked it can no
\* longer write.
ParkedIsGone == phase \in {"waiting", "ready", "resuming"} => ~Alive(Original)

\* While an automatic resume is possible the record says so: a record that lets
\* the user continue the conversation by hand is of a wait that is over, but for what
\* StopUnserved marked.
ReleasedIsOver ==
    scenario.unserved \/ (record # None /\ ~Pending(record) => phase \in Over)

\* Whoever races, dies or is reloaded, the saved conversation has one writer: the attempt
\* that parked it, at most one that resumes it, and no attempt of the user beside that.
ConversationIsSafe == OneResume /\ ParkedIsGone /\ ReleasedIsOver

\* Of a generation that is over, no attempt is started.
NoLateLaunch ==
    [][\A a \in Resumed : child[a] = "none" /\ child'[a] = "alive" =>
           phase \notin Over /\ claim = [attempt |-> a, published |-> TRUE]]_vars

\* A cancellation is followed to the attempt it finds: unless another session took
\* part, the attempt of a cancelled generation does not run on.
CancelIsFollowed ==
    \A a \in Resumed :
        phase = "cancelled" /\ Alive(a) /\ meta[a] = "running" /\ host[parent[a]] = "on" =>
            \/ At(parent[a], "follow")
            \/ \E h \in Host \ {parent[a]} : host[h] # "off"

\* The end of a wait is the end: it starts no attempt, and stops the one it finds.
EndIsFinal == NoLateLaunch /\ []CancelIsFollowed

\* There is one session, which stays, and its store is always reachable.
Stays ==
    /\ scenario.sessions = {scenario.first}
    /\ ~scenario.crashes /\ ~scenario.closes /\ ~scenario.unserved

Holds == record # None /\ record.phase = "held"

\* The claim is published for an attempt that nobody will start: what a refused launch
\* leaves in the store.
LaunchRefused ==
    /\ phase = "resuming" /\ claim.published /\ child[claim.attempt] = "none"
    /\ \A h \in Host : job[h] = None \/ job[h].at # "launch"

\* As long as its session stays, a checkpointed assignment whose operation has ended
\* is answered, given up, or held for its owner. Except where the launch of its resume
\* was refused: then the record, which alone held it, may be overwritten.
ParkIsResolved ==
    (Stays /\ record # None /\ settled)
        ~> (phase \in Over \cup {"held"} \/ Holds \/ LaunchRefused)

--------------------------------------------------------------------------------
(* What the code says elsewhere and does not keep: see Divergences in the README *)

\* A wait that was parked cleanly is not cancelled unless somebody cancels it.
CleanParkKept ==
    [][phase = "parking" /\ child[Original] = "clean" /\ record # None => phase' # "cancelled"]_vars

\* A generation that is being resumed is not cancelled unless somebody cancels it.
ResumeKept ==
    [][~scenario.stops /\ phase = "resuming" /\ Original \in seen => phase' # "cancelled"]_vars

\* A session that finds the generation of a dead resume does not pass over it.
NoSilentResuming ==
    [][\A h \in Host :
          /\ scan[h] # None /\ scan'[h] = None /\ host'[h] = "on"
          /\ phase = "resuming" /\ \A g \in Host : todo[g] = None /\ job[g] = None
          => todo'[h] # None \/ record'.phase \in {"resuming", "held"}]_vars

\* The record of a wait the user has cancelled does not become pending again.
CancelledStays ==
    [][record # None /\ record.phase = "cancelled" => ~Pending(record')]_vars

\* What the user has cancelled is not resumed.
CancelledNotResumed ==
    [][\A h \in Host : job[h] = None /\ job'[h] # None => record.phase # "cancelled"]_vars

\* A hold for a refused launch stays in the record until a session reads it: nobody
\* marks it ready or resuming.
RefusedStaysHeld ==
    [][LaunchRefused /\ Holds => record'.phase \notin {"waiting", "ready", "resuming"}]_vars

\* When the attempt has left and was handled, its wait is parked or held, not
\* admitted forever.
NoOrphanedWait ==
    Original \in seen /\ phase = "parking" /\ record = None =>
        \E h \in Host : todo[h] # None

\* A record that names an attempt nobody knows is of an attempt that was not started.
UnknownIsUnstarted ==
    \A a \in Resumed : (Alive(a) /\ meta[a] = "none") => record.phase # "cancelled"
================================================================================
