--------------------------- MODULE LocalSupervisor ---------------------------
(***************************************************************************)
(* The detached local supervisor of pi-better-background-tasks: one launch *)
(* token, the runners started for it, and the processes that inspect and   *)
(* stop it, all meeting only in the record files of the task directory.    *)
(*                                                                         *)
(* A record file appears whole or not at all (a hard link of a complete    *)
(* temporary file); claim, result and lost are created exclusively.  The   *)
(* fence is an SQLite write transaction: the claim, the publication of a   *)
(* loss and a supervisor's cancellation run inside it, the runner's own    *)
(* result does not.  Sections without a foreign write between their reads  *)
(* and their write are one step; an inspection is not, because a runner    *)
(* finishes beside it.                                                     *)
(*                                                                         *)
(* A runner that is stopped by the scheduler, or a process that is slow,   *)
(* is one that takes no step.  An attempt is one execution of the command  *)
(* with its process group: a watch makes several, a process makes one.     *)
(***************************************************************************)
EXTENDS Naturals

CONSTANTS
    Runner,      \* runner processes started for the launch
    Observer,    \* processes that call inspect and stop
    MaxChecks,   \* bound on the checks of a watch
    None

ASSUME ChecksAssumption == MaxChecks \in Nat \ {0}

Attempt == Runner \X (1 .. MaxChecks)

Statuses == {"succeeded", "failed", "timed_out", "cancelled"}
Cleanups == {"pending", "none", "empty", "unproven"}
Records == [by : {"runner", "supervisor"}, status : Statuses, cleanup : Cleanups,
            claimed : BOOLEAN, command : Attempt \cup {None}]

ASSUME NoneAssumption == None \notin Runner \cup Observer \cup Attempt \cup Records

VARIABLES
    launch,                     \* launch.json: the kind of the task
    claim,                      \* claim.json: the runner that owns the token
    command,                    \* command.json: the live attempt
    stop,                       \* stop.json exists
    result,                     \* result.json
    lost,                       \* lost.json exists
    fence,                      \* the observer inside the fence
    expired,                    \* the claim grace of the launch is over
    pc, checks, verdict,        \* runners: control point, checks made, outcome
    leader, group, known,       \* attempts whose leader lives, whose group has
                                \* members, whose start token is recorded
    at, plan, seen, sawClaim, sawCommand, sawAlive, emptied
                                \* observers: control point, what the inspection
                                \* is for, what it read, what a cleanup proved

files == <<launch, claim, command, stop, result, lost>>
runnerVars == <<pc, checks, verdict>>
processes == <<leader, group, known>>
sight == <<seen, sawClaim, sawCommand, sawAlive>>
observerVars == <<at, plan, sight, emptied>>
vars == <<files, fence, expired, runnerVars, processes, observerVars>>

Alive(r) == pc[r] \notin {"off", "exited"}
Last(r) == <<r, checks[r]>>
HasEnded == result # None \/ lost

Terminal(by, status, cleanup, claimed, x) ==
    [by |-> by, status |-> status, cleanup |-> cleanup, claimed |-> claimed, command |-> x]

Init ==
    /\ launch = None /\ claim = None /\ command = None /\ stop = FALSE
    /\ result = None /\ lost = FALSE
    /\ fence = None
    /\ expired = FALSE
    /\ pc = [r \in Runner |-> "off"]
    /\ checks = [r \in Runner |-> 0]
    /\ verdict = [r \in Runner |-> None]
    /\ leader = {} /\ group = {} /\ known = {}
    /\ at = [b \in Observer |-> "idle"]
    /\ plan = [b \in Observer |-> "inspect"]
    /\ seen = [b \in Observer |-> "none"]
    /\ sawClaim = [b \in Observer |-> FALSE]
    /\ sawCommand = [b \in Observer |-> None]
    /\ sawAlive = [b \in Observer |-> FALSE]
    /\ emptied = [b \in Observer |-> FALSE]

-----------------------------------------------------------------------------
(* The launch and its runners *)

\* start: the exclusive launch record decides which caller owns the token.
Start(kind) ==
    /\ launch = None
    /\ launch' = kind
    /\ UNCHANGED <<claim, command, stop, result, lost, fence, expired, runnerVars,
                   processes, observerVars>>

GraceExpires ==
    /\ launch # None
    /\ expired' = TRUE
    /\ UNCHANGED <<files, fence, runnerVars, processes, observerVars>>

SpawnRunner(r) ==
    /\ launch # None
    /\ pc[r] = "off"
    /\ pc' = [pc EXCEPT ![r] = "started"]
    /\ UNCHANGED <<files, fence, expired, checks, verdict, processes, observerVars>>

\* mutants: a second claim, a claim after the end, a claim beside the fence
ReclaimsLaunch(r) ==
    /\ pc[r] = "started"
    /\ fence = None
    /\ IF ~HasEnded
       THEN claim' = r /\ pc' = [pc EXCEPT ![r] = "loop"]
       ELSE claim' = claim /\ pc' = [pc EXCEPT ![r] = "exited"]
    /\ UNCHANGED <<launch, command, stop, result, lost, fence, expired, checks, verdict,
                   processes, observerVars>>

ClaimsUnfenced(r) ==
    /\ pc[r] = "started"
    /\ IF claim = None /\ ~HasEnded
       THEN claim' = r /\ pc' = [pc EXCEPT ![r] = "loop"]
       ELSE claim' = claim /\ pc' = [pc EXCEPT ![r] = "exited"]
    /\ UNCHANGED <<launch, command, stop, result, lost, fence, expired, checks, verdict,
                   processes, observerVars>>

\* claimLaunch, inside the fence: a refused runner leaves without executing.
ClaimLaunch(r) ==
    /\ pc[r] = "started"
    /\ fence = None
    /\ IF claim = None /\ ~HasEnded
       THEN claim' = r /\ pc' = [pc EXCEPT ![r] = "loop"]
       ELSE claim' = claim /\ pc' = [pc EXCEPT ![r] = "exited"]
    /\ UNCHANGED <<launch, command, stop, result, lost, fence, expired, checks, verdict,
                   processes, observerVars>>

\* The runner leaves its control point for finalize with this outcome.
Finalizes(r, status, cleanup) ==
    /\ pc' = [pc EXCEPT ![r] = "ending"]
    /\ verdict' = [verdict EXCEPT ![r] =
          Terminal("runner", status, cleanup, TRUE,
                   IF checks[r] = 0 THEN None ELSE Last(r))]

\* mutant: no look at the stop request before an execution
ChecksUnasked(r) ==
    /\ pc[r] = "loop"
    /\ pc' = [pc EXCEPT ![r] = "ready"]
    /\ UNCHANGED <<files, fence, expired, checks, verdict, processes, observerVars>>

\* observeStop before an execution, the deadline of a watch, or the next check.
BeginCheck(r) ==
    /\ pc[r] = "loop"
    /\ \/ stop /\ Finalizes(r, "cancelled", "none")
       \/ ~stop /\ launch = "watch" /\ Finalizes(r, "timed_out", "none")
       \/ ~stop /\ pc' = [pc EXCEPT ![r] = "ready"] /\ UNCHANGED verdict
    /\ UNCHANGED <<files, fence, expired, checks, processes, observerVars>>

SpawnCommand(r) ==
    /\ pc[r] = "ready"
    /\ checks[r] < MaxChecks
    /\ LET x == <<r, checks[r] + 1>> IN
          /\ checks' = [checks EXCEPT ![r] = @ + 1]
          /\ pc' = [pc EXCEPT ![r] = "spawned"]
          /\ leader' = leader \cup {x}
          /\ group' = group \cup {x}
          /\ known' \in {known, known \cup {x}}
    /\ UNCHANGED <<files, fence, expired, verdict, observerVars>>

SpawnFails(r) ==
    /\ pc[r] = "ready"
    /\ Finalizes(r, IF launch = "watch" /\ stop THEN "cancelled" ELSE "failed", "none")
    /\ UNCHANGED <<files, fence, expired, checks, processes, observerVars>>

\* onSpawn: the identity record is best effort.
RecordCommand(r) ==
    /\ pc[r] = "spawned"
    /\ command' \in {command, Last(r)}
    /\ pc' = [pc EXCEPT ![r] = "running"]
    /\ UNCHANGED <<launch, claim, stop, result, lost, fence, expired, checks, verdict,
                   processes, observerVars>>

\* requestTermination: a group whose leader was reaped is not signalled.
Terminates(r, status) ==
    /\ pc' = [pc EXCEPT ![r] = "stopping"]
    /\ \E cleanup \in {"pending"} \cup (IF Last(r) \in leader THEN {} ELSE {"unproven"}) :
          verdict' = [verdict EXCEPT ![r] =
              Terminal("runner", status, cleanup, TRUE, Last(r))]

StopCommand(r) ==
    /\ pc[r] = "running"
    /\ stop
    /\ Terminates(r, "cancelled")
    /\ UNCHANGED <<files, fence, expired, checks, processes, observerVars>>

CommandTimesOut(r) ==
    /\ pc[r] = "running"
    /\ Terminates(r, "timed_out")
    /\ UNCHANGED <<files, fence, expired, checks, processes, observerVars>>

\* onSignal: SIGTERM or SIGINT to the runner itself.
SignalRunner(r) ==
    /\ \/ pc[r] = "loop" /\ Finalizes(r, "cancelled", "none")
       \/ pc[r] = "running" /\ Terminates(r, "cancelled")
    /\ UNCHANGED <<files, fence, expired, checks, processes, observerVars>>

\* mutant: the group is forgotten, its leader is left
KillsGroupOnly(r) ==
    /\ pc[r] = "stopping"
    /\ verdict[r].cleanup = "pending"
    /\ Last(r) \in leader
    /\ group' = group \ {Last(r)}
    /\ UNCHANGED <<files, fence, expired, runnerVars, leader, known, observerVars>>

\* signalGroup: only while the leader is owned.
KillGroup(r) ==
    /\ pc[r] = "stopping"
    /\ verdict[r].cleanup = "pending"
    /\ Last(r) \in leader
    /\ leader' = leader \ {Last(r)}
    /\ group' = group \ {Last(r)}
    /\ UNCHANGED <<files, fence, expired, runnerVars, known, observerVars>>

\* mutants: a group is called empty unseen, a termination has no hard bound
TerminationAssumed(r) ==
    /\ pc[r] = "stopping"
    /\ \E cleanup \in {"empty", "unproven"} :
          Finalizes(r, verdict[r].status, cleanup)
    /\ UNCHANGED <<files, fence, expired, checks, processes, observerVars>>

TerminationWaits(r) ==
    /\ pc[r] = "stopping"
    /\ Last(r) \notin group
    /\ Finalizes(r, verdict[r].status, "empty")
    /\ UNCHANGED <<files, fence, expired, checks, processes, observerVars>>

\* The group was seen empty, or the runner can no longer prove that it is.
TerminationEnds(r) ==
    /\ pc[r] = "stopping"
    /\ \E cleanup \in {"empty", "unproven"} :
          /\ cleanup = "empty" => verdict[r].cleanup = "pending" /\ Last(r) \notin group
          /\ Finalizes(r, IF launch = "watch" /\ stop THEN "cancelled" ELSE verdict[r].status,
                       cleanup)
    /\ UNCHANGED <<files, fence, expired, checks, processes, observerVars>>

\* The command exited by itself: a process is over, a watch goes on.
CommandReturns(r) ==
    /\ pc[r] = "running"
    /\ Last(r) \notin leader
    /\ IF launch = "watch" /\ stop
       THEN Finalizes(r, "cancelled", "none")
       ELSE \/ \E status \in {"succeeded", "failed"} : Finalizes(r, status, "none")
            \/ /\ launch = "watch"
               /\ checks[r] < MaxChecks
               /\ pc' = [pc EXCEPT ![r] = "loop"]
               /\ UNCHANGED verdict
    /\ UNCHANGED <<files, fence, expired, checks, processes, observerVars>>

\* finalize: the exclusive create, and no fence.
WriteResult(r) ==
    /\ pc[r] = "ending"
    /\ result' = IF result = None THEN verdict[r] ELSE result
    /\ pc' = [pc EXCEPT ![r] = "written"]
    /\ UNCHANGED <<launch, claim, command, stop, lost, fence, expired, checks, verdict,
                   processes, observerVars>>

ExitRunner(r) ==
    /\ pc[r] = "written"
    /\ pc' = [pc EXCEPT ![r] = "exited"]
    /\ UNCHANGED <<files, fence, expired, checks, verdict, processes, observerVars>>

\* A runner killed from outside, or refused by a busy fence, leaves no record.
CrashRunner(r) ==
    /\ Alive(r)
    /\ pc' = [pc EXCEPT ![r] = "exited"]
    /\ UNCHANGED <<files, fence, expired, checks, verdict, processes, observerVars>>

\* The command: its leader exits, with or without the rest of its group.
LeaderExits(x) ==
    /\ x \in leader
    /\ leader' = leader \ {x}
    /\ group' \in {group, group \ {x}}
    /\ UNCHANGED <<files, fence, expired, runnerVars, known, observerVars>>

GroupEmpties(x) ==
    /\ x \in group \ leader
    /\ group' = group \ {x}
    /\ UNCHANGED <<files, fence, expired, runnerVars, leader, known, observerVars>>

-----------------------------------------------------------------------------
(* inspect: two looks outside the fence, the decision inside it *)

Seen == IF result # None THEN "result" ELSE IF lost THEN "lost" ELSE "none"

Call(b) ==
    /\ launch # None
    /\ at[b] = "idle"
    /\ at' = [at EXCEPT ![b] = "asking"]
    /\ \E p \in {"inspect", "stop"} : plan' = [plan EXCEPT ![b] = p]
    /\ UNCHANGED <<files, fence, expired, runnerVars, processes, sight, emptied>>

Look(b) ==
    /\ at[b] = "asking"
    /\ at' = [at EXCEPT ![b] = "opened"]
    /\ seen' = [seen EXCEPT ![b] = Seen]
    /\ UNCHANGED <<files, fence, expired, runnerVars, processes, plan, sawClaim, sawCommand,
                   sawAlive, emptied>>

\* The claim and the command, and a liveness probe where it is needed.
ReadEvidence(b) ==
    /\ at[b] = "opened"
    /\ at' = [at EXCEPT ![b] = IF seen[b] = "none" THEN "outside" ELSE "returned"]
    /\ sawClaim' = [sawClaim EXCEPT ![b] = claim # None]
    /\ sawCommand' = [sawCommand EXCEPT ![b] = command]
    /\ sawAlive' = [sawAlive EXCEPT ![b] =
           /\ command \in leader
           /\ seen[b] = "result" => result.cleanup = "unproven"]
    /\ UNCHANGED <<files, fence, expired, runnerVars, processes, plan, seen, emptied>>

\* reconcile with a fence held for longer than the bounded wait.
FenceBusy(b) ==
    /\ at[b] = "outside"
    /\ fence # None
    /\ at' = [at EXCEPT ![b] = "returned"]
    /\ UNCHANGED <<files, fence, expired, runnerVars, processes, plan, sight, emptied>>

EnterFence(b) ==
    /\ at[b] = "outside"
    /\ fence = None
    /\ fence' = b
    /\ seen' = [seen EXCEPT ![b] = Seen]
    /\ at' = [at EXCEPT ![b] = "inside"]
    /\ UNCHANGED <<files, expired, runnerVars, processes, plan, sawClaim, sawCommand,
                   sawAlive, emptied>>

\* applyReconciliation: a dead claimant, or no claimant within the grace.
NobodyRuns == IF claim # None THEN ~Alive(claim) ELSE expired

Probe(b) ==
    /\ at[b] = "inside"
    /\ IF seen[b] = "none" /\ NobodyRuns
       THEN at' = [at EXCEPT ![b] = "losing"] /\ fence' = fence
       ELSE at' = [at EXCEPT ![b] = "returned"] /\ fence' = None
    /\ UNCHANGED <<files, expired, runnerVars, processes, plan, sight, emptied>>

PublishLost(b) ==
    /\ at[b] = "losing"
    /\ lost' = TRUE
    /\ seen' = [seen EXCEPT ![b] = "lost"]
    /\ fence' = None
    /\ at' = [at EXCEPT ![b] = "returned"]
    /\ UNCHANGED <<launch, claim, command, stop, result, expired, runnerVars, processes, plan,
                   sawClaim, sawCommand, sawAlive, emptied>>

-----------------------------------------------------------------------------
(* stop: what follows an inspection *)

Forget(b) ==
    /\ at' = [at EXCEPT ![b] = "idle"]
    /\ plan' = [plan EXCEPT ![b] = "inspect"]
    /\ seen' = [seen EXCEPT ![b] = "none"]
    /\ sawClaim' = [sawClaim EXCEPT ![b] = FALSE]
    /\ sawCommand' = [sawCommand EXCEPT ![b] = None]
    /\ sawAlive' = [sawAlive EXCEPT ![b] = FALSE]
    /\ emptied' = [emptied EXCEPT ![b] = FALSE]

LeftOver(b) ==
    /\ sawAlive[b]
    /\ seen[b] = "lost" \/ (seen[b] = "result" /\ result.cleanup = "unproven")

\* publishSupervisorCancellation is reached without a claim or after a cleanup.
MayCancel(b) ==
    /\ seen[b] = "none"
    /\ \/ plan[b] = "after" /\ ~sawAlive[b] /\ ~sawClaim[b] /\ sawCommand[b] = None
       \/ plan[b] = "cleaned" /\ emptied[b]

\* mutant: the request is written after the inspection that relies on it
StopUnrequested(b) ==
    /\ at[b] = "returned" /\ plan[b] = "stop" /\ seen[b] = "none"
    /\ plan' = [plan EXCEPT ![b] = "after"]
    /\ at' = [at EXCEPT ![b] = "asking"]
    /\ UNCHANGED <<files, fence, expired, runnerVars, processes, sight, emptied>>

RequestStop(b) ==
    /\ at[b] = "returned" /\ plan[b] = "stop" /\ seen[b] = "none"
    /\ stop' = TRUE
    /\ plan' = [plan EXCEPT ![b] = "after"]
    /\ at' = [at EXCEPT ![b] = "asking"]
    /\ UNCHANGED <<launch, claim, command, result, lost, fence, expired, runnerVars, processes,
                   sight, emptied>>

\* inspectionAfter polls until the state is terminal or its time is over.
InspectAgain(b) ==
    /\ at[b] = "returned" /\ plan[b] \in {"after", "cleaned"} /\ seen[b] = "none"
    /\ at' = [at EXCEPT ![b] = "asking"]
    /\ UNCHANGED <<files, fence, expired, runnerVars, processes, plan, sight, emptied>>

BeginCleanup(b) ==
    /\ at[b] = "returned"
    /\ \/ plan[b] = "after" /\ seen[b] = "none" /\ sawAlive[b]
       \/ plan[b] = "stop" /\ LeftOver(b)
    /\ at' = [at EXCEPT ![b] = "cleaning"]
    /\ UNCHANGED <<files, fence, expired, runnerVars, processes, plan, sight, emptied>>

Return(b) ==
    /\ at[b] = "returned"
    /\ \/ plan[b] = "inspect"
       \/ plan[b] = "stop" /\ seen[b] # "none" /\ ~LeftOver(b)
       \/ plan[b] \in {"after", "cleaned"} /\ seen[b] # "none"
       \/ plan[b] = "after" /\ ~sawAlive[b] /\ ~MayCancel(b)
       \/ plan[b] = "cleaned" /\ ~MayCancel(b)
    /\ Forget(b)
    /\ UNCHANGED <<files, fence, expired, runnerVars, processes>>

\* mutant: the cancellation is published beside the fence
CancelsUnfenced(b) ==
    /\ at[b] = "returned"
    /\ MayCancel(b)
    /\ result' = IF HasEnded THEN result
                 ELSE Terminal("supervisor", "cancelled",
                          IF plan[b] = "cleaned" THEN "empty" ELSE "none",
                          sawClaim[b], sawCommand[b])
    /\ Forget(b)
    /\ UNCHANGED <<launch, claim, command, stop, lost, fence, expired, runnerVars, processes>>

\* publishSupervisorCancellation: one section in the fence, then an inspection.
PublishCancellation(b) ==
    /\ at[b] = "returned"
    /\ MayCancel(b)
    /\ fence = None
    /\ result' = IF HasEnded THEN result
                 ELSE Terminal("supervisor", "cancelled",
                          IF plan[b] = "cleaned" THEN "empty" ELSE "none",
                          sawClaim[b], sawCommand[b])
    /\ Forget(b)
    /\ UNCHANGED <<launch, claim, command, stop, lost, fence, expired, runnerVars, processes>>

\* The caller of stop ends, or its wait for the fence does.
CrashObserver(b) ==
    /\ at[b] # "idle"
    /\ fence' = IF fence = b THEN None ELSE fence
    /\ Forget(b)
    /\ UNCHANGED <<files, expired, runnerVars, processes>>

-----------------------------------------------------------------------------
(* cleanupSurvivingCommand: the group of the command the inspection named *)

Verified(x) == x \in leader \cap known

\* mutant: a refused cleanup counts as done
CleanupAssumed(b) ==
    IF plan[b] = "stop"
    THEN Forget(b)
    ELSE /\ plan' = [plan EXCEPT ![b] = "cleaned"]
         /\ at' = [at EXCEPT ![b] = "asking"]
         /\ emptied' = [emptied EXCEPT ![b] = TRUE]
         /\ UNCHANGED sight

\* A stop goes on to inspect; the cleanup of a leftover is over.
CleanupEnds(b) ==
    IF plan[b] = "stop"
    THEN Forget(b)
    ELSE /\ plan' = [plan EXCEPT ![b] = "cleaned"]
         /\ at' = [at EXCEPT ![b] = "asking"]
         /\ emptied' = [emptied EXCEPT ![b] = sawCommand[b] \notin group]
         /\ UNCHANGED sight

\* Without a verified leader nothing is signalled: gone, or refused.
RefuseCleanup(b) ==
    /\ at[b] = "cleaning"
    /\ CleanupEnds(b)
    /\ UNCHANGED <<files, fence, expired, runnerVars, processes>>

TermCommand(b) ==
    /\ at[b] = "cleaning"
    /\ Verified(sawCommand[b])
    /\ at' = [at EXCEPT ![b] = "signalled"]
    /\ UNCHANGED <<files, fence, expired, runnerVars, processes, plan, sight, emptied>>

KillCommand(b) ==
    /\ at[b] = "signalled"
    /\ Verified(sawCommand[b])
    /\ leader' = leader \ {sawCommand[b]}
    /\ group' = group \ {sawCommand[b]}
    /\ UNCHANGED <<files, fence, expired, runnerVars, known, observerVars>>

FinishCleanup(b) ==
    /\ at[b] = "signalled"
    /\ CleanupEnds(b)
    /\ UNCHANGED <<files, fence, expired, runnerVars, processes>>

-----------------------------------------------------------------------------

RunnerStep(r) ==
    \/ ClaimLaunch(r) \/ BeginCheck(r) \/ SpawnCommand(r) \/ SpawnFails(r)
    \/ RecordCommand(r) \/ StopCommand(r) \/ TerminationEnds(r) \/ CommandReturns(r)
    \/ WriteResult(r) \/ ExitRunner(r)

ObserverStep(b) ==
    \/ Call(b) \/ Look(b) \/ ReadEvidence(b) \/ FenceBusy(b) \/ EnterFence(b) \/ Probe(b)
    \/ PublishLost(b)
    \/ RequestStop(b) \/ InspectAgain(b) \/ BeginCleanup(b) \/ Return(b)
    \/ PublishCancellation(b) \/ RefuseCleanup(b) \/ TermCommand(b) \/ KillCommand(b)
    \/ FinishCleanup(b)

Next ==
    \/ \E kind \in {"watch", "process"} : Start(kind)
    \/ GraceExpires
    \/ \E r \in Runner :
          \/ SpawnRunner(r) \/ CommandTimesOut(r) \/ SignalRunner(r) \/ KillGroup(r)
          \/ CrashRunner(r) \/ RunnerStep(r)
    \/ \E x \in Attempt : LeaderExits(x) \/ GroupEmpties(x)
    \/ \E b \in Observer : ObserverStep(b) \/ CrashObserver(b)

Spec == Init /\ [][Next]_vars

\* Runners and observers that are scheduled, a clock that goes on, and a host
\* that polls (ObservedWaitHost, every pollMs) and is not killed for ever.
FairSpec ==
    /\ Spec
    /\ WF_vars(GraceExpires)
    /\ \A r \in Runner : WF_vars(RunnerStep(r))
    /\ \A b \in Observer : WF_vars(ObserverStep(b)) /\ <>[][~CrashObserver(b)]_vars

-----------------------------------------------------------------------------

\* The records hold what the writers of the task directory put there, every
\* runner and observer is at a control point of its code.
TypeOK ==
    /\ launch \in {None, "watch", "process"}
    /\ claim \in Runner \cup {None}
    /\ command \in Attempt \cup {None}
    /\ stop \in BOOLEAN /\ lost \in BOOLEAN /\ expired \in BOOLEAN
    /\ result \in Records \cup {None}
    /\ fence \in Observer \cup {None}
    /\ pc \in [Runner -> {"off", "started", "loop", "ready", "spawned", "running",
                          "stopping", "ending", "written", "exited"}]
    /\ checks \in [Runner -> 0 .. MaxChecks]
    /\ verdict \in [Runner -> Records \cup {None}]
    /\ leader \subseteq group /\ group \subseteq Attempt /\ known \subseteq Attempt
    /\ at \in [Observer -> {"idle", "asking", "opened", "outside", "inside", "losing",
                            "returned", "cleaning", "signalled"}]
    /\ plan \in [Observer -> {"inspect", "stop", "after", "cleaned"}]
    /\ seen \in [Observer -> {"none", "result", "lost"}]
    /\ sawClaim \in [Observer -> BOOLEAN]
    /\ sawCommand \in [Observer -> Attempt \cup {None}]
    /\ sawAlive \in [Observer -> BOOLEAN]
    /\ emptied \in [Observer -> BOOLEAN]

\* However many runners were started for a token, one of them executes the
\* command: only the claimant ever does (claimLaunch, runner main).
OneExecution == \A r \in Runner : checks[r] > 0 => claim = r

\* After a terminal or a lost record no command is started any more, by a late
\* runner or by the next check of a watch (runner main, "may ever execute again").
EndedIsQuiet == [][HasEnded => checks' = checks]_vars

\* A result without an unproven cleanup is only published when no command of the
\* launch has a living leader, be it the runner's or a stop escalation's.
EndedIsStopped == result # None /\ result.cleanup # "unproven" => leader = {}

\* A published "empty" names a process group that has no member
\* (pollGroupUntilEmpty, cleanupSurvivingCommand).
EmptyIsProven == result # None /\ result.cleanup = "empty" => result.command \notin group

\* "no command was executed": a cancellation by the supervisor that names neither
\* a runner nor a command is true, though the claim was read outside the fence.
NothingWasExecuted ==
    result # None /\ result.by = "supervisor" /\ ~result.claimed /\ result.command = None
        => \A r \in Runner : checks[r] = 0

\* What a published result says of the command's processes holds, whoever wrote
\* it and however the cleanup of the group went.
ResultIsTrue == EndedIsStopped /\ EmptyIsProven /\ NothingWasExecuted

\* A supervisor's attestation never meets a lost record, in either order
\* (publishSupervisorCancellation, applyReconciliation).
LossIsNotReplaced == ~(lost /\ result # None /\ result.by = "supervisor")

\* A task that was asked to stop ends: its runner observes the request, or an
\* inspection finds that nobody runs it (stop, observeStop, reconcile).
StopEnds == stop ~> HasEnded

\* "lost means no terminal evidence exists and none can now appear"
\* (supervisor/README.md): a lost record and a result never coexist.
LostIsFinal == ~(lost /\ result # None)
=============================================================================
