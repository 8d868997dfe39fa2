# Verification of the harness: TLA+ models, model checking and proofs

This directory holds TLA+ specifications of the parts of the repository in
which correctness depends on the order in which processes, sessions and callbacks
act, the TLC configurations that check them on small instances, and proofs for
TLAPS of what holds for every instance. Paths below are relative to
`src/packages/`.

## 1. The system

The repository is a set of extensions of an agent host ("Pi"): background tasks,
subagents, goals, sandboxes, plans, settings, and a server for detached sessions.
Most lines are user interface, text, settings and operating-system calls. The
protocols live in these parts:

| Part | State | Operations | Talks to |
|---|---|---|---|
| **operation coordinator** (`operation-coordinator/src`) | one SQLite file: operations, wait generations with their dependencies and phase, resume claims, evidence reads and pins, delivery outbox | register, supervise and end operations; register, move, cancel waits; claim, publish, release, hold a resume; read, pin, release evidence; acknowledge; claim, deliver, release outbox events | its callers are the observed-wait host and the subagent worker waits, in several processes at once |
| **local operation supervisor** (`pi-better-background-tasks/src/supervisor`) | record files of one task directory (`launch`, `claim`, `command`, `stop`, `result`, `lost`), a fence, the runner process, the command's process group | launch, claim, execute, watch, time out, stop, terminate a group, finalize; inspect, reconcile a loss, stop and clean up after a dead runner | runners and inspecting processes meet only in the files and through signals |
| **observed-wait host** (`.../src/observed-waits.ts`) | sidecar of callbacks, its live claims, timers | launch, poll the supervisor, record outcomes in the coordinator, dispatch its outbox, stand-alone callbacks, recover abandoned deliveries | supervisor, coordinator, batcher, subagent continuations |
| **callback batcher** (`callback-batcher/index.ts`) | queue, batch in flight, urgent messages in flight, keys handed over, timer, mode, tools of the run | enqueue, flush, urgent delivery, availability, steering at tool boundaries, cancel | the host's `sendMessage`, the receipts of the producers (subagent runs, background tasks); one instance for all extensions of a process |
| **background task runtime** (`.../src/runtime.ts` and around) | metadata files, child processes of the session, timers | start, watch, time out, stop, finalize, notify, resume after a reload | batcher, failure observations |
| **subagent worker waits** (`pi-better-subagents/worker-waits.ts` and around) | park records, the coordinator | park, settle, admit, claim, publish and launch a resume, hold a failed one | coordinator, capacity, registry |
| **subagent capacity and batches** (`capacity.mjs`, `batch.mjs`) | pending and running slots | reserve, commit, release | spawn paths |
| **subagent runs** (`pi-better-subagents/index.ts`, `continuation.ts` and around) | run metadata, children, the lease of a conversation | spawn, continue, finalize, stop, steer, health, notify | batcher, capacity |
| **goal** (`pi-better-goal/src`) | goal state in the session's branch, continuation state, permission hold, timer | set, edit, pause, complete, settle a turn, continue automatically | activity snapshots of the other extensions |
| **session ownership and moves** (`pi-better-server/src/core`, `move`, `detach`) | ownership record and index of each daemon, the user's transcripts, inbound transfers | fence, export, begin, commit, abort, retire, unfence, recover | two daemons or a daemon and the user's machine, over connections that may break |
| failure observations, stall detector | receipts of incidents, evidence counters | reduce log records, detect repetition | producers |
| session protocol of the server, sandbox, ssh, navigator, settings, router, plan, installers | sessions, policies, panels | I/O and user interface | the host |

What is hard in it:

* *Several processes, one record.* Every host that opens a workspace may inspect,
  stop or resume the same task; a process may be slow, or die, between any two
  of its steps. Calls on the coordinator are transactions, but the arguments of a
  call were read in earlier ones.
* *The runner is alone.* It outlives the session, writes its result without the
  fence, may be killed, and its command may survive it.
* *Two conditions in either order.* An operation ends while somebody is about to
  wait for it; a session parks while its dependency settles.
* *At most one writer.* A conversation is continued by one attempt; retries,
  late answers and recovery must not start a second.
* *Told once, and told at all.* Completions reach a foreground conversation
  through a queue that may be cancelled, refused, steered, or reloaded, and
  whose receipts may fail to be written.

* *Stale snapshots.* A handler of the goal, or a spawn, awaits what others report and
  then acts on a state that has moved on.
* *Two machines, one session.* A hand-over of a session passes through two records on two
  machines, and any request, answer or process between them may be lost.

What makes each part correct is stated with its module below. `PROJECT.json`
("hazards") lists the places at which it can go wrong, each with the properties that would notice,
or with the reason why none does.

## 2. Modules

| Module | Role |
|---|---|
| `OperationCoordinator` | the coordinator's store, one action per public call |
| `OneWriter` | abstract: a conversation has at most one writer, never one that was used before, none after it is closed |
| `LocalSupervisor` | runners, inspecting processes, record files and processes of one launch |
| `CallbackBatcher` | the queue before the foreground conversation, with its host and producers |
| `ParentDelivery` | how the end of a task reaches the session that launched it: journal, outbox, batcher key, reloads |
| `ConversationWriters` | the attempts that continue one conversation, their lease and records |
| `WorkerWaits` | one parked assignment: admission, checkpoint, exit, resume, cancellation, reconciliation |
| `Capacity` | the admission gate of subagent runs and the calls that pass it |
| `GoalContinuation` | the handlers that continue an active goal |
| `SessionMove` | a session that is handed from machine to machine |
| `OperationCoordinatorProofs`, `LocalSupervisorProofs`, `CallbackBatcherProofs`, `SubagentProofs` (conversation writers and capacity), `WorkerWaitsProofs`, `ParentDeliveryProofs`, `GoalContinuationProofs`, `SessionMoveProofs` | theorems |
| `MC...` | constants, scenarios and symmetries for TLC |

`OneWriter` is implemented twice: by the resume claims of the store
(`OperationCoordinator`), where a writer is a published claim, and by the launches of
processes (`ConversationWriters`), where a writer is a living child. `WorkerWaits` stands between
the two: its store is one generation of the first, its attempts are those of the second.
`ParentDelivery` uses the store and the batcher in the same way, reduced to one task and
one key.

Two conventions. Definitions whose comment begins with "mutant" are altered forms of the
definition after them; no specification uses them, and substituted for the original
they show that a property notices the change. Where a property is a conjunction of parts, the
parts have mutants of their own. And in `ParentDelivery`, `WorkerWaits`,
`GoalContinuation` and `SessionMove` a behaviour stays in one *scenario*, chosen in
`Init` from the constant `Scenarios`: a record that says which processes take part and
which disturbances happen. A scenario only ever removes behaviours; it keeps instances small
in which everything may happen, but not all of it at once.

### 2.1 OperationCoordinator

A call of the store is one `BEGIN IMMEDIATE` transaction (`sqlite.ts`), so it is
one action with all it writes; a refused call rolls back and is not a step, and a
replayed call (same launch, event, publication, read) writes nothing. Arguments
are quantified freely, which is how the model says that callers are several
processes with old views.

| State | Code |
|---|---|
| `opPhase opOwner opTask opEvidence health` | table `operations` |
| `phase owner park epoch deps settled` | `waits`, `wait_dependencies`; a generation is `<<wait id, number>>` |
| `proven` | history: a checkpoint proof was given for a parked generation |
| `claimState claimOf claimEpoch claimAttempt` | `resume_claims` |
| `reads pinned unpinned` | `evidence_reads`, `evidence_pins` (held, released) |
| `outbox holder` | `outbox_events` and the token of the dispatcher |

The unique indexes are modelled where the code leaves a check to them
(`OnlyPending`, `ActiveClaims`). Outcomes are revision 1 only, as in the code.
Leases, timestamps and payloads are left out: no call decides by them.

Properties. `NoLostWakeup`. `WaitsAreSound`: claims agree with phases
(`ClaimMatchesPhase`), one generation of a conversation is pending
(`OnePendingPerContinuation`), superseded generations stay over
(`SupersededIsTerminal`), a parked generation has its checkpoint proven
(`CheckpointGate`). `DeliveriesAreSound`: a ready generation has the deliveries of
everything it waited for (`ReadyIsDeliverable`), with their evidence (`DeliveryHasEvidence`),
and a closed one retains none (`TerminalRetainsNothing`). `LateCallsChangeNothing`: what was
dealt with stays dealt with (`DealtWithIsFinal`) and a token names one dispatch
(`TokenNamesOneDispatch`). `ImplementsOneWriter`: a published claim is a writer of its
generation, the attempts ever published are used, and a generation is closed
when it is cancelled, or consumed with no unpublished claim open.

### 2.2 LocalSupervisor

One launch token. `files` are the record files: they appear whole (a hard link of
a complete temporary file) and `claim`, `result` and `lost` are created
exclusively. `fence` is the SQLite write transaction of `withStateFence`. A runner
has a control point `pc` (started, loop, ready, spawned, running, stopping,
ending, written, exited), the number of checks it made and the verdict it is
about to write. Processes are pairs `<<runner, check>>`: `leader`, `group` and
`known` say whose leader lives, whose group has members, whose identity was
recorded. An observer has a control point `at` and a `plan` (inspect, stop, the
inspection after a stop, the one after a cleanup), and what it read.

Steps are cut where another process's write can matter: an inspection reads
result, lost, claim and command one after the other outside the fence, reads
again inside it, and probes the claimant last. `CrashRunner` and `CrashObserver`
happen at every point; a crash inside the fence gives it up, as SQLite does.

Properties: `OneExecution` (of any number of runners started for a token only
the claimant executes), `EndedIsQuiet` (no command starts after an end),
`ResultIsTrue` (a result that does not say "unproven" has no living leader, "empty" names
a group without members, and a supervisor's "no command was executed" is true),
`LossIsNotReplaced`, `StopEnds`.

Not in the model: recycled process ids (identity is a pid with its start time,
modelled as exact), Windows process trees, the content of logs and the
evaluation of watch conditions (their outcome is a choice), `recordLost: false`
(an inspection that publishes nothing), removal of old task directories.

### 2.3 CallbackBatcher

`pending` is the queue, `flight` the batch handed to `sendMessage` and what did not
fit into it (`inFlight`), `handed` is `handedOff`, `timer` says that a flush is
scheduled, `awaitingRun`, `whileBusy`, `foreground` and `tools` are the batcher's
fields. The host is `session` (none: the batcher is cancelled) and `run`: idle,
requested (it accepted a message and has not started the run), running, ending
(after `agent_end`, before `agent_settled`), compacting. The producers' durable
receipts are `receipt`, the owner check is `OwnerOf`. `told` is what the
conversation was told.

A flush is one step up to its `await`; `Landed` and `Refused` are what follows it,
and anything may happen in between. Retries and windows differ in their delay
only, so a timer is a Boolean. `trouble` is a phase in which receipts throw, the
host refuses and the availability check throws; any subset of the reads and
writes of a step may fail in it.

Properties: `ToldOnce`, `ReceiptIsTold`, `OneRequest`, `PendingIsScheduled`,
`QueuedIsSettled`.

Assumptions: the host decides when it is called whether it takes a message, and
the promise tells later; a manual compaction starts from an idle host; a session
that is left ends its run. A batcher before the first session, a vetoed session
switch and a batcher without an availability check (used by tests) are left out.
The text of a message is abstracted to the rows it shows: `Represented` is every
nonempty part, of which `packCallbackBatch` shows the one that fits.

### 2.4 ParentDelivery

One supervised task that has been launched, and every process that opens the task store.

| State | Code |
|---|---|
| `ended`, `recorded` | the supervisor's result; the terminal revision in the coordinator |
| `wait event eventBy` | the owner's waits on the task, their outbox events and the claims of these |
| `sidecar` | the launch context file: the claim (host id, token), the receipt of the stand-alone callback, the proofs of handed-over wait deliveries |
| `open opening host view gone` | per process: is a store open, which opening, which extension instance, what its foreground shows, is the process dead |
| `doing` | what a process is in the middle of: recovery, an inspection, the routing of one outbox event, or the write of a changed copy of the sidecar |
| `pend noticed` | the callbacks the host still wants to attempt, and those it has looked at |
| `slot handed heard` | the batcher: the notification of the key, whether the key was handed over in this process, what was shown |

`Attempt` is `attemptTerminalCallback`, cut between the read of the sidecar and the write of
its copy, since another process may write in between; `Write` is `writeLaunchContext`
together with the call of `notifyParent` that follows without an await. `Delivered`
and `Defer` are the two closures handed to the batcher, which remember the opening and
the token they were made with and may run in a later one. `Close` and `Start` are the session
events; `host'` may stay the same (scenario `reuse`), because
`session_before_switch` closes the store and the same instance may handle the next
`session_start`.

Properties. `MessagesAreTrue`: no receipt, proof or delivered event without a message shown
by some process (`ReceiptsAreTrue`), and one message per process (`OneMessage`).
`NoStrandedClaim`: once a host has recovered, no event is claimed by an earlier instance
of its process. `OwnerIsTold`: an owner whose session stays in front is told, after any
history of reloads of its own process; it is stated for a session
that nothing else disturbs, because the code does not keep it otherwise (section 7).

Abstracted: the batcher is reduced to the key of the task (section 2.3 has all of it), tokens are
some unused number, the store of the coordinator to the waits on the task.

### 2.5 ConversationWriters

`meta` is the recorded status of an attempt (`run.json`), `child` its process, `parent` the
process that spawned it and watches its exit, `lease` the lease file of the
conversation, `job` a launch under way (planned, leased, admitted, spawned, discarding).
`Plan` is `planContinuation`, `Acquire` takes the lease or reclaims a dead holder's
(`Reclaimable`), `Revalidate` and `Refuse` are the second look under the lease and the
fences before the spawn, `Spawn`, `Publish` and `PublishFails` the child and its record,
`Exit` the close handler, `Stop` `subagent_stop` (the record says killed, the child
may live on), `Adjudicate` what `reconcileAbandonedRuns` and `recoverInterruptedSubagents`
conclude about the runs of a process that is gone. `Crash` ends a process; its children live on.

Properties: `FilesAreTrue` (a continuation that lives holds the lease, and a recorded
end other than a stop is of a child that is gone) and the refinement of `OneWriter`.
`failed` is a history variable: an attempt whose record could not be written is not
covered (section 7).

### 2.6 WorkerWaits

One generation of one wait of one worker. `phase`, `claim` and `settled` are in the
coordinator's store, `record` is `park.json`, `meta`, `child`, `parent` and `seen` are as in
`ConversationWriters`. A `host` is an instance of the extension (off, starting, on, closed,
quit, dead): a closed one has ended its session, its process lives on and so do its exit
handlers. `todo` is the rest of what a host does at a stretch, cut at each store
transaction; `job` is `resume()` between its awaits (admit, claim, publish, launch);
`scan` is the record as `reconcileParkedWaits` listed it; `parked` is the phase that a call of
`checkpointWorkerWait` will return: after its transaction (observed-waits.ts:1716) it awaits the
delivery of all that is ready (1724), its own wait included, so that a whole `resume()`, a stop or
the end of the resumed attempt may come before `park.json` is updated with what was
true at the transaction (worker-waits.ts:1338). The other awaits (of the handlers of an
acknowledgement and of a cancellation, and of a checkpoint that finds nothing to do) wait for
promises that are settled by then, and end no stretch.

| Actions | Code |
|---|---|
| `WaitAdmission Admitted Checkpoint ParkFailed Acknowledge` | the bridge's handlers of a worker's calls |
| `Exit Recover Park ParkReturns FailPark HoldFailedResume MirrorPhase FollowCancel` | `finalizeRun`, `settleParkedExit`, `settleResumedAttemptExit` and what they call |
| `Delivered Admit ClaimResume PublishResume PublishFails RecordPublished Launch Register LaunchFails Abandon` | `onWaitReady` and `resume` |
| `Reconcile` | `reconcileParkedWaits`, `recoverStagedPark` |
| `StopParked StopUnserved StopRun` | `subagent_stop` |

Properties. `ConversationIsSafe`: at most one attempt is ever started to resume a
generation, while the conversation is open to a resume the attempt that parked it is gone,
and a record that lets the user continue by hand is of a wait that is over. `EndIsFinal`:
an ended generation starts no attempt (`NoLateLaunch`), and a cancellation is followed
to the attempt it finds (`CancelIsFollowed`) in a session by itself. `ParkIsResolved`: in a
session that stays, a checkpointed assignment whose operation has ended is acknowledged,
cancelled or held for its owner; or the launch of its resume was refused (`LaunchRefused`). After
a refusal the code holds the assignment in the record only, and the update that follows
the delivery may undo that: section 7, `RefusedStaysHeld`.

Abstracted: `updateParkRecord` (read, change, write) is one step; goal admission,
capacity, owner and branch checks are a choice between going on and `hold`; policies, prompts and
the bridge's protocol are left out; later generations of the same wait are not modelled.
`StopUnserved` is a stop before the coordinator's store is reachable; it is in one scenario.

### 2.7 Capacity

`pending` and `running` are the gate's numbers, `call` what each call of a spawn tool
holds and where it stands: waiting for a slot, preparing a job, started, to be committed. The modes
are a single spawn (also a continuation and an automatic resume), one that the catalog
split into several jobs, and the two modes of the batch. `Check` is the live occupancy
check of `spawnSubagentRun`, `Create` the creation of the child two awaits later.

Properties: `LedgerIsExact` (what is pending is what the calls in progress hold: no slot
leaks and none is returned twice) and `PromisesAreKept` (nobody is promised more than
the cap, and a reservation is good for its launch unless the cap was lowered). The
separate gate of a reloaded extension is not modelled.

### 2.8 GoalContinuation

`s` is the record of what the handlers of a session share (goal, continuation state,
permission hold, foreground, `executionGeneration`, timer, drain tracker, latest snapshot)
with the handlers that await a snapshot, oldest first; `auto` is the preference, `bg` whether
something runs in the background. A handler up to its await is one step, `Read` is the
answer of the snapshot's providers, and what follows (`Settled`, `Audited`, `Enabled`,
`Restored`, `Polled`, `Looked`, `Scheduler`) another; turns, commands and other handlers happen in
between. A handler whose execution generation has passed does nothing more, so it is
forgotten when the generation advances; whether its wake generation is current is
`wake`, whether a younger snapshot was applied first is `late`.

Properties. `WakesAreWanted`: a pending timer is of the current, active, unheld goal
with the preference on, and an automatic continuation is sent to such a goal only, in an
idle session. `RetriesEnd`: without progress a goal is continued at most `MaxRetries`
times (once when that is 0), and only the user reopens an exhausted hold. `GoalIsContinued`: an active goal
that nothing holds, in an idle session, does not stay so.

`Neglected`, which that property is about, includes that no continuation is queued: whether the
host starts a turn of its own for a follow-up that was queued during a turn is not
determined by this repository. Abstracted: backoff delays (a timer fires some time), the
limits of 128 permission records and 32 blockers (`full` is a choice), the content
of evidence. In a scenario with `waits` every goal is bound to a skill, and its command is sent
in place of a continuation (`Invoke`). Left out: goals bound to the command of an extension (which sets
a timer besides) or to a prompt, a goal that is bound to a skill command as the user types it
during a turn; completion and handback gates, operation admission, bound
commands that disappear, clocks, the display.

### 2.9 SessionMove

`own` is each host's ownership record, `index` and `disk` the daemon's entry of the
session in memory and as a restart reads it, `live` whether it is hosted, `newest` the
version of the transcript the last turn wrote, `mv` the moves: where the orchestrating process
stands (`cli`), its two connections, the commit or its answer under way, the transfer in
the target's memory, the bundle, what a failed import restores, and what the user was
told. `Home` is the user's machine (`detach/`): its entry is the local transcript, and its
gates read the record alone.

`Fence` to `CloseRetired` are `moveSession`, one action per request with its effect at the
source or at the target; `StartImport`, `ImportDone`, `ImportFails` and `LocalImport` are
`commitOnce`, cut where it awaits; `Abort`, `Retry` and `Undo` are the error path.
`LoseSource`, `LoseTarget` (with the commit arriving late or not at all), `Die`, `Restart` and
the failing steps are the faults; `Look` and the recoveries are the operator.

Properties. `HandOverIsSafe`: one host can write, and its epoch is above that of every other
host that lists the session. `NothingIsLost`: the newest transcript is at a host that owns or
fences the session, the writer continues the newest one, and an acknowledged import survives
a restart of the target. `AnswersAreTrue`: every move ends, while the connections hold no
fence is left behind, and "unchanged" is final.

Abstracted: fencing and releasing the runtime are one step, the chunks are sent with
the commit, a copy lands under a new identifier that has no state of its own, bundles,
checksums, preflight and the stop of companions are left out, an end has one client. Moves are
numbered in the order in which they begin.

## 3. Runs

| Run | Instance | What it shows |
|---|---|---|
| `coordinator` | 2 operations and tasks, 2 wait ids of 2 generations, 2 owners, 3 claims, 2 attempts, 2 dispatchers; three slices: claims of one wait, deliveries of one generation, two owners | all safety properties of the store and the refinement of `OneWriter` |
| `coordinator_consumed` | 1 generation, 1 claim | **violated**: section 6 |
| `supervisor` | 2 runners, 2 checks, 2 observers; two slices: one observer beside two racing runners of a process or one watch that checks again, and a stop beside an inspection with one runner of a process | executions, ends, attestations of empty groups, races for a loss and a cancellation |
| `supervisor_stops` | 1 runner, 2 checks, 1 observer, fair | a stop ends the task |
| `supervisor_lost` | 1 runner, 1 observer | **violated**: section 6 |
| `batcher` | 2 completions and 1 urgent notification of one session, another session, 1 tool, fair | told once, receipts, no stranded queue, everything settles |
| `parent` | scenarios `Quiet` (one process, 3 openings, status and dismissal), the same with a reused instance, `Reloads` (in addition 2 waits and refusals), `TwoHosts` (2 processes that may crash, 1 wait); fair | deliveries to the parent |
| `writers` | 4 attempts, 2 processes | lease, records and the refinement of `OneWriter` |
| `waits` | 2 resumed attempts; one session with stops; or two sessions with crashes and stops, with crashes and reloads, with crashes and stops before the store is reachable; fair (708075 states) | one parked assignment |
| `capacity` | 3 calls of up to 3 jobs, caps 1 and 3 | the gate |
| `goal` | scenarios `Quiet` (2 handlers await), `Busy` (permission holds, scheduler waits, reloads), `Outcomes` (queued follow-ups, 2 kinds of evidence, looks), `Replaced` (2 goals); fair | the continuation of a goal |
| `move` | scenarios `Broken` and `Detached` (2 moves between 2 daemons, or of the user's machine and a daemon: connections, late requests, failing steps, dead clients, restarts), `Returns` (3 moves there and back with failing steps), `Travels` (3 moves among 3 machines), `RolledBack` (1 move whose roll-back fails), `Recovered` (1 detach and the recovery its message names); fair | hand-overs |

Why these bounds. The coordinator's calls look at one generation, its successor
and its owner's other rows, at one active claim and the one that is late, at the
dependency that settles and one that does not: two of each, three claims (one
released, one active, one late). The store has no call whose effect counts
further. Two runners are the rivals for a token; a third
behaves as the second. Two checks are a first and a next one. Two observers are
the rivals for the fence; with the runner they are the three writers of the
records. In the batcher the completions have keys of their own (the proofs cover shared
ones), and a session is left for another one, or for the same. Three openings of a host are the
one that claimed, the one that is reloaded while the first one's closures are in flight, and
the one that recovers. Four attempts of a conversation are the first one, a continuation that is
lost or stopped, one that reclaims its lease, and one that races with that. Two resumed
attempts are the rivals for one generation. A cap of 1 under which 3 run is a lowered
one. `MaxRetries` is 0, the least the parser accepts, and the machine of 1 as well: a limit is looked at
where an outcome has been seen again, and the count is 1 by then. Histories of sends stop at 2:
one more than what is allowed. Three moves are there, back, and on. `MaxGeneration`, `MaxChecks`, `MaxOpen`,
`MaxTasks`, `MaxFollowUps`, `MaxSends`, `MaxMoves` and `MaxTurns` are the only bounds on counters; epochs
of the coordinator reach 1, as a cancelled generation is never cancelled again. The
proofs in section 5 have none of these bounds. Deadlock is checked but in `parent`,
`writers`, `waits` and `move`, in which everything may have ended.

## 4. Fairness

Safety is checked without fairness. The liveness properties assume:

* `StopEnds`: runners and observers that can take a step take one (the
  scheduler of the operating system), the claim grace passes (a clock), an
  observer's polling goes on (`ObservedWaitHost` polls every `pollMs`) and it is not
  killed for ever. Commands are *not* assumed to exit, and runners may crash at any
  time: termination is by the escalation of signals and by inspection.
* `QueuedIsSettled`: timers fire and promises settle; a host that accepted a
  message starts a run, a run ends and settles, a compaction ends; trouble
  ends; and a timer that fires infinitely often while a mode is available does so
  with that mode (strong fairness of the flush: an availability that came and went
  exactly between all retries would starve the queue, and nothing in the code
  prevents it). Enqueueing, steering, tools and session switches are not fair.
* `OwnerIsTold`: what a process is in the middle of goes on (weak); its reconciliation,
  attempts, flushes and hand-overs happen though the process is interrupted by tool
  calls and navigation infinitely often (strong: these come from intervals of their own).
* `ParkIsResolved`: the operation and the children end, and an instance that has something to
  do does something. A delivery of a ready generation that is refused for capacity is made again.
* `GoalIsContinued`: the providers answer the oldest await; the poll's interval and the
  idle timer fire (strong, since the bound on awaiting handlers may disable them for a
  while, which nothing in the code does). Neither the user, nor the model, nor the
  background is assumed to do anything.
* `AnswersAreTrue`: the processes that were asked to move, and daemons that import, go
  on. One weak fairness for all of them suffices, as each takes finitely many steps.

## 5. Proofs

All theorems are proved for every value of the constants under the named
assumptions of the modules (`GenerationsAssumption`, `OwnersAssumption`,
`ChecksAssumption`, `EventsAssumption`, `WritersAssumption`, `WorkerWaitsAssumption`,
`ParentDeliveryAssumption`, `CapacityAssumption`, `GoalAssumption`,
`ScenarioAssumption`, `MoveAssumption`, and `NoneAssumption` and `NoCallAssumption`: NULL is no value). They are proved of `Spec`, without
fairness, so they hold of the fair specifications that the runs check as well.

* **Store.** `TypeCorrect` by one case per call. `ClaimInv` = `ClaimShape` (a claim
  row has its columns in each state) and `ClaimMatchesPhase`; the first is needed since
  a phase says nothing about a row that was never claimed. `NoLostWakeup` is
  inductive with the types: its first conjunct (dependency rows are settled exactly
  when their operation is terminal) carries the second. `CheckpointGate`,
  `OnePendingPerContinuation` and `SupersededIsTerminal` follow by one lemma each, and
  `WaitsStaySound` collects them.
* **Outbox and evidence.** `DeliveryInv` adds: a voided delivery belongs to a
  cancelled generation, a delivery's operation has ended, a claimed delivery's
  generation is deliverable. With it `ReadyIsDeliverable`,
  `TerminalRetainsNothing`, `DeliveryHasEvidence` (together `DeliveriesStaySound`) and
  `TokenNamesOneDispatch`.
* **Refinement.** `StoreImplementsOneWriter`: initial states map to initial states and
  each call maps to a start, a stop, a close or a stutter of `OneWriter`, given
  `ClaimInv`. `DealtWithStays`, and with it `LateCallsAreHarmless`, follows from the same
  case analysis.
* **Supervisor.** `ExecutionInv` is the conjunction of: only the claimant is at a
  control point that executes (`ClaimantExecutes`), a leader is its runner's
  current attempt, runners write about themselves, what the observer inside the
  fence read is still true (`FenceProtects`), a stop is on record before its
  inspection reads (`StopPrecedesReading`), and no runner is about to spawn after
  an end (`EndingsAreQuiet`). From it `OneRunnerExecutes`, `LossStands`,
  `CancellationIsTrue` and `EndIsQuiet`. `TruthInv` adds that a cleanup is of the current
  attempt and that the verdict a runner is about to write is of its last attempt; a group
  proven empty stays empty, since no other attempt follows the stop that the cleanup
  needs. This gives `ResultStaysTrue`.
* **Batcher.** `QueueInv`: one event of a key is queued or in flight; what was told is
  what was handed over and the batch in flight if the host took it; a requested
  run is awaited, and no refusal is outstanding then; the two invariants of the run.
  A flush has lemmas of its own, as three actions start one. `CompletionsAreToldOnce`
  and `RequestsAreSingle` need in addition that only a flush tells.
* **Conversation writers.** `RecordInv`: a launch under way is of an attempt that was not used
  (`LaunchIsNew`), a record is of an attempt that was spawned, a recorded end is true
  (`EndedIsGone`), and the first attempt is gone before anybody continues it
  (`FirstIsGone`). `LeaseInv`: the lease covers the launches past its acquisition and the
  writer, and an attempt whose record failed has none. Together they are inductive: a lease
  is reclaimed only from a holder whose record shows an end, and that end is true. From them
  `FilesStayTrue`, `EndsAreTrue` and, step by step, `LaunchesImplementOneWriter`.
* **Worker waits.** `ResumeInv`: a staged exit is recorded with its proof (`ParkIsProven`), two
  hosts that resume have different ids (`JobsDiffer`), a host between its claim and its launch
  holds the claim or the wait has moved on for good (`JobsHold`), and an attempt that was
  started had the published claim (`StartedHadClaim`). `ReleaseInv`: what a host goes on to
  announce as over is over. This gives `ConversationStaysSafe` and `EndStartsNothing`.
  That `checkpointWorkerWait` returns late disturbs neither: the record is not read between a claim
  and its launch, and what is returned (`parked`) is never an end, so that it releases nothing.
  `FollowInv` is about a session that is by itself: the record names its attempt from
  the publication on, and while a cancelled generation has a running attempt the session is
  about to follow the cancellation and has not yet marked the record, by which it finds the
  attempt. That the others have not begun is preserved because they can do nothing but
  begin (`OffOnlyStarts`). It gives `EndStaysFinal`.

* **Delivery to the parent.** `OneInv`: once a process's host is gone its store is
  closed; a process that has shown a message remembers it (its batcher has handed the event
  over or accepted it), so that no second one is shown; and a receipt is of a message that was
  told, or there is none. `ClaimInv` adds that a claimed event has a claimant. They give
  `MessagesStayTrue` and `NoClaimIsStranded`: reloads, crashes and closures that fire late
  change neither.
* **Capacity.** `LedgerInv`: what a call holds follows from how far it is (`CallsAgree`), the
  slots of the calls are finitely many, and the ledger is their number. The calls themselves
  need not be finitely many. `LedgerStaysExact`; with it `PromisesStayKept`: each child that
  was created and not committed has a slot of its own, so that the cap that was compared with
  running and pending jobs is not exceeded.
* **Goal.** `Good` is the inductive invariant of the record that the handlers share, for a set
  of kinds of tasks that await: timers and queued continuations are for the current goal
  (`Timely`), turns are judged and goals audited between turns only (`Between`), a turn that
  showed something new has had its progress noted when it is judged (`Judged`), and
  continuations are counted but for the last one, whose turn is to begin, runs, has ended or is
  to be judged and showed the same as the one before (`Counted`, `Pending`). For a limit of 0
  the bounds are those of 1 (`Most`): a count that is compared is not 0 (`MostType`). `Counted` is why
  the retries are bounded although they are counted long after they were sent, on the far side
  of a snapshot. It is antimonotone in the kinds, so that what a handler leaves is good with its
  own task counted or not. Each helper has a lemma on the fields it changes; each handler one
  that what it leaves is good and reopens no hold (`Follows`). This gives `TypeCorrect`,
  `WakesStayWanted` and `RetriesComeToEnd`.
* **Hand-over.** `TypeInv` is the types with the order of a move's stages (`InOrder`): a move that
  installs, acknowledges or ends has a bundle, an import in progress has its undo record, and
  one whose process is through has no word on the wire. `Safe` is `Structure` with two facts
  about claims. A host has a *claim* if it owns the listed session, or fences it for a move
  that can still give it back or hand it over; then `OneClaim`: two hosts never have one, and
  `ClaimIsLatest`: the claimant's epoch exceeds that of every other host where the session is
  listed. `Structure` is what this rests on: a fence is of a move that is under way from there
  (`FencesAreKnown`), there is one import at a time (`ImportsAreAlone`), a commit is of a fence
  that still stands (`CommitsAreFenced`), and the source does not change below its bundle
  (`SourcesAreStill`, `BundlesAreCurrent`). A step leaves the records alone, lets a claim go,
  or passes it from source to target (`RecordsStay`, `ClaimsShrink`, `ClaimPasses`), and an
  import ends in one of two ways (`ImportEnds`). This gives `MoveTypeCorrect`, and `HandOverSafe`
  under `Plain`: nobody recovers by hand, and a roll-back that begins ends. The hypothesis is about
  the code, not the proof: section 7 shows two writers after a recovery, and after a roll-back that
  fails half-way; the runs check the scenarios among these in which the property does hold.
  `NothingGetsLost`, under `Plain` too, adds `Kept`. (Its part `WriterIsNewest` claims nothing in a
  scenario in which daemons may crash; the other two parts hold there as well.) At each host `KeptAt`: what it has on disk
  ends where its list says, the bundle of a fence or of an import under way has the text of the
  entry it was made of, a claimant has the newest transcript, and what was delivered is there.
  And somewhere there is a `Keeper`: a host that has the newest transcript, has not retired the
  session, and does not fence it for a move that has gone through (`Spent`). `NothingIsLost` alone is
  not inductive: it does not say that the fence it relies on can still be lifted, nor that
  the bundle the target installs is the text of that fence. In a step nearly all hosts rest
  (`Rests`, `GoesBy`); the keeper changes only where an import is acknowledged.
  `UnchangedStaysFinal` is the safety half of `AnswersAreTrue`, again under `Plain`. `Final` says
  that a move that says "unchanged" is `Closed`, made no host the owner, and has ended only
  when the source was given back; and that each owner's record is known to the move it names
  (`OwnersAreKnown`), which is why an abort that finds no commit can rely on it.

Only model-checked: the liveness properties (outside the prover's reach); that the moves of
`SessionMove` come to an end (the other half of `AnswersAreTrue`); and `HandOverIsSafe`,
`NothingIsLost` and `UnchangedIsFinal` in the scenarios that are not `Plain`.
## 6. Findings

1. *A consumed wait can be reopened* (`coordinator_consumed`). `acknowledgeResult` of
   a resuming generation leaves a claim that published nothing active;
   `releaseResumeClaim` looks at the claim and not at the phase, and moves the
   generation from consumed back to ready or held. The coordinator's README
   declares consumed final. `DealtWithIsFinal` is what does hold.
2. *A lost task can turn out to have a result* (`supervisor_lost`). The inspection
   reads `result.json`, then probes the claimant; the runner writes its result
   without the fence and exits in between; `lost.json` is published beside it. The
   supervisor's README says that no terminal evidence can appear after a loss.
   `LossIsNotReplaced` is what does hold, for supervisors.

## 7. Divergences

The newer modules met further places at which the code does not do what a comment or a
document says. The properties above are stated so that they exclude them; the operators
named here, at the end of the modules, state the sentence of the code, and TLC
finds each violated within seconds in the scenario given (add it to a configuration of the
module with that scenario as `Scenarios`). None of them is a listed run.

ParentDelivery:

* `ClaimHasClosure` (`Reloads`, or `Quiet` with a wait). observed-waits.ts:3110: a callback stays claimed "until the
  batcher's actual handoff calls delivered()". `notifyParent` (index.ts:18) drops
  the Boolean that `enqueue` returns: when the key is queued or in flight already, the
  event is claimed and its closure is dropped. A refused notification of an older
  instance occupies the key in the same way.
* `OwnerIsTold` without the condition that no wait was registered (`Quiet` with a wait). After that refusal
  the queued callback can be suppressed because another branch is in front, and
  attemptTerminalCallback then leaves the delivery to the pending wait, whose event this
  host still claims: an owner that stays in front is told nothing.
* `OwnerIsTold` without `host[p] = opening[p]` (`Quiet` with `reuse`). An instance that closes and opens
  again takes its own earlier claim for a delivery in flight (observed-waits.ts:2709),
  but its closures were dropped at the switch.
* `WaitIsTold` (`Quiet` with two waits). observed-waits.ts:3052: "a task-wide standalone callback receipt is
  never proof for a later wait". The batcher keys what it handed over by the task
  (callback-batcher/index.ts:629) and calls `delivered()` of a later wait without a message.
* `NoDoubleNotify` (`TwoHosts`). observed-waits.ts:2667: "the two paths do not double-notify". Nothing
  about the wait's delivery is written to the callback's journal, and the memory of the
  hand-over is the batcher's, which is lost with its process.
* `LiveClaimKept` (`TwoHosts` without a wait). observed-waits.ts:2692: "never write any journal field while a
  newer or unprovable other host owns the claim". `recordTerminal` (2631) annotates a
  copy it read before and writes it without looking at the claim.

ConversationWriters:

* Two children of one conversation at once, once a record could not be written. index.ts:2718: "the
  lease stays held until that child has actually exited". The catch block of
  `spawnSubagentRun` (2783) releases the lease first and kills the child afterwards.
  `ImplementsOneWriter` and `LeaseCoversWriter` exclude the attempts in `failed`.

WorkerWaits:

* `CancelledStays` (one session, with stops or without). index.ts:3490 tells the user that the conversation can
  be continued. When the run is still exiting, its handler writes "held" over "cancelled"
  (worker-waits.ts:1323), or the late mirror "ready" (1338), and the manual continuation is refused.
* `CleanParkKept` (two sessions, one closes). index.ts:2817: "reconciliation at the next session
  start retries the proof". A closed instance still runs its exit handler and writes "held"
  over the staged record, which reconciliation then cancels.
* `NoSilentResuming` (two sessions, crashes). worker-waits.ts:2473: "the unconsumed generation is
  settled explicitly". When the parent died between publication and the record,
  reconciliation passes the id of the parked run and the outcome is ignored.
* `RefusedStaysHeld` (one session without stops). worker-waits.ts:2011 to 2013: "the durable record
  holds it for recovery". When the operation settled before the exit, `checkpointWorkerWait` resumes
  the wait itself; if the launch is refused the record is marked "held" (2015), the view from before the
  delivery overwrites it with "ready" (1338), the exit handler resumes again (index.ts:2810), finds
  "resuming" in the store and copies that to the record (1929). Nothing acts on it until
  another session starts. `ParkIsResolved` excludes it by `LaunchRefused`.
* `ResumeKept` (one session without stops; or two). worker-waits.ts:2304: "never a fallback cancel". The late
  mirror of "ready" lets the exit handler resume a wait whose attempt runs already; when the Goal
  refuses that second admission, `hold()` calls `failWorkerPark`, which cancels the generation, and the
  running attempt is stopped. With two sessions a supervisor that loses the claim
  calls `hold()` in the same way, and cancels under the one that won it. A late mirror can overwrite
  "held" there, too, which is why `ParkIsResolved` is stated for one session.
* `NoOrphanedWait` (one session). child-operations.ts:739: "never a simulated park". A worker that
  dies before its checkpoint leaves a generation in parking that no record names.
* `UnknownIsUnstarted` (two sessions with stops). worker-waits.ts:2122: "nothing was spawned". The child is
  spawned before its metadata is written (index.ts:2621, 2744).
* `CancelledNotResumed` (`unserved`). worker-waits.ts:2070: "so nothing resumes it". Without a
  service only the record is marked, and `resume()` does not refuse "cancelled" (1854).

Capacity:

* `NoGrandfather` (caps 1 and 2). index.ts:2534: reservations "do not grandfather unstarted
  work after a cap reduction. No await separates this live occupancy check, child
  creation, and the running metadata". Two awaits do (2583, 2620).

GoalContinuation (the limit of retries is no divergence: docs/usage.md:274 says that 0 holds "after the
first repeated identical outcome", which takes one continuation):

* `HoldIsSticky` without its first disjunct (`Busy`). README.md:21 of pi-better-goal: "conversation ... do not reopen an exhausted
  hold". A scheduler that answers "wait" resets the continuation state (index.ts:1559) before
  the hold is looked at.
* `PausedIsNotPoked` (`Outcomes`). README.md:17: "paused goals are never poked". A continuation that
  was queued as a follow-up of the running turn is not taken back by `/goal pause`.
* `OneRetry` (`Busy`). permission-hold.ts:144: "ONE bounded retry". A turn that starts
  while `agent_settled` awaits its snapshot makes it return (index.ts:1536) before it ends the release.

SessionMove:

* `OneWriter` with recovery at any time (one detach, `recover = "any"`). detach/recover.ts:3: "a recovery never leaves two live
  writers". The list is read (33) and the record written (46) apart, and a commit may be under way.
* `NewestIsKept` with recovery as told (`Recovered`, without its first disjunct). detach/recover.ts:41 refuses to retire what the
  daemon does not hold, but a session is listed while its import is in progress and may
  still be rolled back.
* `CommittedIsHeld` (`RolledBack`). core/move-host.ts:253: "the target owns the session". When the
  roll-back cannot write the index, the record is not released and abort answers "committed".
* `FailureUnfences` (`Broken`). README.md:493 of pi-better-server: "any failure before the
  acknowledgement aborts the target and unfences the source". `move_fence` is called
  outside of the try block (move/orchestrate.ts:96).
* `HomeComing` (`Recovered` with two moves). remote/recover.ts:31: "bring it back with: pi-remote return". After the
  recovery for a lost reply the tombstone names no target, and the return is refused as
  a stranger's (detach/local-sink.ts:162).
* `WriterIsNewest` without its first disjunct (`Broken`; `NothingIsLost` and the theorem about it
  say nothing of the writer where daemons may crash). core/ownership.ts:3: "a stale holder can be told apart from the
  current one". A daemon killed between the record and the entry (core/move-host.ts:232) opens its
  old transcript at the newest epoch. `RolledBack` has one move only for a related reason: with
  a second move's fence during an import whose roll-back fails, and a restart, two hosts can write.

## 8. Not modelled

Inside the modelled parts, besides what their sections name: `LocalImport` is one step where
local-sink.ts writes the transcript (185) and the record (188), so that a user's machine without a
record which dies in between keeps an unrecorded transcript; and `Undo` is a `move_unfence` that
succeeds and is answered, or does nothing. One whose reply is lost, or whose resume fails after the
record was unfenced, leaves a source that is free where the user is told that it is stuck.

* *Background task runtime* (`runtime.ts` and around): children of the session with timers and
  metadata; the supervised path replaces it for durable launches.
* *Failure observations, stall detector*: reductions of log records and evidence
  counters, sequential and covered by unit tests.
* *Sandbox, remote shells, user interface, settings, installers, prompts, log readers*: command lines,
  rendering and files, without a protocol. The sandbox core alone occurs in four
  copies of about 1750 lines.
* *Database and validation of the coordinator, the socket protocol, event log, expiry and
  companions of the server*: I/O below the steps of the models.
* Of the parts that are modelled in part: the launch of tasks and their projection to tools
  (`observed-waits.ts`), the bridge protocol and policies (`worker-waits.ts`), log
  parsing, spend and cleanup of runs (`pi-better-subagents`), the completion and handback gates of
  the goal, bundles, checksums, preflight and Codex threads of moves.

So the models cover the protocols and a small part of the repository's lines: about half of the
coordinator, supervisor and batcher, a sixth of the parts modelled in part, and nothing of the
rest, which is most of the 134000 lines.
