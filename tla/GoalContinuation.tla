---------------------------- MODULE GoalContinuation ----------------------------
(***************************************************************************)
(* The automatic continuation of a goal (pi-better-goal/src/index.ts): an  *)
(* active goal whose session has settled, with nothing in the background,  *)
(* is continued after a while; a goal that is paused, held for a missing   *)
(* permission, or out of retries is not.                                   *)
(*                                                                         *)
(* A handler that wants to know what runs in the background awaits a       *)
(* snapshot of it; turns, user input, commands and other handlers happen   *)
(* meanwhile.  A handler compares two generations after its await, which   *)
(* the code counts.  One whose execution generation has passed does        *)
(* nothing any more, so that it is forgotten here when the generation is   *)
(* advanced; each other awaiting task says whether its wake generation is  *)
(* still the current one (wake), and whether a younger snapshot was        *)
(* applied before its own (late).                                          *)
(*                                                                         *)
(* What the handlers share is one record, s; what they call without an     *)
(* await are functions from one such record, p, to the next.               *)
(***************************************************************************)
EXTENDS Integers, Sequences, SequencesExt

CONSTANTS
    Goal,          \* ids; each is used for one goal
    Evidence,      \* what a turn shows for itself
    MaxRetries,    \* MAX_NO_PROGRESS_RETRIES
    MaxTasks,      \* bound: handlers that await at a time
    MaxFollowUps,  \* bound: continuations queued behind the running turn
    MaxSends,      \* bound: automatic continuations that are counted
    Scenarios,     \* what may happen around the goal, see Scenario
    None

ASSUME GoalAssumption ==
    /\ MaxRetries \in Nat /\ MaxTasks \in Nat \ {0} /\ MaxFollowUps \in Nat
    /\ MaxSends \in Nat
    /\ None \notin Goal \cup Evidence

\* The count is compared only where an outcome is seen again, and is 1 by then: a limit of 0
\* allows the one continuation that shows the outcome again, as a limit of 1 does.
Most == IF MaxRetries = 0 THEN 1 ELSE MaxRetries

\* A behaviour stays in one scenario: the goals there may be; how many handlers await and
\* continuations are queued at a time; what turns show; whether permissions may be missing,
\* the goals are bound to a skill's workflow, whose scheduler may say "wait", the activity is looked at
\* besides, and the session is reloaded.
Scenario ==
    [goals : SUBSET Goal, tasks : 1 .. MaxTasks, followUps : 0 .. MaxFollowUps,
     evidence : SUBSET Evidence, holds : BOOLEAN, waits : BOOLEAN, looks : BOOLEAN,
     reloads : BOOLEAN]

ASSUME ScenarioAssumption == Scenarios \subseteq Scenario

Reason == {"interrupt", "permission", "none"}
GoalState == [id : Goal, status : {"active", "paused", "complete"}, reason : Reason]
Permission == [blocker : BOOLEAN, retry : BOOLEAN, full : BOOLEAN]
Snapshot == [fg : BOOLEAN, bg : BOOLEAN]
Continuation == [sig : Evidence \cup {None}, retries : 0 .. Most, blocked : BOOLEAN]
Timer == [goal : Goal, kind : {"continuation", "drained", "wait"}]
Task == [kind : {"poll", "look", "settled", "scheduler", "audit", "enable", "restored"},
         fg : BOOLEAN, bg : BOOLEAN \cup {None},
         wake : BOOLEAN, late : BOOLEAN]

ASSUME NoneAssumption == None \notin GoalState \cup Snapshot \cup Timer

VARIABLES
    scenario,
    s,     \* what the handlers of the session share
    auto,  \* the preference autoContinue
    bg,    \* something runs in the background
    used   \* goals there have been

moving == <<s, auto, bg, used>>
vars == <<scenario, moving>>

\* s.goal      the goal of the session, or None
\* s.cont      its continuation state
\* s.perm      its permission hold: a blocker, a retry that was released, a full history
\* s.fg        the foreground: idle, starting, running, ended (but not settled)
\* s.current   agentGeneration = executionGeneration
\* s.evidence  lastAgentEvidence
\* s.queued    continuationQueuedFor
\* s.timer     idleContinuationTimer
\* s.tracker   backgroundDrainTracker
\* s.latest    latestSnapshot
\* s.tasks     the handlers that await, the oldest first
\* s.followUps continuations queued behind the running turn
\* s.sends     history: automatic continuations since progress or an intervention
\* s.retried   history: a turn has begun under the released retry
State ==
    [goal : GoalState \cup {None},
     cont : Continuation,
     perm : Permission,
     fg : {"idle", "starting", "running", "ended"},
     current : BOOLEAN, evidence : Evidence \cup {None}, queued : Goal \cup {None},
     timer : Timer \cup {None}, tracker : Goal \cup {None}, latest : Snapshot \cup {None},
     tasks : Seq(Task), followUps : 0 .. MaxFollowUps, sends : 0 .. MaxSends,
     retried : BOOLEAN]

Fresh == [sig |-> None, retries |-> 0, blocked |-> FALSE]
NoHold == [blocker |-> FALSE, retry |-> FALSE, full |-> FALSE]

Init ==
    /\ scenario \in Scenarios
    /\ s = [goal |-> None, cont |-> Fresh, perm |-> NoHold, fg |-> "idle", current |-> FALSE,
            evidence |-> None, queued |-> None, timer |-> None, tracker |-> None,
            latest |-> None, tasks |-> <<>>, followUps |-> 0, sends |-> 0, retried |-> FALSE]
    /\ auto = TRUE /\ bg \in BOOLEAN /\ used = {}

-----------------------------------------------------------------------------
Active(p) == p.goal # None /\ p.goal.status = "active"
Idle(p) == p.fg = "idle"
Held(p) == p.perm.blocker \/ p.cont.blocked

\* The handler is over, or awaits again: p is what it leaves.
Becomes(p) ==
    /\ Len(p.tasks) <= scenario.tasks /\ p.followUps <= scenario.followUps
    /\ s' = p

Awaits(p, kind) ==
    [p EXCEPT !.tasks = Append(@,
        [kind |-> kind, fg |-> p.fg \in {"running", "ended"}, bg |-> None,
         wake |-> TRUE, late |-> FALSE])]

Progress(p) == [p EXCEPT !.cont = Fresh, !.sends = 0]

\* clearIdleContinuation; it advances wakeGeneration
ClearIdle(p) ==
    [p EXCEPT !.timer = None,
              !.tasks = [i \in DOMAIN @ |-> [@[i] EXCEPT !.wake = FALSE]]]

\* executionGeneration is advanced: the handlers that await are outdated.
NewExecution(p) == [p EXCEPT !.current = FALSE, !.evidence = None, !.tasks = <<>>]

\* mutant: the pending timer survives a change of the goal
SetGoalOnly(p, g) ==
    [NewExecution(p) EXCEPT !.goal = g, !.queued = None, !.tracker = None]

\* setGoal and clearGoal. A goal that is paused with a blocker is held for it, and its
\* retry is over.
SetGoal(p, g) ==
    LET held == g # None /\ g.status = "paused" /\ p.perm.blocker IN
    ClearIdle([NewExecution(p) EXCEPT
        !.goal = IF held THEN [g EXCEPT !.reason = "permission"] ELSE g,
        !.perm.retry = @ /\ ~held,
        !.queued = None, !.tracker = None])

With(g, status, reason) == [g EXCEPT !.status = status, !.reason = reason]

\* sendGoalContinuation: a follow-up of the running turn, or a turn of its own
Send(p) ==
    IF Idle(p) THEN [p EXCEPT !.fg = "starting", !.queued = p.goal.id]
    ELSE [p EXCEPT !.followUps = @ + 1, !.queued = p.goal.id]

\* queueGoalContinuation, after a setGoal that made the goal active
Queue(p) == Send(IF p.perm.blocker THEN ClearIdle(p) ELSE Progress(ClearIdle(p)))

\* scheduleIdleContinuation
Schedule(p, kind) ==
    IF \/ ~auto \/ ~Active(p) \/ p.queued = p.goal.id \/ Held(p)
       \/ /\ kind # "wait" /\ p.timer # None /\ p.timer.goal = p.goal.id
          /\ p.timer.kind = kind \/ (kind = "continuation" /\ p.timer.kind = "drained")
    THEN p
    ELSE [ClearIdle(p) EXCEPT !.timer = [goal |-> p.goal.id, kind |-> kind]]

-----------------------------------------------------------------------------
(* publishSnapshot *)

\* mutant: the progress is noted, and the goal left to the next turn
DrainedSilently(p, snapshot) ==
    IF Active(p) /\ ~snapshot.bg /\ p.tracker = p.goal.id /\ ~Held(p)
    THEN [Progress(ClearIdle(p)) EXCEPT !.evidence = None]
    ELSE p

\* Background work that was seen for this goal is seen to be over: this is progress.
Drained(p, snapshot) ==
    IF Active(p) /\ ~snapshot.bg /\ p.tracker = p.goal.id /\ ~Held(p)
    THEN Schedule([Progress(ClearIdle(p)) EXCEPT !.evidence = None], "drained")
    ELSE p

\* A snapshot is applied, unless a younger one was.
Published(p, t) ==
    LET snapshot == [fg |-> t.fg, bg |-> t.bg]
        drained == Drained(p, snapshot)
        tracked == [drained EXCEPT !.latest = snapshot,
                        !.tracker = IF Active(p) /\ t.bg THEN p.goal.id ELSE None]
    IN  IF t.late THEN p
        ELSE IF t.fg \/ t.bg THEN ClearIdle(tracked) ELSE tracked

\* The snapshot of task i has been collected, and its handler goes on with rest, which is
\* given what the snapshot leaves and whether an audit is still the current one.
Continues(i, kind, rest(_, _)) ==
    LET t == s.tasks[i]
        others == [s EXCEPT !.tasks =
            [j \in DOMAIN @ |->
                [@[j] EXCEPT !.late = s.tasks[j].late \/ (~t.late /\ j < i)]]]
        all == Published(others, t)
        after == [all EXCEPT !.tasks = RemoveAt(@, i)]
    IN  /\ t.kind = kind /\ t.bg # None
        /\ Becomes(rest(after, all.tasks[i].wake))
        /\ UNCHANGED <<auto, bg, used>>

\* A provider answers a snapshot.
Read(i) ==
    /\ s.tasks[i].bg = None
    /\ Becomes([s EXCEPT !.tasks[i].bg = bg])
    /\ UNCHANGED <<auto, bg, used>>

\* collectIfPossible, of the poll: one at a time
Poll ==
    /\ Active(s) \/ (s.latest # None /\ s.latest.bg)
    /\ \A i \in DOMAIN s.tasks : s.tasks[i].kind # "poll"
    /\ Becomes(Awaits(s, "poll"))
    /\ UNCHANGED <<auto, bg, used>>

\* The command and the hooks that only look at the activity
Look == scenario.looks /\ Becomes(Awaits(s, "look")) /\ UNCHANGED <<auto, bg, used>>

Nothing(p, current) == p

Polled(i) == Continues(i, "poll", Nothing)
Looked(i) == Continues(i, "look", Nothing)

-----------------------------------------------------------------------------
(* agent_settled *)

\* mutant: the identical outcomes are counted, but the count blocks nothing
DecidesAgain(p) ==
    LET retries == IF p.cont.sig = p.evidence THEN p.cont.retries + 1 ELSE 0
        after == [p EXCEPT !.cont = [sig |-> p.evidence, retries |-> retries, blocked |-> FALSE]]
    IN  IF p.evidence = None THEN Schedule(p, "continuation")
        ELSE IF p.cont.blocked THEN p
        ELSE Schedule(after, "continuation")

\* The retry that is due, or the sticky hold when there were enough of them
Decides(p) ==
    LET repeated == p.cont.sig = p.evidence
        retries == IF repeated THEN p.cont.retries + 1 ELSE 0
        after == [p EXCEPT !.cont = [sig |-> p.evidence, retries |-> retries,
                                     blocked |-> repeated /\ retries >= MaxRetries]]
    IN  IF p.evidence = None THEN Schedule(p, "continuation")
        ELSE IF p.cont.blocked THEN p
        ELSE Schedule(after, "continuation")

\* The rest of agent_settled, after its snapshot
Settles(p, current) ==
    IF Active(p) /\ p.perm.blocker
    THEN SetGoal([p EXCEPT !.perm.retry = FALSE], With(p.goal, "paused", "permission"))
    ELSE IF ~Active(p) \/ p.latest.bg THEN p
    ELSE IF auto /\ scenario.waits THEN Awaits(p, "scheduler")
    ELSE Decides(p)

Settled(i) == Continues(i, "settled", Settles)

\* schedulerWaitUntil has answered: the run waits until a known time, or it does not.
Scheduler(i) ==
    LET t == s.tasks[i]
        p == [s EXCEPT !.tasks = RemoveAt(@, i)]
        waiting == Schedule([Progress(p) EXCEPT !.evidence = None], "wait")
    IN  /\ t.kind = "scheduler"
        /\ Becomes(waiting) \/ Becomes(Decides(p))
        /\ UNCHANGED <<auto, bg, used>>

-----------------------------------------------------------------------------
(* The idle timer: sendIdleContinuationAfterAudit *)

\* auditIsCurrent, but for the generations
Auditable(p, g) ==
    /\ auto /\ Active(p) /\ p.goal.id = g
    /\ ~Held(p) /\ p.queued # g /\ Idle(p)

TimerFires ==
    LET fired == [s EXCEPT !.timer = None] IN
    /\ s.timer # None
    /\ Becomes(IF Auditable(s, s.timer.goal) THEN Awaits(fired, "audit") ELSE fired)
    /\ UNCHANGED <<auto, bg, used>>

\* mutant: what was true before the snapshot is not asked again
AuditsBlind(p, current) ==
    IF ~Active(p) \/ p.latest.fg \/ p.latest.bg THEN p
    ELSE [Send(p) EXCEPT !.sends = IF @ < MaxSends THEN @ + 1 ELSE @]

\* The audit is made again on what the snapshot leaves; then the goal is continued.
Audits(p, current) ==
    IF ~current \/ ~Active(p) \/ ~Auditable(p, p.goal.id) \/ p.latest.fg \/ p.latest.bg
    THEN p
    ELSE [Send(p) EXCEPT !.sends = IF @ < MaxSends THEN @ + 1 ELSE @]

Audited(i) == Continues(i, "audit", Audits)

-----------------------------------------------------------------------------
(* The foreground *)

\* mutant: a message of the user reopens an exhausted hold
HeardAlways(p) ==
    IF Active(p) /\ ~p.perm.blocker THEN Progress(ClearIdle(NewExecution(p))) ELSE p

Heard(p) == IF Active(p) /\ ~Held(p) THEN Progress(ClearIdle(NewExecution(p))) ELSE p

\* input: a message of the user. It begins a turn, or steers the one that runs.
Input ==
    /\ Becomes([Heard(s) EXCEPT !.fg = IF @ = "idle" THEN "starting" ELSE @])
    /\ UNCHANGED <<auto, bg, used>>

\* A completion or another extension begins a turn.
Triggered ==
    /\ Idle(s)
    /\ Becomes([s EXCEPT !.fg = "starting"])
    /\ UNCHANGED <<auto, bg, used>>

AgentStart ==
    LET started == ClearIdle(NewExecution([s EXCEPT !.fg = "running"])) IN
    /\ s.fg = "starting"
    /\ Becomes(Awaits([started EXCEPT !.current = TRUE, !.queued = None,
                          !.retried = @ \/ (Active(s) /\ s.perm.retry)], "look"))
    /\ UNCHANGED <<auto, bg, used>>

\* The running turn goes on with a queued continuation.
FollowUp ==
    /\ s.fg = "running" /\ s.followUps > 0
    /\ Becomes([s EXCEPT !.followUps = @ - 1])
    /\ UNCHANGED <<auto, bg, used>>

\* What the turn showed, unless the goal or the user's wish has changed since it began
Ended(p, e) ==
    [p EXCEPT !.fg = "ended", !.evidence = IF p.current THEN e ELSE None,
              !.sends = IF e = p.cont.sig THEN @ ELSE 0]

\* pauseGoalOnInterrupt
Interrupted(p) ==
    IF Active(p)
    THEN SetGoal(p, With(p.goal, "paused", IF p.cont.blocked THEN "none" ELSE "interrupt"))
    ELSE p

\* agent_end; an aborted turn pauses the goal
AgentEnd(e, aborted) ==
    /\ s.fg = "running" /\ (s.followUps = 0 \/ aborted)
    /\ Becomes(IF aborted THEN Interrupted(Ended(s, e)) ELSE Ended(s, e))
    /\ UNCHANGED <<auto, bg, used>>

AgentSettled ==
    LET kept == [NewExecution(s) EXCEPT !.evidence = s.evidence, !.fg = "idle"] IN
    /\ s.fg = "ended"
    /\ Becomes(Awaits(kept, "settled"))
    /\ UNCHANGED <<auto, bg, used>>

Background == bg' = ~bg /\ UNCHANGED <<s, auto, used>>

-----------------------------------------------------------------------------
(* The goal *)

\* The command of a goal is sent as a message of the user. It does not count as the
\* continuation that is queued for the goal.
Invoke(p) ==
    IF Idle(p) THEN [p EXCEPT !.fg = "starting"] ELSE [p EXCEPT !.followUps = @ + 1]

\* startOrReplaceGoal: the goal is set, and its command or its first continuation sent.
NewGoal(g) ==
    LET set == SetGoal(Progress([s EXCEPT !.perm = NoHold, !.retried = FALSE]),
                       [id |-> g, status |-> "active", reason |-> "none"]) IN
    /\ g \in scenario.goals \ used /\ used' = used \cup {g}
    /\ Becomes(IF scenario.waits THEN Invoke(set) ELSE Queue(set))
    /\ UNCHANGED <<auto, bg>>

\* Escape and an abort, or /goal pause
Pause(interrupt) ==
    /\ Active(s)
    /\ Becomes(IF interrupt THEN Interrupted(s) ELSE SetGoal(s, With(s.goal, "paused", "none")))
    /\ UNCHANGED <<auto, bg, used>>

\* resumeGoal, of /goal resume and the hotkey, or of the tool goal_resume in a turn.
\* The continuation that follows has a fresh count, or is the one retry of a hold.
Resume(tool) ==
    LET set == SetGoal([s EXCEPT !.perm.retry = s.perm.blocker, !.retried = FALSE],
                       With(s.goal, "active", "none")) IN
    /\ s.goal # None
    /\ s.goal.status = "paused" \/ (Active(s) /\ s.cont.blocked)
    /\ s.goal.reason = "permission" => s.perm.blocker
    /\ s.perm.blocker => ~tool /\ ~s.perm.full
    /\ tool => s.fg = "running" /\ s.goal.reason = "interrupt" /\ ~s.cont.blocked
    /\ Becomes(Queue(set))
    /\ UNCHANGED <<auto, bg, used>>

\* /goal clear, and completion by command or tool
Finish ==
    /\ s.goal # None
    /\ \/ Becomes(SetGoal(s, None))
       \/ Becomes(SetGoal(s, With(s.goal, "complete", "none")))
    /\ UNCHANGED <<auto, bg, used>>

\* tool_result of a worker: what it reports may be known already; the history is full
\* when something of the report was left out.
ToolResult(reported, known, gap) ==
    LET appended == reported /\ ~s.perm.full /\ ~(known /\ s.perm.blocker /\ ~s.perm.retry)
        gapped == gap /\ ~s.perm.full
        noted == [s EXCEPT !.perm = [blocker |-> @.blocker \/ appended, retry |-> FALSE,
                                     full |-> @.full \/ gapped]]
    IN  /\ scenario.holds
        /\ s.fg = "running" /\ s.goal # None /\ s.goal.status \in {"active", "paused"}
        /\ reported \/ gap
        /\ Becomes(IF s.goal.status = "paused" /\ s.goal.reason = "permission"
                      /\ ~appended /\ ~gapped
                   THEN noted ELSE SetGoal(noted, With(s.goal, "paused", "permission")))
        /\ UNCHANGED <<auto, bg, used>>

\* changePreference
SetAuto ==
    LET cleared == [ClearIdle(s) EXCEPT !.sends = 0] IN
    /\ auto' = ~auto
    /\ Becomes(IF auto THEN cleared ELSE Awaits(cleared, "enable"))
    /\ UNCHANGED <<bg, used>>

\* The rest of it, when continuation was switched on
Enables(p, current) ==
    IF Active(p) /\ Idle(p) /\ ~p.latest.bg THEN Schedule(p, "continuation") ELSE p

Enabled(i) == Continues(i, "enable", Enables)

\* session_shutdown and session_start: what was in memory is gone.
Reload ==
    LET forgotten == [ClearIdle(NewExecution(s)) EXCEPT !.fg = "idle", !.followUps = 0,
                         !.queued = None, !.tracker = None, !.latest = None, !.tasks = <<>>,
                         !.sends = 0]
        restored == IF Active(s) /\ s.perm.blocker
                    THEN SetGoal(forgotten, With(s.goal, "paused", "permission"))
                    ELSE forgotten
    IN  /\ scenario.reloads
        /\ Becomes(Awaits(restored, "restored"))
        /\ UNCHANGED <<auto, bg, used>>

\* A restored goal goes on by itself when it is bound to a command.
Restores(p, current) ==
    IF Active(p) /\ scenario.waits /\ Idle(p) /\ ~p.latest.bg THEN Schedule(p, "continuation") ELSE p

Restored(i) == Continues(i, "restored", Restores)

-----------------------------------------------------------------------------
Handles(i) ==
    /\ i \in DOMAIN s.tasks
    /\ \/ Read(i) \/ Polled(i) \/ Looked(i) \/ Settled(i) \/ Scheduler(i) \/ Audited(i)
       \/ Enabled(i) \/ Restored(i)

Next ==
    /\ \/ \E i \in 1 .. MaxTasks : Handles(i)
       \/ Poll \/ Look \/ TimerFires
       \/ Input \/ Triggered \/ AgentStart \/ FollowUp \/ AgentSettled \/ Background
       \/ \E e \in scenario.evidence, aborted \in BOOLEAN : AgentEnd(e, aborted)
       \/ \E g \in Goal : NewGoal(g)
       \/ \E interrupt \in BOOLEAN : Pause(interrupt)
       \/ \E tool \in BOOLEAN : Resume(tool)
       \/ \E reported, known, gap \in BOOLEAN : ToolResult(reported, known, gap)
       \/ Finish \/ SetAuto \/ Reload
    /\ UNCHANGED scenario

Spec == Init /\ [][Next]_vars

\* Providers answer, the oldest await at least; the poll's interval and the idle timer fire:
\* strongly fair, since the bound on the tasks may disable them for a while, which nothing
\* does in the code. Nothing
\* makes the user, the model or the background do anything.
FairSpec ==
    /\ Spec
    /\ WF_moving(Handles(1))
    /\ SF_moving(Poll) /\ SF_moving(TimerFires)

-----------------------------------------------------------------------------
(* Properties *)

\* The state has its type.
TypeOK == s \in State /\ auto \in BOOLEAN /\ bg \in BOOLEAN /\ used \subseteq Goal

\* A timer never outlives what it was set for: while one is pending, the goal it would
\* continue is the session's and active, no permission is missing, and continuation is
\* switched on. (Its retries may have run out since: then its audit refuses.)
TimerIsCurrent ==
    s.timer # None =>
        /\ auto /\ Active(s) /\ ~s.perm.blocker
        /\ s.timer.goal = s.goal.id

\* The same outcome is not retried forever: without progress, a word of the user or a
\* change of the preference, a goal is continued at most MaxRetries times, and once when
\* that is 0, since an outcome is held for only when it has been seen again.
RetriesAreBounded == s.sends <= Most

\* An exhausted hold is reopened by the user only: no message, no completion and no
\* background work that drains does it. (A scheduler that says "wait" does.)
HoldIsSticky ==
    [][s.cont.blocked /\ ~s'.cont.blocked =>
        \/ scenario.waits
        \/ (\E tool \in BOOLEAN : Resume(tool)) \/ (\E g \in Goal : NewGoal(g))]_vars

\* A goal that makes no progress comes to rest, and stays there.
RetriesEnd == []RetriesAreBounded /\ HoldIsSticky

\* What an audit found before its snapshot may be over after it: an automatic continuation
\* is sent only to an active goal that is not held, by an idle session, when continuation
\* is still switched on.
SendsAreWanted ==
    [][s'.sends > s.sends => auto /\ Active(s) /\ ~Held(s) /\ Idle(s) /\ s.queued = None]_vars

\* Nothing is set up or sent for a goal that has changed meanwhile.
WakesAreWanted == []TimerIsCurrent /\ SendsAreWanted

\* Whatever happens between the end of a turn and the decision about it, an active goal that
\* nothing holds, in a session that is idle in front and behind, is continued. (A restored
\* session waits for the user.)
Neglected ==
    /\ Active(s) /\ auto /\ ~Held(s) /\ Idle(s) /\ ~bg /\ s.queued = None
    /\ ~scenario.reloads
GoalIsContinued == Neglected ~> ~Neglected

--------------------------------------------------------------------------------
(* What the code says elsewhere and does not keep: see Divergences in the README *)

\* A goal that is not active is not poked.
PausedIsNotPoked == [][FollowUp => Active(s)]_vars

\* A released retry is one turn.
OneRetry == [][AgentStart /\ Active(s) /\ s.perm.retry => ~s.retried]_vars
================================================================================
