--------------------------- MODULE MCGoalContinuation ---------------------------
(* Small instances of the continuation of a goal for TLC. *)
EXTENDS GoalContinuation, TLC

CONSTANTS e, f, g, h

\* (A limit of 0 is the machine of a limit of 1: both block the first outcome that is seen again.)

\* Two handlers await at a time.
Quiet ==
    [goals |-> {g}, tasks |-> 2, followUps |-> 0, evidence |-> {e}, holds |-> FALSE,
     waits |-> FALSE, looks |-> FALSE, reloads |-> FALSE]

\* One of them, and all that may happen around it.
Busy == [Quiet EXCEPT !.tasks = 1, !.holds = TRUE, !.waits = TRUE, !.reloads = TRUE]

\* Continuations behind the running turn, and turns with different outcomes.
Outcomes == [Quiet EXCEPT !.tasks = 1, !.followUps = 1, !.evidence = {e, f}, !.looks = TRUE]

\* A goal that is replaced by another one.
Replaced == [Quiet EXCEPT !.goals = {g, h}, !.tasks = 1]

AllScenarios == {Quiet, Busy, Outcomes, Replaced}
================================================================================
