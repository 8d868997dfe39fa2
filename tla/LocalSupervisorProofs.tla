------------------------ MODULE LocalSupervisorProofs ------------------------
(* Type correctness of the local supervisor, and the inductive invariant   *)
(* behind its promises: one execution, a quiet end, true cancellations.    *)
EXTENDS LocalSupervisor, TLAPS

Executing == {"loop", "ready", "spawned", "running", "stopping", "ending", "written"}
HasRead == {"outside", "inside", "losing", "returned", "cleaning", "signalled"}
NoneReady == \A r \in Runner : pc[r] # "ready"
Unattested == result # None => result.by = "runner"
NobodyLives == claim # None => pc[claim] = "exited"

\* An attempt has a number from the moment its command is spawned.
Numbered ==
    \A r \in Runner :
        /\ pc[r] \in {"spawned", "running", "stopping"} => checks[r] > 0
        /\ pc[r] = "stopping" => verdict[r] # None

\* Executing, and having executed, is the claimant's.
ClaimantExecutes ==
    /\ \A r \in Runner : pc[r] \in Executing \/ checks[r] > 0 => claim = r
    /\ claim # None => pc[claim] \in Executing \cup {"exited"}

\* A runner between two executions has no living leader.
LeaderIsCurrent ==
    \A x \in leader :
        /\ x[2] = checks[x[1]]
        /\ pc[x[1]] \notin {"off", "started", "loop", "ready"}

RunnersSpeakForThemselves ==
    \A r \in Runner : pc[r] \in {"stopping", "ending"} => verdict[r].by = "runner"

\* What an observer inside the fence found stays true until it leaves.
FenceProtects ==
    \A b \in Observer :
        /\ at[b] \in {"inside", "losing"} => fence = b
        /\ at[b] = "inside" /\ seen[b] = "none" => Unattested
        /\ at[b] = "losing" => Unattested /\ NobodyLives

\* What an observer read after it requested the stop stays true for good.
StopPrecedesReading ==
    \A b \in Observer :
        /\ plan[b] \in {"after", "cleaned"} => stop
        /\ sawAlive[b] => claim # None
        /\ at[b] \in {"cleaning", "signalled"} => plan[b] \in {"stop", "after"} /\ sawAlive[b]
        /\ plan[b] = "after" /\ at[b] \in HasRead /\ sawAlive[b] => NoneReady
        /\ plan[b] = "after" /\ at[b] \in HasRead /\ ~sawClaim[b] =>
               NoneReady /\ \A r \in Runner : checks[r] = 0
        /\ plan[b] = "cleaned" => NoneReady /\ claim # None
        /\ plan[b] = "cleaned" /\ at[b] \in HasRead => sawClaim[b]

EndingsAreQuiet ==
    /\ lost => NobodyLives
    /\ result # None /\ result.by = "runner" =>
           claim # None /\ pc[claim] \in {"written", "exited"}
    /\ result # None /\ result.by = "supervisor" =>
           /\ stop /\ NoneReady
           /\ ~result.claimed => \A r \in Runner : checks[r] = 0

ExecutionInv ==
    /\ ClaimantExecutes /\ LeaderIsCurrent /\ RunnersSpeakForThemselves
    /\ FenceProtects /\ StopPrecedesReading /\ EndingsAreQuiet /\ LossIsNotReplaced

-----------------------------------------------------------------------------

TypeInv == TypeOK /\ Numbered

LEMMA InitTypeInv == Init => TypeInv
<1> SUFFICES ASSUME Init PROVE TypeInv
  OBVIOUS
<1>1. /\ checks \in [Runner -> 0 .. MaxChecks]
      /\ sawCommand \in [Observer -> Attempt \cup {None}]
  BY ChecksAssumption DEF Init
<1>2. TypeOK
  BY <1>1 DEF Init, TypeOK
<1>3. Numbered
  BY DEF Init, Numbered
<1>4. QED
  BY <1>2, <1>3 DEF TypeInv

\* finalize and requestTermination write a well-formed outcome.
LEMMA FinalizesKeepsTypes ==
    ASSUME TypeInv, NEW r \in Runner, NEW status \in Statuses, NEW cleanup \in Cleanups,
           Finalizes(r, status, cleanup),
           UNCHANGED <<files, fence, expired, checks, processes, observerVars>>
    PROVE  TypeInv'
<1>1. (IF checks[r] = 0 THEN None ELSE Last(r)) \in Attempt \cup {None}
  BY ChecksAssumption DEF TypeInv, TypeOK, Attempt, Last
<1>2. Terminal("runner", status, cleanup, TRUE, IF checks[r] = 0 THEN None ELSE Last(r))
          \in Records
  BY <1>1 DEF Terminal, Records
<1>3. /\ pc' = [pc EXCEPT ![r] = "ending"]
      /\ verdict' \in [Runner -> Records \cup {None}]
      /\ \A s \in Runner : s # r => verdict'[s] = verdict[s]
  BY <1>2 DEF Finalizes, TypeInv, TypeOK
<1>4. QED
  BY <1>3 DEF TypeInv, TypeOK, Numbered, files, processes, observerVars, sight

LEMMA TerminatesKeepsTypes ==
    ASSUME TypeInv, NEW r \in Runner, pc[r] = "running", NEW status \in Statuses,
           Terminates(r, status),
           UNCHANGED <<files, fence, expired, checks, processes, observerVars>>
    PROVE  TypeInv'
<1>1. Last(r) \in Attempt
  BY ChecksAssumption DEF TypeInv, TypeOK, Numbered, Attempt, Last
<1>2. PICK cleanup \in Cleanups :
          verdict' = [verdict EXCEPT ![r] = Terminal("runner", status, cleanup, TRUE, Last(r))]
  BY DEF Terminates, Cleanups
<1>3. Terminal("runner", status, cleanup, TRUE, Last(r)) \in Records
  BY <1>1 DEF Terminal, Records
<1>4. None \notin Records
  BY NoneAssumption
<1>5. /\ pc' = [pc EXCEPT ![r] = "stopping"]
      /\ verdict' \in [Runner -> Records \cup {None}]
      /\ verdict'[r] # None
      /\ \A s \in Runner : s # r => verdict'[s] = verdict[s]
  BY <1>2, <1>3, <1>4 DEF Terminates, TypeInv, TypeOK
<1>6. QED
  BY <1>5 DEF TypeInv, TypeOK, Numbered, files, processes, observerVars, sight

LEMMA CleanupKeepsTypes ==
    ASSUME TypeInv, NEW b \in Observer, CleanupEnds(b),
           UNCHANGED <<files, fence, expired, runnerVars, processes>>
    PROVE  TypeInv'
<1>1. CASE Forget(b)
  BY <1>1 DEF Forget, TypeInv, TypeOK, Numbered, files, runnerVars, processes
<1>2. CASE ~Forget(b)
  <2>1. /\ plan' = [plan EXCEPT ![b] = "cleaned"]
        /\ at' = [at EXCEPT ![b] = "asking"]
        /\ emptied' = [emptied EXCEPT ![b] = sawCommand[b] \notin group]
        /\ UNCHANGED sight
    BY <1>2 DEF CleanupEnds
  <2>2. (sawCommand[b] \notin group) \in BOOLEAN
    OBVIOUS
  <2>3. emptied' \in [Observer -> BOOLEAN]
    BY <2>1, <2>2 DEF TypeInv, TypeOK
  <2>4. QED
    BY <2>1, <2>3 DEF TypeInv, TypeOK, Numbered, files, runnerVars, processes, sight
<1>3. QED
  BY <1>1, <1>2

LEMMA NextTypeInv == TypeInv /\ [Next]_vars => TypeInv'
<1> SUFFICES ASSUME TypeInv, [Next]_vars PROVE TypeInv'
  OBVIOUS
<1> USE ChecksAssumption DEF Attempt
<1>1. ASSUME NEW kind \in {"watch", "process"}, Start(kind) PROVE TypeInv'
  BY <1>1 DEF TypeInv, TypeOK, Numbered, Start, runnerVars, processes, sight, observerVars
<1>2. ASSUME GraceExpires PROVE TypeInv'
  BY <1>2 DEF TypeInv, TypeOK, Numbered, GraceExpires, files, runnerVars, processes, sight,
          observerVars
<1>3. ASSUME NEW r \in Runner, SpawnRunner(r) PROVE TypeInv'
  BY <1>3 DEF TypeInv, TypeOK, Numbered, SpawnRunner, files, processes, sight, observerVars
<1>4. ASSUME NEW r \in Runner, ClaimLaunch(r) PROVE TypeInv'
  BY <1>4 DEF TypeInv, TypeOK, Numbered, ClaimLaunch, HasEnded, processes, sight,
          observerVars
<1>5. ASSUME NEW r \in Runner, BeginCheck(r) PROVE TypeInv'
  <2>1. CASE \E status \in Statuses : Finalizes(r, status, "none")
    BY <1>5, <2>1, FinalizesKeepsTypes DEF BeginCheck, Cleanups
  <2>2. CASE pc' = [pc EXCEPT ![r] = "ready"] /\ UNCHANGED verdict
    BY <1>5, <2>2 DEF BeginCheck, TypeInv, TypeOK, Numbered, files, processes, observerVars, sight
  <2>3. QED
    BY <1>5, <2>1, <2>2 DEF BeginCheck, Statuses
<1>6. ASSUME NEW r \in Runner, SpawnCommand(r) PROVE TypeInv'
  BY <1>6 DEF TypeInv, TypeOK, Numbered, SpawnCommand, files, sight, observerVars
<1>7. ASSUME NEW r \in Runner, SpawnFails(r) PROVE TypeInv'
  BY <1>7, FinalizesKeepsTypes DEF SpawnFails, Statuses, Cleanups
<1>8. ASSUME NEW r \in Runner, RecordCommand(r) PROVE TypeInv'
  BY <1>8 DEF TypeInv, TypeOK, Numbered, RecordCommand, Last, processes, sight, observerVars
<1>9. ASSUME NEW r \in Runner, StopCommand(r) PROVE TypeInv'
  BY <1>9, TerminatesKeepsTypes DEF StopCommand, Statuses
<1>10. ASSUME NEW r \in Runner, CommandTimesOut(r) PROVE TypeInv'
  BY <1>10, TerminatesKeepsTypes DEF CommandTimesOut, Statuses
<1>11. ASSUME NEW r \in Runner, SignalRunner(r) PROVE TypeInv'
  BY <1>11, FinalizesKeepsTypes, TerminatesKeepsTypes DEF SignalRunner, Statuses, Cleanups
<1>12. ASSUME NEW r \in Runner, KillGroup(r) PROVE TypeInv'
  BY <1>12 DEF TypeInv, TypeOK, Numbered, KillGroup, Last, files, runnerVars, sight,
          observerVars
<1>13. ASSUME NEW r \in Runner, TerminationEnds(r) PROVE TypeInv'
  <2>1. verdict[r].status \in Statuses
    BY <1>13 DEF TerminationEnds, TypeInv, TypeOK, Numbered, Records
  <2>2. QED
    BY <1>13, <2>1, FinalizesKeepsTypes DEF TerminationEnds, Statuses, Cleanups
<1>14. ASSUME NEW r \in Runner, CommandReturns(r) PROVE TypeInv'
  <2>1. CASE \E status \in Statuses : Finalizes(r, status, "none")
    BY <1>14, <2>1, FinalizesKeepsTypes DEF CommandReturns, Cleanups
  <2>2. CASE pc' = [pc EXCEPT ![r] = "loop"] /\ UNCHANGED verdict
    BY <1>14, <2>2 DEF CommandReturns, TypeInv, TypeOK, Numbered, files, processes, observerVars, sight
  <2>3. QED
    BY <1>14, <2>1, <2>2 DEF CommandReturns, Statuses
<1>15. ASSUME NEW r \in Runner, WriteResult(r) PROVE TypeInv'
  BY <1>15 DEF TypeInv, TypeOK, Numbered, WriteResult, processes, sight, observerVars
<1>16. ASSUME NEW r \in Runner, ExitRunner(r) PROVE TypeInv'
  BY <1>16 DEF TypeInv, TypeOK, Numbered, ExitRunner, files, processes, sight, observerVars
<1>17. ASSUME NEW r \in Runner, CrashRunner(r) PROVE TypeInv'
  BY <1>17 DEF TypeInv, TypeOK, Numbered, CrashRunner, Alive, files, processes, sight,
          observerVars
<1>18. ASSUME NEW x \in Attempt, LeaderExits(x) PROVE TypeInv'
  BY <1>18 DEF TypeInv, TypeOK, Numbered, LeaderExits, files, runnerVars, sight,
          observerVars
<1>19. ASSUME NEW x \in Attempt, GroupEmpties(x) PROVE TypeInv'
  BY <1>19 DEF TypeInv, TypeOK, Numbered, GroupEmpties, files, runnerVars, sight,
          observerVars
<1>20. ASSUME NEW b \in Observer, Call(b) PROVE TypeInv'
  BY <1>20 DEF TypeInv, TypeOK, Numbered, Call, files, runnerVars, processes, sight
<1>21. ASSUME NEW b \in Observer, Look(b) PROVE TypeInv'
  BY <1>21 DEF TypeInv, TypeOK, Numbered, Look, Seen, files, runnerVars, processes
<1>22. ASSUME NEW b \in Observer, ReadEvidence(b) PROVE TypeInv'
  BY <1>22 DEF TypeInv, TypeOK, Numbered, ReadEvidence, files, runnerVars, processes
<1>23. ASSUME NEW b \in Observer, FenceBusy(b) PROVE TypeInv'
  BY <1>23 DEF TypeInv, TypeOK, Numbered, FenceBusy, files, runnerVars, processes, sight
<1>24. ASSUME NEW b \in Observer, EnterFence(b) PROVE TypeInv'
  BY <1>24 DEF TypeInv, TypeOK, Numbered, EnterFence, Seen, files, runnerVars, processes
<1>25. ASSUME NEW b \in Observer, Probe(b) PROVE TypeInv'
  BY <1>25 DEF TypeInv, TypeOK, Numbered, Probe, NobodyRuns, Alive, files, runnerVars,
          processes, sight
<1>26. ASSUME NEW b \in Observer, PublishLost(b) PROVE TypeInv'
  BY <1>26 DEF TypeInv, TypeOK, Numbered, PublishLost, runnerVars, processes
<1>27. ASSUME NEW b \in Observer, RequestStop(b) PROVE TypeInv'
  BY <1>27 DEF TypeInv, TypeOK, Numbered, RequestStop, runnerVars, processes, sight
<1>28. ASSUME NEW b \in Observer, InspectAgain(b) PROVE TypeInv'
  BY <1>28 DEF TypeInv, TypeOK, Numbered, InspectAgain, files, runnerVars, processes, sight
<1>29. ASSUME NEW b \in Observer, BeginCleanup(b) PROVE TypeInv'
  BY <1>29 DEF TypeInv, TypeOK, Numbered, BeginCleanup, LeftOver, files, runnerVars,
          processes, sight
<1>30. ASSUME NEW b \in Observer, Return(b) PROVE TypeInv'
  BY <1>30 DEF TypeInv, TypeOK, Numbered, Return, Forget, LeftOver, MayCancel, files,
          runnerVars, processes
<1>31. ASSUME NEW b \in Observer, PublishCancellation(b) PROVE TypeInv'
  <2>1. result' \in Records \cup {None}
    BY <1>31 DEF PublishCancellation, TypeInv, TypeOK, Terminal, Records, Cleanups, Statuses
  <2>2. QED
    BY <1>31, <2>1 DEF PublishCancellation, Forget, TypeInv, TypeOK, Numbered, files, runnerVars,
                   processes
<1>32. ASSUME NEW b \in Observer, CrashObserver(b) PROVE TypeInv'
  BY <1>32 DEF TypeInv, TypeOK, Numbered, CrashObserver, Forget, files, runnerVars,
          processes
<1>33. ASSUME NEW b \in Observer, RefuseCleanup(b) PROVE TypeInv'
  BY <1>33, CleanupKeepsTypes DEF RefuseCleanup
<1>34. ASSUME NEW b \in Observer, TermCommand(b) PROVE TypeInv'
  BY <1>34 DEF TypeInv, TypeOK, Numbered, TermCommand, Verified, files, runnerVars,
          processes, sight
<1>35. ASSUME NEW b \in Observer, KillCommand(b) PROVE TypeInv'
  <2>1. leader' \subseteq group' /\ group' \subseteq Attempt
    BY <1>35 DEF KillCommand, TypeInv, TypeOK
  <2>2. QED
    BY <1>35, <2>1 DEF KillCommand, TypeInv, TypeOK, Numbered, files, runnerVars, observerVars, sight
<1>36. ASSUME NEW b \in Observer, FinishCleanup(b) PROVE TypeInv'
  BY <1>36, CleanupKeepsTypes DEF FinishCleanup
<1>37. CASE UNCHANGED vars
  BY <1>37 DEF TypeInv, TypeOK, Numbered, vars, files, runnerVars, processes, sight,
          observerVars
<1>38. QED
  BY <1>1, <1>2, <1>3, <1>4, <1>5, <1>6, <1>7, <1>8, <1>9, <1>10, <1>11, <1>12, <1>13,
     <1>14, <1>15, <1>16, <1>17, <1>18, <1>19, <1>20, <1>21, <1>22, <1>23, <1>24, <1>25,
     <1>26, <1>27, <1>28, <1>29, <1>30, <1>31, <1>32, <1>33, <1>34, <1>35, <1>36, <1>37
     DEF Next, RunnerStep, ObserverStep

\* Every record file holds one of the values its writers may put there, and
\* every runner and observer is at one of the points of its code, for any
\* number of runners, observers and checks.
THEOREM TypeCorrect == Spec => []TypeOK
<1>1. TypeInv => TypeOK
  BY DEF TypeInv
<1>2. QED
  BY <1>1, InitTypeInv, NextTypeInv, PTL DEF Spec

-----------------------------------------------------------------------------

LEMMA InitExecutionInv == Init => ExecutionInv
  BY DEF Init, ExecutionInv, ClaimantExecutes, LeaderIsCurrent, RunnersSpeakForThemselves,
         FenceProtects, StopPrecedesReading, EndingsAreQuiet, LossIsNotReplaced, Executing


\* finalize and requestTermination leave the claimant where it was: the last
\* steps of the one execution.
LEMMA FinalizesKeepsExecution ==
    ASSUME TypeOK, ExecutionInv, NEW r \in Runner, NEW status, NEW cleanup,
           pc[r] \in {"loop", "ready", "running", "stopping"}, Finalizes(r, status, cleanup),
           UNCHANGED <<files, fence, expired, checks, processes, observerVars>>
    PROVE  ExecutionInv'
<1>1. /\ pc' = [pc EXCEPT ![r] = "ending"]
      /\ verdict'[r].by = "runner"
      /\ \A s \in Runner : s # r => verdict'[s] = verdict[s]
  BY DEF Finalizes, Terminal, TypeOK
<1>2. claim = r /\ ~(result # None /\ result.by = "runner") /\ ~lost
  BY NoneAssumption DEF ExecutionInv, ClaimantExecutes, EndingsAreQuiet, NobodyLives, Executing
<1>3. ClaimantExecutes'
  BY <1>1, <1>2 DEF ExecutionInv, ClaimantExecutes, Executing, TypeOK, files
<1>4. LeaderIsCurrent'
  BY <1>1 DEF ExecutionInv, LeaderIsCurrent, TypeOK, processes, Attempt
<1>5. RunnersSpeakForThemselves'
  BY <1>1 DEF ExecutionInv, RunnersSpeakForThemselves, TypeOK
<1>6. FenceProtects'
  BY <1>1, <1>2 DEF ExecutionInv, FenceProtects, Unattested, NobodyLives, TypeOK, files,
                    observerVars, sight
<1>7. StopPrecedesReading'
  BY <1>1 DEF ExecutionInv, StopPrecedesReading, NoneReady, HasRead, TypeOK, files,
              observerVars, sight
<1>8. EndingsAreQuiet' /\ LossIsNotReplaced'
  BY <1>1, <1>2 DEF ExecutionInv, EndingsAreQuiet, LossIsNotReplaced, NoneReady, NobodyLives,
                    TypeOK, files
<1>9. QED
  BY <1>3, <1>4, <1>5, <1>6, <1>7, <1>8 DEF ExecutionInv

LEMMA TerminatesKeepsExecution ==
    ASSUME TypeOK, ExecutionInv, NEW r \in Runner, pc[r] = "running", NEW status,
           Terminates(r, status),
           UNCHANGED <<files, fence, expired, checks, processes, observerVars>>
    PROVE  ExecutionInv'
<1>1. /\ pc' = [pc EXCEPT ![r] = "stopping"]
      /\ verdict'[r].by = "runner"
      /\ \A s \in Runner : s # r => verdict'[s] = verdict[s]
  BY DEF Terminates, Terminal, TypeOK
<1>2. claim = r /\ ~(result # None /\ result.by = "runner") /\ ~lost
  BY NoneAssumption DEF ExecutionInv, ClaimantExecutes, EndingsAreQuiet, NobodyLives, Executing
<1>3. ClaimantExecutes'
  BY <1>1, <1>2 DEF ExecutionInv, ClaimantExecutes, Executing, TypeOK, files
<1>4. LeaderIsCurrent'
  BY <1>1 DEF ExecutionInv, LeaderIsCurrent, TypeOK, processes, Attempt
<1>5. RunnersSpeakForThemselves'
  BY <1>1 DEF ExecutionInv, RunnersSpeakForThemselves, TypeOK
<1>6. FenceProtects'
  BY <1>1, <1>2 DEF ExecutionInv, FenceProtects, Unattested, NobodyLives, TypeOK, files,
                    observerVars, sight
<1>7. StopPrecedesReading'
  BY <1>1 DEF ExecutionInv, StopPrecedesReading, NoneReady, HasRead, TypeOK, files,
              observerVars, sight
<1>8. EndingsAreQuiet' /\ LossIsNotReplaced'
  BY <1>1, <1>2 DEF ExecutionInv, EndingsAreQuiet, LossIsNotReplaced, NoneReady, NobodyLives,
                    TypeOK, files
<1>9. QED
  BY <1>3, <1>4, <1>5, <1>6, <1>7, <1>8 DEF ExecutionInv

LEMMA NextExecutionInv == TypeInv /\ ExecutionInv /\ [Next]_vars => ExecutionInv'
<1> SUFFICES ASSUME TypeOK, ExecutionInv, [Next]_vars PROVE ExecutionInv'
  BY DEF TypeInv
<1> USE NoneAssumption DEF TypeOK, ExecutionInv, ClaimantExecutes, LeaderIsCurrent,
        RunnersSpeakForThemselves, FenceProtects, StopPrecedesReading, EndingsAreQuiet,
        LossIsNotReplaced, NoneReady, Unattested, NobodyLives, Executing, HasRead, Attempt
<1>1. ASSUME NEW kind \in {"watch", "process"}, Start(kind) PROVE ExecutionInv'
  BY <1>1 DEF Start, runnerVars, processes, sight, observerVars
<1>2. ASSUME GraceExpires PROVE ExecutionInv'
  BY <1>2 DEF GraceExpires, files, runnerVars, processes, sight, observerVars
<1>3. ASSUME NEW r \in Runner, SpawnRunner(r) PROVE ExecutionInv'
  BY <1>3 DEF SpawnRunner, files, processes, sight, observerVars
<1>4. ASSUME NEW r \in Runner, ClaimLaunch(r) PROVE ExecutionInv'
  BY <1>4 DEF ClaimLaunch, HasEnded, processes, sight, observerVars
<1>5. ASSUME NEW r \in Runner, BeginCheck(r) PROVE ExecutionInv'
  <2>1. CASE \E status \in Statuses : Finalizes(r, status, "none")
    BY <1>5, <2>1, FinalizesKeepsExecution DEF BeginCheck
  <2>2. CASE ~stop /\ pc' = [pc EXCEPT ![r] = "ready"] /\ UNCHANGED verdict
    BY <1>5, <2>2 DEF BeginCheck, files, processes, observerVars, sight
  <2>3. QED
    BY <1>5, <2>1, <2>2 DEF BeginCheck, Statuses
<1>6. ASSUME NEW r \in Runner, SpawnCommand(r) PROVE ExecutionInv'
  BY <1>6 DEF SpawnCommand, files, sight, observerVars
<1>7. ASSUME NEW r \in Runner, SpawnFails(r) PROVE ExecutionInv'
  BY <1>7, FinalizesKeepsExecution DEF SpawnFails
<1>8. ASSUME NEW r \in Runner, RecordCommand(r) PROVE ExecutionInv'
  BY <1>8 DEF RecordCommand, Last, processes, sight, observerVars
<1>9. ASSUME NEW r \in Runner, StopCommand(r) PROVE ExecutionInv'
  BY <1>9, TerminatesKeepsExecution DEF StopCommand
<1>10. ASSUME NEW r \in Runner, CommandTimesOut(r) PROVE ExecutionInv'
  BY <1>10, TerminatesKeepsExecution DEF CommandTimesOut
<1>11. ASSUME NEW r \in Runner, SignalRunner(r) PROVE ExecutionInv'
  BY <1>11, FinalizesKeepsExecution, TerminatesKeepsExecution DEF SignalRunner
<1>12. ASSUME NEW r \in Runner, KillGroup(r) PROVE ExecutionInv'
  BY <1>12 DEF KillGroup, Last, files, runnerVars, sight, observerVars
<1>13. ASSUME NEW r \in Runner, TerminationEnds(r) PROVE ExecutionInv'
  BY <1>13, FinalizesKeepsExecution DEF TerminationEnds
<1>14. ASSUME NEW r \in Runner, CommandReturns(r) PROVE ExecutionInv'
  <2>1. CASE \E status \in Statuses : Finalizes(r, status, "none")
    BY <1>14, <2>1, FinalizesKeepsExecution DEF CommandReturns
  <2>2. CASE pc' = [pc EXCEPT ![r] = "loop"] /\ UNCHANGED verdict
    BY <1>14, <2>2 DEF CommandReturns, Last, files, processes, observerVars, sight
  <2>3. QED
    BY <1>14, <2>1, <2>2 DEF CommandReturns, Statuses
<1>15. ASSUME NEW r \in Runner, WriteResult(r) PROVE ExecutionInv'
  BY <1>15 DEF WriteResult, processes, sight, observerVars
<1>16. ASSUME NEW r \in Runner, ExitRunner(r) PROVE ExecutionInv'
  BY <1>16 DEF ExitRunner, files, processes, sight, observerVars
<1>17. ASSUME NEW r \in Runner, CrashRunner(r) PROVE ExecutionInv'
  BY <1>17 DEF CrashRunner, Alive, files, processes, sight, observerVars
<1>18. ASSUME NEW x \in Attempt, LeaderExits(x) PROVE ExecutionInv'
  BY <1>18 DEF LeaderExits, files, runnerVars, sight, observerVars
<1>19. ASSUME NEW x \in Attempt, GroupEmpties(x) PROVE ExecutionInv'
  BY <1>19 DEF GroupEmpties, files, runnerVars, sight, observerVars
<1>20. ASSUME NEW b \in Observer, Call(b) PROVE ExecutionInv'
  BY <1>20 DEF Call, files, runnerVars, processes, sight
<1>21. ASSUME NEW b \in Observer, Look(b) PROVE ExecutionInv'
  BY <1>21 DEF Look, Seen, files, runnerVars, processes
<1>22. ASSUME NEW b \in Observer, ReadEvidence(b) PROVE ExecutionInv'
  BY <1>22 DEF ReadEvidence, files, runnerVars, processes
<1>23. ASSUME NEW b \in Observer, FenceBusy(b) PROVE ExecutionInv'
  BY <1>23 DEF FenceBusy, files, runnerVars, processes, sight
<1>24. ASSUME NEW b \in Observer, EnterFence(b) PROVE ExecutionInv'
  BY <1>24 DEF EnterFence, Seen, files, runnerVars, processes
<1>25. ASSUME NEW b \in Observer, Probe(b) PROVE ExecutionInv'
  BY <1>25 DEF Probe, NobodyRuns, Alive, files, runnerVars, processes, sight
<1>26. ASSUME NEW b \in Observer, PublishLost(b) PROVE ExecutionInv'
  BY <1>26 DEF PublishLost, runnerVars, processes
<1>27. ASSUME NEW b \in Observer, RequestStop(b) PROVE ExecutionInv'
  BY <1>27 DEF RequestStop, runnerVars, processes, sight
<1>28. ASSUME NEW b \in Observer, InspectAgain(b) PROVE ExecutionInv'
  BY <1>28 DEF InspectAgain, files, runnerVars, processes, sight
<1>29. ASSUME NEW b \in Observer, BeginCleanup(b) PROVE ExecutionInv'
  BY <1>29 DEF BeginCleanup, LeftOver, files, runnerVars, processes, sight
<1>30. ASSUME NEW b \in Observer, Return(b) PROVE ExecutionInv'
  BY <1>30 DEF Return, Forget, LeftOver, MayCancel, files, runnerVars, processes
<1>31. ASSUME NEW b \in Observer, PublishCancellation(b) PROVE ExecutionInv'
  BY <1>31 DEF PublishCancellation, Terminal, Forget, MayCancel, HasEnded, runnerVars,
          processes
<1>32. ASSUME NEW b \in Observer, CrashObserver(b) PROVE ExecutionInv'
  BY <1>32 DEF CrashObserver, Forget, files, runnerVars, processes
<1>33. ASSUME NEW b \in Observer, RefuseCleanup(b) PROVE ExecutionInv'
  BY <1>33 DEF RefuseCleanup, Forget, CleanupEnds, files, runnerVars, processes, sight
<1>34. ASSUME NEW b \in Observer, TermCommand(b) PROVE ExecutionInv'
  BY <1>34 DEF TermCommand, Verified, files, runnerVars, processes, sight
<1>35. ASSUME NEW b \in Observer, KillCommand(b) PROVE ExecutionInv'
  BY <1>35 DEF KillCommand, Verified, files, runnerVars, sight, observerVars
<1>36. ASSUME NEW b \in Observer, FinishCleanup(b) PROVE ExecutionInv'
  BY <1>36 DEF FinishCleanup, Forget, CleanupEnds, files, runnerVars, processes, sight
<1>37. CASE UNCHANGED vars
  BY <1>37 DEF vars, files, runnerVars, processes, sight, observerVars
<1> HIDE DEF TypeOK, ExecutionInv
<1>38. QED
  BY <1>1, <1>2, <1>3, <1>4, <1>5, <1>6, <1>7, <1>8, <1>9, <1>10, <1>11, <1>12, <1>13,
     <1>14, <1>15, <1>16, <1>17, <1>18, <1>19, <1>20, <1>21, <1>22, <1>23, <1>24, <1>25,
     <1>26, <1>27, <1>28, <1>29, <1>30, <1>31, <1>32, <1>33, <1>34, <1>35, <1>36, <1>37
     DEF Next, RunnerStep, ObserverStep

THEOREM InductiveInvariant == Spec => [](TypeInv /\ ExecutionInv)
<1>1. Init => TypeInv /\ ExecutionInv
  BY InitTypeInv, InitExecutionInv
<1>2. TypeInv /\ ExecutionInv /\ [Next]_vars => (TypeInv /\ ExecutionInv)'
  BY NextTypeInv, NextExecutionInv
<1>3. QED
  BY <1>1, <1>2, PTL DEF Spec

\* However many runners are started for a launch token, at most one of them ever
\* executes a command, and it is the one that holds the claim.
THEOREM OneRunnerExecutes == Spec => []OneExecution
<1>1. ExecutionInv => OneExecution
  BY DEF ExecutionInv, ClaimantExecutes, OneExecution
<1>2. QED
  BY <1>1, InductiveInvariant, PTL

\* A lost record and a supervisor's cancellation exclude each other, whichever
\* observers raced for the fence and wherever they were killed.
THEOREM LossStands == Spec => []LossIsNotReplaced
<1>1. ExecutionInv => LossIsNotReplaced
  BY DEF ExecutionInv
<1>2. QED
  BY <1>1, InductiveInvariant, PTL

\* "No command was executed" is true when a supervisor says it, although it read
\* the claim outside the fence: the stop request was on disk before that reading.
THEOREM CancellationIsTrue == Spec => []NothingWasExecuted
<1>1. ExecutionInv => NothingWasExecuted
  BY DEF ExecutionInv, EndingsAreQuiet, NothingWasExecuted
<1>2. QED
  BY <1>1, InductiveInvariant, PTL

\* No runner is about to execute once the launch has ended.
LEMMA EndedNoneReady == TypeInv /\ ExecutionInv /\ HasEnded => NoneReady
<1> SUFFICES ASSUME TypeInv, ExecutionInv, HasEnded, NEW r \in Runner, pc[r] = "ready"
             PROVE  FALSE
  BY DEF NoneReady
<1>1. claim = r /\ r # None
  BY NoneAssumption DEF ExecutionInv, ClaimantExecutes, Executing
<1>2. ~lost
  BY <1>1 DEF ExecutionInv, EndingsAreQuiet, NobodyLives
<1>3. result # None /\ result.by \in {"runner", "supervisor"}
  BY <1>2 DEF HasEnded, TypeInv, TypeOK, Records
<1>4. QED
  BY <1>1, <1>3 DEF ExecutionInv, EndingsAreQuiet, NoneReady

\* Only a runner that is ready makes another execution.
LEMMA OnlySpawningExecutes == NoneReady /\ [Next]_vars => UNCHANGED checks
<1> SUFFICES ASSUME NoneReady, [Next]_vars PROVE UNCHANGED checks
  OBVIOUS
<1>1. CASE UNCHANGED vars \/ GraceExpires \/ \E kind \in {"watch", "process"} : Start(kind)
  BY <1>1 DEF vars, runnerVars, GraceExpires, Start
<1>2. ASSUME NEW r \in Runner,
             \/ SpawnRunner(r) \/ CommandTimesOut(r) \/ SignalRunner(r) \/ KillGroup(r)
             \/ CrashRunner(r) \/ RunnerStep(r)
      PROVE  UNCHANGED checks
  BY <1>2 DEF NoneReady, SpawnRunner, CommandTimesOut, SignalRunner, KillGroup, CrashRunner,
              RunnerStep, ClaimLaunch, BeginCheck, SpawnCommand, SpawnFails, RecordCommand,
              StopCommand, TerminationEnds, CommandReturns, WriteResult, ExitRunner, runnerVars
<1>3. ASSUME NEW x \in Attempt, LeaderExits(x) \/ GroupEmpties(x)
      PROVE  UNCHANGED checks
  BY <1>3 DEF LeaderExits, GroupEmpties, runnerVars
<1>4. ASSUME NEW b \in Observer, ObserverStep(b) \/ CrashObserver(b)
      PROVE  UNCHANGED checks
  BY <1>4 DEF ObserverStep, CrashObserver, Call, Look, ReadEvidence, FenceBusy, EnterFence,
              Probe, PublishLost, RequestStop, InspectAgain, BeginCleanup, Return,
              PublishCancellation, RefuseCleanup, TermCommand, KillCommand, FinishCleanup,
              runnerVars
<1>5. QED
  BY <1>1, <1>2, <1>3, <1>4 DEF Next

\* No command is started after a terminal or a lost record, by a late runner or
\* by the next check of a watch.
THEOREM EndIsQuiet == Spec => EndedIsQuiet
<1>1. TypeInv /\ ExecutionInv /\ [Next]_vars => [HasEnded => checks' = checks]_vars
  BY EndedNoneReady, OnlySpawningExecutes
<1>2. QED
  BY <1>1, InductiveInvariant, PTL DEF Spec, EndedIsQuiet

-----------------------------------------------------------------------------
(* What a result says of the command's processes *)

\* A cleanup is of the current attempt, and what it proved of its group lasts:
\* after the stop request no other attempt is made.
CleanupIsCurrent ==
    \A b \in Observer :
        /\ plan[b] = "after" /\ at[b] \in HasRead /\ sawAlive[b] =>
               command = Last(claim) /\ sawCommand[b] = command
        /\ plan[b] = "cleaned" =>
               /\ command = Last(claim)
               /\ at[b] \in HasRead => sawCommand[b] = command
               /\ emptied[b] => command \notin group

\* The outcome a runner is about to write is true of its last attempt.
VerdictIsTrue ==
    \A r \in Runner : pc[r] = "ending" /\ verdict[r].cleanup # "unproven" =>
        /\ Last(r) \notin leader
        /\ verdict[r].cleanup = "empty" => verdict[r].command = Last(r) /\ Last(r) \notin group

TruthInv == CleanupIsCurrent /\ VerdictIsTrue /\ EndedIsStopped /\ EmptyIsProven

LEMMA InitTruthInv == Init => TruthInv
  BY DEF Init, TruthInv, CleanupIsCurrent, VerdictIsTrue, EndedIsStopped, EmptyIsProven

\* A living leader is the claimant's last attempt.
LEMMA LeaderIsLast ==
    ASSUME TypeInv, ExecutionInv, NEW x \in leader
    PROVE  claim \in Runner /\ x = Last(claim) /\ checks[claim] > 0
<1>1. x \in Attempt /\ x[1] \in Runner /\ x[2] \in 1 .. MaxChecks /\ x = <<x[1], x[2]>>
  BY DEF TypeInv, TypeOK, Attempt
<1>2. x[2] = checks[x[1]] /\ checks[x[1]] > 0
  BY <1>1, ChecksAssumption DEF ExecutionInv, LeaderIsCurrent
<1>3. claim = x[1]
  BY <1>1, <1>2 DEF ExecutionInv, ClaimantExecutes
<1>4. QED
  BY <1>1, <1>2, <1>3 DEF Last

\* finalize keeps the truth when what it is given is true.
LEMMA FinalizesKeepsTruth ==
    ASSUME TypeInv, ExecutionInv, TruthInv, NEW r \in Runner, NEW status, NEW cleanup,
           pc[r] \in {"loop", "ready", "running", "stopping"}, Finalizes(r, status, cleanup),
           cleanup # "unproven" => Last(r) \notin leader,
           cleanup = "empty" => checks[r] > 0 /\ Last(r) \notin group,
           UNCHANGED <<files, fence, expired, checks, processes, observerVars>>
    PROVE  TruthInv'
<1>1. /\ pc' = [pc EXCEPT ![r] = "ending"]
      /\ verdict'[r].cleanup = cleanup
      /\ checks[r] > 0 => verdict'[r].command = Last(r)
      /\ \A s \in Runner : s # r => verdict'[s] = verdict[s]
  BY DEF Finalizes, Terminal, TypeInv, TypeOK
<1>2. VerdictIsTrue'
  BY <1>1 DEF TruthInv, VerdictIsTrue, TypeInv, TypeOK, Last, processes
<1>3. (CleanupIsCurrent /\ EndedIsStopped /\ EmptyIsProven)'
  BY DEF TruthInv, CleanupIsCurrent, EndedIsStopped, EmptyIsProven, Last, files, processes,
         observerVars, sight
<1>4. QED
  BY <1>2, <1>3 DEF TruthInv

LEMMA TerminatesKeepsTruth ==
    ASSUME TypeInv, TruthInv, NEW r \in Runner, NEW status, Terminates(r, status),
           UNCHANGED <<files, fence, expired, checks, processes, observerVars>>
    PROVE  TruthInv'
<1>1. /\ pc' = [pc EXCEPT ![r] = "stopping"]
      /\ \A s \in Runner : s # r => verdict'[s] = verdict[s]
  BY DEF Terminates, TypeInv, TypeOK
<1>2. VerdictIsTrue'
  BY <1>1 DEF TruthInv, VerdictIsTrue, TypeInv, TypeOK, Last, processes
<1>3. (CleanupIsCurrent /\ EndedIsStopped /\ EmptyIsProven)'
  BY DEF TruthInv, CleanupIsCurrent, EndedIsStopped, EmptyIsProven, Last, files, processes,
         observerVars, sight
<1>4. QED
  BY <1>2, <1>3 DEF TruthInv

\* What a cleanup of a stop remembers is the group of the current attempt.
LEMMA CleanupKeepsTruth ==
    ASSUME TypeInv, ExecutionInv, TruthInv, NEW b \in Observer,
           at[b] \in {"cleaning", "signalled"}, CleanupEnds(b),
           UNCHANGED <<files, fence, expired, runnerVars, processes>>
    PROVE  TruthInv'
<1>1. (VerdictIsTrue /\ EndedIsStopped /\ EmptyIsProven)'
  BY DEF TruthInv, VerdictIsTrue, EndedIsStopped, EmptyIsProven, Last, files, runnerVars,
         processes
<1>2. CASE plan[b] = "stop"
  <2>1. CleanupIsCurrent'
    BY <1>2 DEF CleanupEnds, Forget, TruthInv, CleanupIsCurrent, TypeInv, TypeOK, Last, HasRead,
                files, runnerVars, processes
  <2>2. QED
    BY <1>1, <2>1 DEF TruthInv
<1>3. CASE plan[b] # "stop"
  <2>1. plan[b] = "after" /\ sawAlive[b]
    BY <1>3 DEF ExecutionInv, StopPrecedesReading
  <2>2. command = Last(claim) /\ sawCommand[b] = command
    BY <2>1 DEF TruthInv, CleanupIsCurrent, HasRead
  <2>3. /\ plan' = [plan EXCEPT ![b] = "cleaned"]
        /\ at' = [at EXCEPT ![b] = "asking"]
        /\ emptied' = [emptied EXCEPT ![b] = sawCommand[b] \notin group]
        /\ UNCHANGED <<sawAlive, sawCommand>>
    BY <1>3 DEF CleanupEnds, sight
  <2>4. CleanupIsCurrent'
    BY <2>2, <2>3 DEF TruthInv, CleanupIsCurrent, TypeInv, TypeOK, Last, HasRead, files,
                      runnerVars, processes
  <2>5. QED
    BY <1>1, <2>4 DEF TruthInv
<1>4. QED
  BY <1>2, <1>3

LEMMA NextTruthInv == TypeInv /\ ExecutionInv /\ TruthInv /\ [Next]_vars => TruthInv'
<1> SUFFICES ASSUME TypeInv, ExecutionInv, TruthInv, [Next]_vars PROVE TruthInv'
  OBVIOUS
<1>a. TypeOK /\ Numbered /\ ClaimantExecutes /\ LeaderIsCurrent /\ StopPrecedesReading
  BY DEF TypeInv, ExecutionInv
<1>b. HasEnded => NoneReady
  BY EndedNoneReady
<1> USE <1>a DEF TypeOK, TruthInv, CleanupIsCurrent, VerdictIsTrue, EndedIsStopped, EmptyIsProven,
        Last, HasRead
<1>1. ASSUME NEW kind \in {"watch", "process"}, Start(kind) PROVE TruthInv'
  BY <1>1 DEF Start, runnerVars, processes, sight, observerVars
<1>2. ASSUME GraceExpires PROVE TruthInv'
  BY <1>2 DEF GraceExpires, files, runnerVars, processes, sight, observerVars
<1>3. ASSUME NEW r \in Runner, SpawnRunner(r) PROVE TruthInv'
  BY <1>3 DEF SpawnRunner, files, processes, sight, observerVars
<1>4. ASSUME NEW r \in Runner, ClaimLaunch(r) PROVE TruthInv'
  <2>1. CleanupIsCurrent'
    <3>1. CASE claim = None
      BY <1>4, <3>1 DEF ClaimLaunch, StopPrecedesReading, processes, sight, observerVars
    <3>2. CASE claim # None
      BY <1>4, <3>2 DEF ClaimLaunch, processes, sight, observerVars
    <3>3. QED
      BY <3>1, <3>2
  <2>2. QED
    BY <1>4, <2>1 DEF ClaimLaunch, processes
<1>5. ASSUME NEW r \in Runner, BeginCheck(r) PROVE TruthInv'
  <2>1. CASE \E status \in Statuses : Finalizes(r, status, "none")
    <3>1. Last(r) \notin leader
      BY <1>5 DEF BeginCheck, LeaderIsCurrent
    <3>2. QED
      BY <1>5, <2>1, <3>1, FinalizesKeepsTruth DEF BeginCheck
  <2>2. CASE ~stop /\ pc' = [pc EXCEPT ![r] = "ready"] /\ UNCHANGED verdict
    BY <1>5, <2>2 DEF BeginCheck, files, processes, observerVars, sight
  <2>3. QED
    BY <1>5, <2>1, <2>2 DEF BeginCheck, Statuses
<1>6. ASSUME NEW r \in Runner, SpawnCommand(r) PROVE TruthInv'
  <2>1. claim = r /\ ~HasEnded /\ ~NoneReady
    BY <1>6, <1>b DEF SpawnCommand, ClaimantExecutes, Executing, NoneReady
  <2>2. CleanupIsCurrent'
    BY <1>6, <2>1 DEF SpawnCommand, StopPrecedesReading, files, sight, observerVars
  <2>3. VerdictIsTrue'
    BY <1>6, <2>1 DEF SpawnCommand, ClaimantExecutes, Executing
  <2>4. QED
    BY <1>6, <2>1, <2>2, <2>3 DEF SpawnCommand, HasEnded, files
<1>7. ASSUME NEW r \in Runner, SpawnFails(r) PROVE TruthInv'
  <2>1. Last(r) \notin leader
    BY <1>7 DEF SpawnFails, LeaderIsCurrent
  <2>2. QED
    BY <1>7, <2>1, FinalizesKeepsTruth DEF SpawnFails
<1>8. ASSUME NEW r \in Runner, RecordCommand(r) PROVE TruthInv'
  <2>1. claim = r
    BY <1>8 DEF RecordCommand, ClaimantExecutes, Executing
  <2>2. CleanupIsCurrent'
    BY <1>8, <2>1 DEF RecordCommand, processes, sight, observerVars
  <2>3. QED
    BY <1>8, <2>2 DEF RecordCommand, processes
<1>9. ASSUME NEW r \in Runner, StopCommand(r) PROVE TruthInv'
  BY <1>9, TerminatesKeepsTruth DEF StopCommand
<1>10. ASSUME NEW r \in Runner, CommandTimesOut(r) PROVE TruthInv'
  BY <1>10, TerminatesKeepsTruth DEF CommandTimesOut
<1>11. ASSUME NEW r \in Runner, SignalRunner(r) PROVE TruthInv'
  <2>1. CASE pc[r] = "loop" /\ Finalizes(r, "cancelled", "none")
    <3>1. Last(r) \notin leader
      BY <2>1 DEF LeaderIsCurrent
    <3>2. QED
      BY <1>11, <2>1, <3>1, FinalizesKeepsTruth DEF SignalRunner
  <2>2. CASE pc[r] = "running" /\ Terminates(r, "cancelled")
    BY <1>11, <2>2, TerminatesKeepsTruth DEF SignalRunner
  <2>3. QED
    BY <1>11, <2>1, <2>2 DEF SignalRunner
<1>12. ASSUME NEW r \in Runner, KillGroup(r) PROVE TruthInv'
  BY <1>12 DEF KillGroup, Last, files, runnerVars, sight, observerVars
<1>13. ASSUME NEW r \in Runner, TerminationEnds(r) PROVE TruthInv'
  <2>1. checks[r] > 0
    BY <1>13 DEF TerminationEnds, Numbered
  <2>2. QED
    BY <1>13, <2>1, FinalizesKeepsTruth DEF TerminationEnds
<1>14. ASSUME NEW r \in Runner, CommandReturns(r) PROVE TruthInv'
  <2>1. CASE \E status \in Statuses : Finalizes(r, status, "none")
    BY <1>14, <2>1, FinalizesKeepsTruth DEF CommandReturns
  <2>2. CASE pc' = [pc EXCEPT ![r] = "loop"] /\ UNCHANGED verdict
    BY <1>14, <2>2 DEF CommandReturns, Last, files, processes, observerVars, sight
  <2>3. QED
    BY <1>14, <2>1, <2>2 DEF CommandReturns, Statuses
<1>15. ASSUME NEW r \in Runner, WriteResult(r) PROVE TruthInv'
  <2>1. (claim = r /\ verdict[r] = result') \/ UNCHANGED result
    BY <1>15 DEF WriteResult, ClaimantExecutes, Executing
  <2>2. leader # {} => Last(claim) \in leader
    BY LeaderIsLast
  <2>3. (EndedIsStopped /\ EmptyIsProven)'
    BY <1>15, <2>1, <2>2 DEF WriteResult, processes
  <2>4. (CleanupIsCurrent /\ VerdictIsTrue)'
    BY <1>15 DEF WriteResult, processes, sight, observerVars
  <2>5. QED
    BY <2>3, <2>4
<1>16. ASSUME NEW r \in Runner, ExitRunner(r) PROVE TruthInv'
  BY <1>16 DEF ExitRunner, files, processes, sight, observerVars
<1>17. ASSUME NEW r \in Runner, CrashRunner(r) PROVE TruthInv'
  BY <1>17 DEF CrashRunner, Alive, files, processes, sight, observerVars
<1>18. ASSUME NEW x \in Attempt, LeaderExits(x) PROVE TruthInv'
  BY <1>18 DEF LeaderExits, files, runnerVars, sight, observerVars
<1>19. ASSUME NEW x \in Attempt, GroupEmpties(x) PROVE TruthInv'
  BY <1>19 DEF GroupEmpties, files, runnerVars, sight, observerVars
<1>20. ASSUME NEW b \in Observer, Call(b) PROVE TruthInv'
  BY <1>20 DEF Call, files, runnerVars, processes, sight
<1>21. ASSUME NEW b \in Observer, Look(b) PROVE TruthInv'
  BY <1>21 DEF Look, Seen, files, runnerVars, processes
<1>22. ASSUME NEW b \in Observer, ReadEvidence(b) PROVE TruthInv'
  <2>1. sawAlive'[b] => command = Last(claim)
    BY <1>22, LeaderIsLast DEF ReadEvidence
  <2>2. CleanupIsCurrent'
    BY <1>22, <2>1 DEF ReadEvidence, files, runnerVars, processes
  <2>3. QED
    BY <1>22, <2>2 DEF ReadEvidence, files, runnerVars, processes
<1>23. ASSUME NEW b \in Observer, FenceBusy(b) PROVE TruthInv'
  BY <1>23 DEF FenceBusy, files, runnerVars, processes, sight
<1>24. ASSUME NEW b \in Observer, EnterFence(b) PROVE TruthInv'
  BY <1>24 DEF EnterFence, Seen, files, runnerVars, processes
<1>25. ASSUME NEW b \in Observer, Probe(b) PROVE TruthInv'
  BY <1>25 DEF Probe, NobodyRuns, Alive, files, runnerVars, processes, sight
<1>26. ASSUME NEW b \in Observer, PublishLost(b) PROVE TruthInv'
  BY <1>26 DEF PublishLost, runnerVars, processes
<1>27. ASSUME NEW b \in Observer, RequestStop(b) PROVE TruthInv'
  BY <1>27 DEF RequestStop, runnerVars, processes, sight
<1>28. ASSUME NEW b \in Observer, InspectAgain(b) PROVE TruthInv'
  BY <1>28 DEF InspectAgain, files, runnerVars, processes, sight
<1>29. ASSUME NEW b \in Observer, BeginCleanup(b) PROVE TruthInv'
  BY <1>29 DEF BeginCleanup, LeftOver, files, runnerVars, processes, sight
<1>30. ASSUME NEW b \in Observer, Return(b) PROVE TruthInv'
  BY <1>30 DEF Return, Forget, LeftOver, MayCancel, files, runnerVars, processes
<1>31. ASSUME NEW b \in Observer, PublishCancellation(b) PROVE TruthInv'
  <2>1. (CleanupIsCurrent /\ VerdictIsTrue)'
    BY <1>31 DEF PublishCancellation, Forget, runnerVars, processes
  <2>2. CASE plan[b] = "after" /\ ~sawClaim[b]
    <3>1. \A r \in Runner : checks[r] = 0
      BY <1>31, <2>2 DEF PublishCancellation, StopPrecedesReading
    <3>2. leader = {}
      BY <3>1, LeaderIsLast
    <3>3. QED
      BY <1>31, <2>1, <2>2, <3>2 DEF PublishCancellation, Terminal, processes
  <2>3. CASE plan[b] = "cleaned" /\ emptied[b]
    <3>1. command = Last(claim) /\ command \notin group /\ sawCommand[b] = command
      BY <1>31, <2>3 DEF PublishCancellation
    <3>2. leader = {}
      BY <3>1, LeaderIsLast
    <3>3. QED
      BY <1>31, <2>1, <2>3, <3>1, <3>2 DEF PublishCancellation, Terminal, processes
  <2>4. QED
    BY <1>31, <2>2, <2>3 DEF PublishCancellation, MayCancel
<1>32. ASSUME NEW b \in Observer, CrashObserver(b) PROVE TruthInv'
  BY <1>32 DEF CrashObserver, Forget, files, runnerVars, processes
<1>33. ASSUME NEW b \in Observer, RefuseCleanup(b) PROVE TruthInv'
  BY <1>33, CleanupKeepsTruth DEF RefuseCleanup
<1>34. ASSUME NEW b \in Observer, TermCommand(b) PROVE TruthInv'
  BY <1>34 DEF TermCommand, Verified, files, runnerVars, processes, sight
<1>35. ASSUME NEW b \in Observer, KillCommand(b) PROVE TruthInv'
  BY <1>35 DEF KillCommand, Verified, files, runnerVars, sight, observerVars
<1>36. ASSUME NEW b \in Observer, FinishCleanup(b) PROVE TruthInv'
  BY <1>36, CleanupKeepsTruth DEF FinishCleanup
<1>37. CASE UNCHANGED vars
  BY <1>37 DEF vars, files, runnerVars, processes, sight, observerVars
<1> HIDE DEF TypeOK, TruthInv
<1>38. QED
  BY <1>1, <1>2, <1>3, <1>4, <1>5, <1>6, <1>7, <1>8, <1>9, <1>10, <1>11, <1>12, <1>13,
     <1>14, <1>15, <1>16, <1>17, <1>18, <1>19, <1>20, <1>21, <1>22, <1>23, <1>24, <1>25,
     <1>26, <1>27, <1>28, <1>29, <1>30, <1>31, <1>32, <1>33, <1>34, <1>35, <1>36, <1>37
     DEF Next, RunnerStep, ObserverStep

\* What a published result says of the command's processes holds, for any number of
\* runners, observers and checks: unless the cleanup is "unproven" no leader lives,
\* "empty" names a group that has no member, and "no command was executed" is true.
THEOREM ResultStaysTrue == Spec => []ResultIsTrue
<1>1. Init => TypeInv /\ ExecutionInv /\ TruthInv
  BY InitTypeInv, InitExecutionInv, InitTruthInv
<1>2. TypeInv /\ ExecutionInv /\ TruthInv /\ [Next]_vars => (TypeInv /\ ExecutionInv /\ TruthInv)'
  BY NextTypeInv, NextExecutionInv, NextTruthInv
<1>3. ExecutionInv => NothingWasExecuted
  BY DEF ExecutionInv, EndingsAreQuiet, NothingWasExecuted
<1>4. ExecutionInv /\ TruthInv => ResultIsTrue
  BY <1>3 DEF TruthInv, ResultIsTrue
<1>5. QED
  BY <1>1, <1>2, <1>4, PTL DEF Spec
=============================================================================
