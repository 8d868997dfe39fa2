--------------------------- MODULE WorkerWaitsProofs ---------------------------
(* Type correctness of the parked assignment, one writer of its            *)
(* conversation, and the finality of its end, for any number of sessions   *)
(* and attempts.                                                           *)
EXTENDS WorkerWaits, TLAPS

\* An attempt has its id from its claim on.
JobIsNamed == \A h \in Host : job[h] # None /\ job[h].at \in {"publish", "launch"} => job[h].attempt # None

\* Before the worker waits there is nothing to be done about it.
Early == phase \in {"none", "registering"}

Idle(h) == job[h] = None /\ scan[h] = None /\ parked[h] = None

NothingBefore ==
    Early => /\ record = None
             /\ \A h \in Host : Idle(h) /\ (todo[h] = None \/ (phase = "registering" /\ At(h, "admit")))

TypeInv == TypeOK /\ JobIsNamed /\ NothingBefore

LEMMA InitTypeInv == Init => TypeInv
<1> SUFFICES ASSUME Init PROVE TypeInv
  OBVIOUS
<1>1. \A s \in Scenarios : s.first \in Host
  BY ScenarioAssumption DEF Scenario
<1>2. parent \in [Attempt -> Host \cup {None}] /\ host \in [Host -> {"off", "on"}]
  BY <1>1 DEF Init
<1>3. QED
  BY <1>2 DEF Init, TypeInv, TypeOK, JobIsNamed, NothingBefore, Early, Idle

LEMMA MarkedType ==
    ASSUME NEW r \in Record \cup {None}, NEW p \in Phases
    PROVE  /\ Marked(r, p) \in Record \cup {None}
           /\ Marked(r, p) = None <=> r = None
           /\ r # None => Marked(r, p).phase = p /\ Marked(r, p).by = r.by
  BY NoneAssumption DEF Marked, Record

\* What an instance may still have to do.
LEMMA TodoMembers ==
    /\ \A s \in {"admit", "fail", "park", "follow"} : [step |-> s] \in Todo
    /\ \A p \in Phases : [step |-> "mirror", phase |-> p] \in Todo
    /\ \A s \in {"settle", "publish", "register"}, a \in Resumed :
          [step |-> s, attempt |-> a] \in Todo
BY DEF Todo

LEMMA DoesType ==
    ASSUME todo \in [Host -> Todo \cup {None}], NEW h, NEW t \in Todo \cup {None}, Does(h, t)
    PROVE  todo' \in [Host -> Todo \cup {None}]
BY DEF Does

\* Nothing begins before the worker waits.
LEMMA NextNothingBefore == TypeOK /\ NothingBefore /\ [Next]_vars => NothingBefore'
<1> SUFFICES ASSUME TypeOK, NothingBefore, [Next]_vars PROVE NothingBefore'
  OBVIOUS
<1>1. ASSUME ~Early PROVE ~Early'
  <2> USE DEF Early
  <2>1. ASSUME NEW h \in Host, Steps(h) \/ Resumes(h) \/ Reconcile(h)
        PROVE  ~Early'
    BY <1>1, <2>1
       DEF Steps, Admitted, Park, FailPark, HoldFailedResume, MirrorPhase, FollowCancel, RecordPublished,
           Register, Resumes, ParkReturns, Admit, ClaimResume, PublishResume, PublishFails, Launch,
           LaunchFails, Abandon, Reconcile, store
  <2>2. ASSUME NEW h \in Host, Delivered(h) \/ Start(h) \/ Opens(h) \/ \E a \in Attempt : Exit(h, a) \/ Recover(h, a)
        PROVE  ~Early'
    BY <1>1, <2>2 DEF Delivered, Start, Opens, Exit, Recover, store
  <2>3. ASSUME NEW h \in Host, Suffers(h) PROVE ~Early'
    BY <1>1, <2>3 DEF Suffers, StopParked, StopUnserved, Close, Quit, Crash, Dies, StopRun, store
  <2>4. CASE OperationEnds \/ WaitAdmission \/ Checkpoint \/ ParkFailed \/ UNCHANGED vars
    BY <1>1, <2>4 DEF OperationEnds, WaitAdmission, Checkpoint, ParkFailed, store, vars, moving
  <2>5. CASE \E a \in Attempt : Acknowledge(a) \/ ChildEnds(a)
    BY <1>1, <2>5 DEF Acknowledge, ChildEnds, store
  <2>6. QED
    BY <2>1, <2>2, <2>3, <2>4, <2>5 DEF Next, Moves
<1>2. ASSUME Early, Early'
      PROVE  /\ record' = None
             /\ \A h \in Host : Idle(h)' /\ (todo'[h] = None \/ (phase' = "registering" /\ At(h, "admit")'))
  <2> DEFINE Waits(g) == todo'[g] = None \/ (phase' = "registering" /\ At(g, "admit")')
             Quiet == record' = None /\ \A g \in Host : Idle(g)' /\ Waits(g)
  <2>1. /\ record = None /\ \A g \in Host : Idle(g)
        /\ \A g \in Host : todo[g] = None \/ (phase = "registering" /\ At(g, "admit"))
    BY <1>2 DEF NothingBefore
  <2>2. ASSUME NEW h \in Host, Steps(h) \/ Resumes(h) \/ Reconcile(h) \/ Delivered(h)
        PROVE  FALSE
    BY <1>2, <2>1, <2>2
       DEF Early, Idle, Steps, Admitted, Park, FailPark, HoldFailedResume, MirrorPhase, FollowCancel,
           RecordPublished, Register, At, Resumes, ParkReturns, Admit, ClaimResume, PublishResume,
           PublishFails, Launch, LaunchFails, Abandon, Reconcile, Delivered
  <2>3. ASSUME NEW h \in Host, Start(h) \/ Opens(h) PROVE Quiet
    BY <2>1, <2>3 DEF Idle, At, Start, Opens, Pending, TypeOK, store
  <2>4. ASSUME NEW h \in Host, NEW a \in Attempt, Exit(h, a) \/ Recover(h, a) PROVE Quiet
    BY <2>1, <2>4 DEF Idle, At, Exit, Recover, Settlement, Finalized, Pending, Marked, hosts, store
  <2>5. ASSUME NEW h \in Host, Suffers(h) PROVE Quiet
    BY <2>1, <2>5
       DEF Idle, At, Suffers, StopParked, StopUnserved, Pending, Close, Quit, Crash, Dies, StopRun, hosts,
           store, TypeOK
  <2>6. CASE WaitAdmission
    <3>1. UNCHANGED <<record, hosts, job>> /\ phase' = "registering" /\ phase = "none"
          /\ todo' = [todo EXCEPT ![parent[Original]] = [step |-> "admit"]]
      BY <2>6 DEF WaitAdmission, Does
    <3>2. [step |-> "admit"] # None
      BY TodoMembers, NoneAssumption
    <3>3. \A g \in Host : Idle(g)' /\ Waits(g)
      BY <2>1, <3>1, <3>2 DEF Idle, At, hosts, TypeOK
    <3>4. QED
      BY <2>1, <3>1, <3>3
  <2>7. CASE OperationEnds \/ Checkpoint \/ ParkFailed \/ UNCHANGED vars
    BY <1>2, <2>1, <2>7 DEF Early, Idle, At, OperationEnds, Checkpoint, ParkFailed, hosts, vars, moving, store
  <2>8. CASE \E a \in Attempt : Acknowledge(a) \/ ChildEnds(a)
    BY <1>2, <2>1, <2>8 DEF Early, Idle, At, Acknowledge, ChildEnds, hosts, store
  <2>9. QED
    BY <2>2, <2>3, <2>4, <2>5, <2>6, <2>7, <2>8 DEF Next, Moves
<1>3. QED
  BY <1>1, <1>2 DEF NothingBefore

LEMMA NextTypeInv == TypeInv /\ [Next]_vars => TypeInv'
<1> SUFFICES ASSUME TypeInv, [Next]_vars PROVE (TypeOK /\ JobIsNamed)'
  BY NextNothingBefore DEF TypeInv
<1>a. TypeOK /\ JobIsNamed /\ NothingBefore
  BY DEF TypeInv
<1> USE <1>a, NoneAssumption, WorkerWaitsAssumption DEF TypeOK, JobIsNamed, store, runs, hosts
<1>b. ASSUME NEW h \in Host, NEW r, Begins(h, r)
      PROVE  job' \in [Host -> Job \cup {None}] /\ JobIsNamed'
  BY <1>b DEF Begins, Task, Job
<1>c. ASSUME NEW h \in Host, NEW p \in Phases, ParkSettled(h, p)
      PROVE  record' \in Record \cup {None} /\ job' \in [Host -> Job \cup {None}] /\ JobIsNamed'
  BY <1>c, <1>b, MarkedType DEF ParkSettled, Marks
<1>1. ASSUME OperationEnds \/ WaitAdmission \/ Checkpoint \/ ParkFailed PROVE (TypeOK /\ JobIsNamed)'
  <2>1. CASE OperationEnds
    BY <2>1 DEF OperationEnds, Phases
  <2>5. CASE WaitAdmission
    BY <2>5, TodoMembers, DoesType DEF WaitAdmission
  <2>2. CASE Checkpoint
    BY <2>2 DEF Checkpoint, Record, Phases
  <2>3. CASE ParkFailed
    BY <2>3, TodoMembers, DoesType DEF ParkFailed, Phases, Over
  <2>4. QED
    BY <1>1, <2>1, <2>2, <2>3, <2>5
<1>2. ASSUME NEW a \in Attempt, Acknowledge(a) \/ ChildEnds(a) PROVE (TypeOK /\ JobIsNamed)'
  BY <1>2 DEF Acknowledge, ChildEnds, Mirror, Does, Todo, Phases, Over
<1>3. ASSUME NEW h \in Host, Steps(h) PROVE (TypeOK /\ JobIsNamed)'
  <2>1. CASE Park(h)
    <3>1. phase \in Phases
      BY <2>1 DEF Park, At, NothingBefore, Early
    <3>2. CASE phase = "parking"
      <4>1. phase' \in Left /\ parked' \in [Host -> Left \cup {None}]
        BY <2>1, <3>2 DEF Park, Left
      <4>2. QED
        BY <2>1, <3>2, <4>1, DoesType DEF Park, Done, Phases, Left
    <3>3. CASE phase # "parking"
      BY <2>1, <3>1, <3>3, TodoMembers, DoesType DEF Park, Mirror, Phases
    <3>4. QED
      BY <3>2, <3>3
  <2>2. CASE FailPark(h)
    BY <2>2 DEF FailPark, Mirror, Does, Todo, Phases, Over
  <2>3. CASE HoldFailedResume(h)
    BY <2>3 DEF HoldFailedResume, Mirror, Does, Todo, Phases, Over
  <2>4. CASE MirrorPhase(h)
    <3>1. todo[h].phase \in Phases
      BY <2>4 DEF MirrorPhase, At, Todo
    <3>2. QED
      BY <2>4, <3>1, <1>c DEF MirrorPhase, Done, Does
  <2>5. CASE FollowCancel(h)
    BY <2>5, MarkedType DEF FollowCancel, StopsAttempt, Marks, Done, Does, Phases, Over
  <2>6. CASE RecordPublished(h)
    <3>1. todo[h].attempt \in Resumed
      BY <2>6 DEF RecordPublished, At, Todo
    <3>2. QED
      BY <2>6, <3>1 DEF RecordPublished, Done, Does, Record, Phases
  <2>7. CASE Register(h)
    BY <2>7 DEF Register, Done, Does
  <2>8. CASE Admitted(h)
    BY <2>8, DoesType DEF Admitted, Done, Phases
  <2>9. QED
    BY <1>3, <2>1, <2>2, <2>3, <2>4, <2>5, <2>6, <2>7, <2>8 DEF Steps
<1>4. ASSUME NEW h \in Host, Hold(h) PROVE /\ record' \in Record \cup {None}
                                           /\ todo' \in [Host -> Todo \cup {None}]
                                           /\ job' = [job EXCEPT ![h] = None]
  <2>1. record' \in Record \cup {None}
    BY <1>4, MarkedType DEF Hold, Marks, Phases
  <2>2. todo' \in [Host -> Todo \cup {None}]
    BY <1>4, TodoMembers, DoesType DEF Hold
  <2>3. QED
    BY <1>4, <2>1, <2>2 DEF Hold, Task
<1>5. ASSUME NEW h \in Host, Resumes(h) PROVE (TypeOK /\ JobIsNamed)'
  <2>1. CASE Admit(h)
    <3>1. CASE Hold(h)
      BY <2>1, <3>1, <1>4 DEF Admit
    <3>2. CASE phase # "ready" /\ Marks(phase) /\ Task(h, None) /\ UNCHANGED todo
      <4>1. phase \in Phases
        BY <2>1 DEF Admit, NothingBefore, Early, Idle
      <4>2. QED
        BY <2>1, <3>2, <4>1, MarkedType DEF Admit, Marks, Task
    <3>3. CASE phase = "ready" /\ Task(h, [at |-> "claim", attempt |-> None]) /\ UNCHANGED <<record, todo>>
      BY <2>1, <3>3 DEF Admit, Task, Job
    <3>4. QED
      BY <2>1, <3>1, <3>2, <3>3 DEF Admit
  <2>2. CASE ClaimResume(h)
    <3>1. CASE phase = "ready"
      <4>1. PICK a \in Resumed : /\ phase' = "resuming" /\ claim' = [attempt |-> a, published |-> FALSE]
                                 /\ Task(h, [at |-> "publish", attempt |-> a])
                                 /\ UNCHANGED <<record, todo>>
        BY <2>2, <3>1 DEF ClaimResume
      <4>2. /\ [attempt |-> a, published |-> FALSE] \in Claim
            /\ [at |-> "publish", attempt |-> a] \in Job
        BY DEF Claim, Job
      <4>3. job' \in [Host -> Job \cup {None}] /\ JobIsNamed'
        BY <4>1, <4>2 DEF Task
      <4>4. QED
        BY <2>2, <4>1, <4>2, <4>3 DEF ClaimResume, Phases
    <3>2. CASE phase # "ready"
      BY <2>2, <3>2, <1>4 DEF ClaimResume
    <3>3. QED
      BY <3>1, <3>2
  <2>3. CASE PublishResume(h)
    <3>1. CASE Claimed(h)
      <4>1. job[h].attempt \in Resumed /\ [job[h] EXCEPT !.at = "launch"] \in Job
        BY <2>3 DEF PublishResume, Job
      <4>2. todo' \in [Host -> Todo \cup {None}]
        BY <2>3, <3>1, <4>1, TodoMembers, DoesType DEF PublishResume
      <4>3. QED
        <5>1. claim' \in Claim
          BY <2>3, <3>1, <4>1 DEF PublishResume, Claimed, Claim
        <5>2. job' \in [Host -> Job \cup {None}] /\ JobIsNamed'
          <6>1. job' = [job EXCEPT ![h] = [job[h] EXCEPT !.at = "launch"]]
            BY <2>3, <3>1 DEF PublishResume, Task
          <6>2. [job[h] EXCEPT !.at = "launch"].attempt = job[h].attempt
            BY <4>1 DEF Job
          <6>3. QED
            BY <4>1, <6>1, <6>2
        <5>3. QED
          BY <2>3, <3>1, <4>2, <5>1, <5>2 DEF PublishResume, Claimed
    <3>2. CASE ~Claimed(h)
      BY <2>3, <3>2, <1>4 DEF PublishResume
    <3>3. QED
      BY <3>1, <3>2
  <2>4. CASE PublishFails(h)
    BY <2>4, <1>4 DEF PublishFails, Phases
  <2>5. CASE Launch(h)
    <3>1. job[h].attempt \in Resumed
      BY <2>5 DEF Launch, Job
    <3>2. QED
      BY <2>5, <3>1 DEF Launch, Does, Task, Todo, Attempt
  <2>6. CASE LaunchFails(h)
    BY <2>6, MarkedType DEF LaunchFails, Marks, Task, Phases
  <2>7. CASE Abandon(h)
    BY <2>7, <1>4 DEF Abandon
  <2>9. CASE ParkReturns(h)
    <3>1. /\ (IF host[h] = "on" THEN parked[h] ELSE "held") \in Phases
          /\ parked' \in [Host -> Left \cup {None}]
      BY <2>9 DEF ParkReturns, Phases, Left
    <3>2. QED
      BY <2>9, <3>1, <1>c DEF ParkReturns
  <2>8. QED
    BY <1>5, <2>1, <2>2, <2>3, <2>4, <2>5, <2>6, <2>7, <2>9 DEF Resumes
<1>6. ASSUME NEW h \in Host, Delivered(h) \/ Start(h) \/ Opens(h) PROVE (TypeOK /\ JobIsNamed)'
  BY <1>6, <1>b DEF Delivered, Start, Opens
<1>7. ASSUME NEW h \in Host, NEW a \in Resumed, Settles(h, a)
      PROVE  record' \in Record \cup {None} /\ todo' \in [Host -> Todo \cup {None}]
  BY <1>7, MarkedType, TodoMembers, DoesType DEF Settles, Marks, Phases
<1>8. ASSUME NEW h \in Host, Staged(h)
      PROVE  record' \in Record \cup {None} /\ todo' \in [Host -> Todo \cup {None}]
  BY <1>8, MarkedType, TodoMembers, DoesType DEF Staged, Marks, Phases
<1>9. ASSUME NEW h \in Host, Reconcile(h) PROVE (TypeOK /\ JobIsNamed)'
  <2>1. scan[h].by \in Resumed \cup {None}
    BY <1>9 DEF Reconcile, Record
  <2>2. /\ record' \in Record \cup {None} /\ todo' \in [Host -> Todo \cup {None}]
        /\ job' \in [Host -> Job \cup {None}] /\ JobIsNamed'
    BY <1>9, <2>1, <1>b, <1>7, <1>8, MarkedType DEF Reconcile, Reconciles, Marks, Phases, Over
  <2>3. QED
    BY <1>9, <2>2 DEF Reconcile
<1>10. ASSUME NEW h \in Host, NEW a \in Attempt, Exit(h, a) PROVE (TypeOK /\ JobIsNamed)'
  <2>1. ASSUME NEW clean PROVE Finalized(a, clean) \in Record \cup {None}
    BY MarkedType DEF Finalized, Phases
  <2>2. ASSUME NEW clean, NEW r \in Record \cup {None}, Settlement(h, a, clean, r)
        PROVE  record' \in Record \cup {None} /\ todo' \in [Host -> Todo \cup {None}]
    BY <2>2, MarkedType, TodoMembers, DoesType DEF Settlement, Phases, Attempt
  <2>3. QED
    BY <1>10, <2>1, <2>2 DEF Exit
<1>11. ASSUME NEW h \in Host, NEW a \in Attempt, Recover(h, a) PROVE (TypeOK /\ JobIsNamed)'
  BY <1>11, MarkedType DEF Recover, Finalized, Phases
<1>12. ASSUME NEW h \in Host, StopParked(h) \/ StopUnserved(h) PROVE (TypeOK /\ JobIsNamed)'
  <2>1. CASE StopParked(h)
    BY <2>1, MarkedType, TodoMembers, DoesType DEF StopParked, Marks, Phases, Over
  <2>2. CASE StopUnserved(h)
    BY <2>2, MarkedType DEF StopUnserved, StopsAttempt, Marks, Phases, Over
  <2>3. QED
    BY <1>12, <2>1, <2>2
<1>13. ASSUME NEW h \in Host, Close(h) \/ Quit(h) \/ Crash(h) PROVE (TypeOK /\ JobIsNamed)'
  BY <1>13 DEF Close, Quit, Crash, Dies
<1>14. ASSUME NEW h \in Host, NEW a \in Attempt, StopRun(h, a) PROVE (TypeOK /\ JobIsNamed)'
  BY <1>14 DEF StopRun
<1>15. CASE UNCHANGED vars
  BY <1>15 DEF vars, moving
<1>16. QED
  BY <1>1, <1>2, <1>3, <1>5, <1>6, <1>9, <1>10, <1>11, <1>12, <1>13, <1>14, <1>15
     DEF Next, Moves, Suffers

\* The store, the record, the attempts and what every instance is about to do keep
\* their ranges.
THEOREM TypeCorrect == Spec => []TypeOK
<1>1. TypeInv => TypeOK
  BY DEF TypeInv
<1>2. QED
  BY <1>1, InitTypeInv, NextTypeInv, PTL DEF Spec

-----------------------------------------------------------------------------
(* One writer *)

\* A staged exit is recorded with its proof.
ParkIsProven == \A h \in Host : At(h, "park") => ~Alive(Original)

\* The hosts that resume have ids of their own.
JobsDiffer ==
    \A g, h \in Host :
        g # h /\ job[g] # None /\ job[h] # None /\ job[g].attempt = job[h].attempt
            => job[g].attempt = None

\* A host between its claim and its launch holds the claim, or the wait has moved on for good.
JobsHold ==
    \A h \in Host : job[h] # None =>
        /\ job[h].at = "publish" =>
               /\ phase \in {"resuming"} \cup Over
               /\ phase = "resuming" => claim = [attempt |-> job[h].attempt, published |-> FALSE]
        /\ job[h].at = "launch" =>
               /\ phase \in {"resuming", "held"} \cup Over
               /\ phase = "resuming" => claim = [attempt |-> job[h].attempt, published |-> TRUE]

\* An attempt that was started had the published claim, and no job starts it again.
StartedHadClaim ==
    \A a \in Resumed : child[a] # "none" =>
        /\ phase \in {"resuming", "held"} \cup Over
        /\ phase = "resuming" => claim = [attempt |-> a, published |-> TRUE]
        /\ \A h \in Host : job[h] # None => job[h].attempt # a

ResumeInv == ParkIsProven /\ JobsDiffer /\ JobsHold /\ StartedHadClaim /\ OneResume /\ ParkedIsGone

LEMMA InitResumeInv == Init => ResumeInv
  BY NoneAssumption, WorkerWaitsAssumption
     DEF Init, ResumeInv, ParkIsProven, At, JobsDiffer, JobsHold, StartedHadClaim, OneResume, ParkedIsGone,
         Attempt

\* A step that leaves the claim alone: it starts no child, and gives up jobs or begins them.
LEMMA QuietKeepsResume ==
    ASSUME TypeInv, ResumeInv, UNCHANGED <<phase, claim>>,
           \A a \in Attempt : child'[a] # child[a] => child[a] # "none" /\ child'[a] # "alive",
           \A h \in Host : \/ job'[h] = job[h]
                           \/ job'[h] = None
                           \/ job'[h].at \in {"admit", "claim"} /\ job'[h].attempt = None,
           \A h \in Host : At(h, "park")' => At(h, "park") \/ ~Alive(Original)
    PROVE  ResumeInv'
<1> USE DEF ResumeInv
<1>1. ParkIsProven' /\ ParkedIsGone'
  BY WorkerWaitsAssumption DEF ParkIsProven, ParkedIsGone, Alive, Attempt
<1>2. JobsDiffer'
  BY DEF JobsDiffer
<1>3. JobsHold'
  BY DEF JobsHold
<1>4. \A a \in Resumed : a \in Attempt /\ a # None
  BY WorkerWaitsAssumption DEF Attempt
<1>5. StartedHadClaim' /\ OneResume'
  BY <1>4 DEF StartedHadClaim, OneResume
<1>6. QED
  BY <1>1, <1>2, <1>3, <1>5

\* Before a resume is claimed nobody holds a claim, and nobody was started.
LEMMA EarlyKeepsResume ==
    ASSUME TypeInv, ResumeInv, UNCHANGED <<job, child>>,
           phase \in {"none", "registering", "parking", "waiting", "ready"},
           phase' # "resuming", phase' \in {"waiting", "ready"} => ~Alive(Original),
           \A h \in Host : At(h, "park")' => At(h, "park")
    PROVE  ResumeInv'
<1> USE DEF ResumeInv
<1>1. ParkIsProven' /\ ParkedIsGone'
  BY DEF ParkIsProven, ParkedIsGone, Alive
<1>2. JobsDiffer'
  BY DEF JobsDiffer
<1>3. \A h \in Host : job[h] # None => job[h].at \notin {"publish", "launch"}
  BY DEF JobsHold, Over
<1>4. JobsHold'
  BY <1>3 DEF JobsHold
<1>5. StartedHadClaim' /\ OneResume'
  BY DEF StartedHadClaim, OneResume, Over
<1>6. QED
  BY <1>1, <1>2, <1>4, <1>5

\* A claim that is closed, or one that was published and is held.
LEMMA ClosingKeepsResume ==
    ASSUME TypeInv, ResumeInv, UNCHANGED <<job, child>>,
           \/ phase' \in Over
           \/ phase' = "held" /\ phase = "resuming" /\ claim # None /\ claim.published,
           \A h \in Host : At(h, "park")' => At(h, "park")
    PROVE  ResumeInv'
<1> USE DEF ResumeInv
<1>1. ParkIsProven' /\ ParkedIsGone'
  BY DEF ParkIsProven, ParkedIsGone, Alive, Over
<1>2. JobsDiffer'
  BY DEF JobsDiffer
<1>3. JobsHold'
  BY DEF JobsHold, Over
<1>4. StartedHadClaim' /\ OneResume'
  BY DEF StartedHadClaim, OneResume, Over
<1>5. QED
  BY <1>1, <1>2, <1>3, <1>4

\* hold() gives up the job of its host.
LEMMA HoldGivesUp ==
    ASSUME TypeInv, NEW h \in Host, Hold(h)
    PROVE  /\ job' = [job EXCEPT ![h] = None]
           /\ \A g \in Host : At(g, "park")' => At(g, "park")
  BY DEF Hold, Task, Does, At, TypeInv, TypeOK

LEMMA ClaimKeepsResume == ASSUME TypeInv, ResumeInv, NEW h \in Host, ClaimResume(h) PROVE ResumeInv'
<1>1. CASE phase # "ready"
  BY <1>1, HoldGivesUp, QuietKeepsResume DEF ClaimResume, runs, TypeInv, TypeOK
<1>2. CASE phase = "ready"
  <2>1. PICK a \in Resumed :
            /\ Unused(a)
            /\ phase' = "resuming" /\ claim' = [attempt |-> a, published |-> FALSE]
            /\ job' = [job EXCEPT ![h] = [at |-> "publish", attempt |-> a]]
            /\ UNCHANGED <<todo, child>>
    BY <1>2 DEF ClaimResume, Task, runs
  <2>2. \A g \in Host : job[g] # None => job[g].attempt # a /\ job[g].at \notin {"publish", "launch"}
    BY <1>2, <2>1 DEF Unused, ResumeInv, JobsHold, Over
  <2>3. \A b \in Resumed : child[b] = "none"
    BY <1>2 DEF ResumeInv, StartedHadClaim, Over
  <2>4. \A g \in Host : g # h => job'[g] = job[g]
    BY <2>1 DEF TypeInv, TypeOK
  <2>5. job'[h] = [at |-> "publish", attempt |-> a]
    BY <2>1 DEF TypeInv, TypeOK
  <2>6. ParkIsProven' /\ ParkedIsGone'
    BY <1>2, <2>1 DEF ResumeInv, ParkIsProven, ParkedIsGone, Alive, At
  <2>7. JobsDiffer' /\ JobsHold'
    <3>1. job'[h].attempt = a /\ job'[h].at = "publish"
      BY <2>5
    <3>2. JobsDiffer'
      BY <2>2, <2>4, <3>1 DEF ResumeInv, JobsDiffer
    <3>3. JobsHold'
      BY <2>1, <2>2, <2>4, <3>1 DEF JobsHold
    <3>4. QED
      BY <3>2, <3>3
  <2>8. StartedHadClaim' /\ OneResume'
    BY <2>1, <2>3 DEF StartedHadClaim, OneResume
  <2>9. QED
    BY <2>6, <2>7, <2>8 DEF ResumeInv
<1>3. QED
  BY <1>1, <1>2

\* While a claim is unpublished no attempt was started, and no other host holds one.
LEMMA UnpublishedIsAlone ==
    ASSUME TypeInv, ResumeInv, NEW h \in Host, job[h] # None, job[h].at = "publish", Claimed(h)
    PROVE  /\ \A a \in Resumed : child[a] = "none"
           /\ \A g \in Host : g # h /\ job[g] # None => job[g].at \notin {"publish", "launch"}
           /\ ~Alive(Original)
<1>1. phase = "resuming" /\ claim = [attempt |-> job[h].attempt, published |-> FALSE]
  BY DEF Claimed
<1>2. \A a \in Resumed : child[a] = "none"
  BY <1>1 DEF ResumeInv, StartedHadClaim
<1>3. ASSUME NEW g \in Host, g # h, job[g] # None PROVE job[g].at \notin {"publish", "launch"}
  BY <1>1, <1>3 DEF ResumeInv, JobsHold, JobsDiffer, TypeInv, JobIsNamed
<1>4. QED
  BY <1>1, <1>2, <1>3 DEF ResumeInv, ParkedIsGone

LEMMA PublishKeepsResume ==
    ASSUME TypeInv, ResumeInv, NEW h \in Host, PublishResume(h) \/ PublishFails(h)
    PROVE  ResumeInv'
<1>1. CASE PublishResume(h) /\ ~Claimed(h)
  BY <1>1, HoldGivesUp, QuietKeepsResume DEF PublishResume, runs, TypeInv, TypeOK
<1>2. CASE (PublishResume(h) \/ PublishFails(h)) /\ Claimed(h)
  <2> DEFINE publishes == [attempt |-> job[h].attempt, published |-> TRUE]
  <2>1. /\ \A g \in Host : g # h => job'[g] = job[g]
        /\ \/ /\ phase' = "resuming" /\ claim' = publishes
              /\ job'[h] = [job[h] EXCEPT !.at = "launch"]
           \/ phase' = "ready" /\ job'[h] = None
        /\ UNCHANGED child
        /\ \A g \in Host : At(g, "park")' => At(g, "park")
    BY <1>2, HoldGivesUp
       DEF PublishResume, PublishFails, Claimed, Task, Does, At, runs, TypeInv, TypeOK
  <2>2. /\ \A a \in Resumed : child[a] = "none"
        /\ \A g \in Host : g # h /\ job[g] # None => job[g].at \notin {"publish", "launch"}
        /\ ~Alive(Original)
    BY <1>2, UnpublishedIsAlone DEF PublishResume, PublishFails
  <2>3. job[h] \in Job
    BY <1>2 DEF PublishResume, PublishFails, TypeInv, TypeOK
  <2>4. job'[h] # None => job'[h].attempt = job[h].attempt /\ job'[h].at = "launch" /\ claim' = publishes
                          /\ phase' = "resuming"
    BY <2>1, <2>3 DEF Job
  <2>5. ParkIsProven' /\ ParkedIsGone'
    BY <2>1, <2>2 DEF ResumeInv, ParkIsProven, ParkedIsGone, Alive
  <2>6. JobsDiffer'
    BY <1>2, <2>1, <2>4 DEF ResumeInv, JobsDiffer, PublishResume, PublishFails
  <2>7. JobsHold'
    BY <2>1, <2>2, <2>4 DEF JobsHold
  <2>8. StartedHadClaim' /\ OneResume'
    BY <2>1, <2>2 DEF StartedHadClaim, OneResume
  <2>9. QED
    BY <2>5, <2>6, <2>7, <2>8 DEF ResumeInv
<1>3. QED
  BY <1>1, <1>2 DEF PublishFails

LEMMA LaunchKeepsResume == ASSUME TypeInv, ResumeInv, NEW h \in Host, Launch(h) PROVE ResumeInv'
<1> DEFINE a == job[h].attempt
<1>1. /\ a \in Resumed /\ a # Original
      /\ child' = [child EXCEPT ![a] = "alive"] /\ job' = [job EXCEPT ![h] = None]
      /\ UNCHANGED <<phase, claim>>
      /\ \A g \in Host : At(g, "park")' => At(g, "park")
  BY WorkerWaitsAssumption DEF Launch, Does, Task, At, store, TypeInv, TypeOK, JobIsNamed, Job
<1>2. phase = "resuming" /\ claim = [attempt |-> a, published |-> TRUE]
  BY DEF Launch, DispatchGuard, ResumeInv, JobsHold
<1>3. \A b \in Resumed : child[b] = "none"
  BY <1>2 DEF Launch, ResumeInv, StartedHadClaim
<1>4. \A b \in Resumed : b # a => child'[b] = "none"
  BY <1>1, <1>3 DEF TypeInv, TypeOK, Attempt
<1>5. ParkIsProven' /\ ParkedIsGone'
  BY <1>1 DEF ResumeInv, ParkIsProven, ParkedIsGone, Alive, TypeInv, TypeOK
<1>6. JobsDiffer' /\ JobsHold'
  BY <1>1 DEF ResumeInv, JobsDiffer, JobsHold, TypeInv, TypeOK
<1>7. \A g \in Host : g # h /\ job[g] # None => job[g].attempt # a
  BY <1>1, WorkerWaitsAssumption DEF Launch, ResumeInv, JobsDiffer
<1>8. \A g \in Host : job'[g] # None => job'[g].attempt # a
  BY <1>1, <1>7 DEF TypeInv, TypeOK
<1>9. StartedHadClaim' /\ OneResume'
  BY <1>1, <1>2, <1>4, <1>8 DEF StartedHadClaim, OneResume
<1>10. QED
  BY <1>5, <1>6, <1>9 DEF ResumeInv

\* Reconciliation and delivery only begin: resume() goes on to the admission.
LEMMA BeginsIsQuiet ==
    ASSUME TypeInv, NEW h \in Host, NEW r, Begins(h, r)
    PROVE  \A g \in Host : \/ job'[g] = job[g]
                           \/ job'[g].at \in {"admit", "claim"} /\ job'[g].attempt = None
  BY DEF Begins, Task, TypeInv, TypeOK

LEMMA ReconcileKeepsResume == ASSUME TypeInv, ResumeInv, NEW h \in Host, Reconcile(h) PROVE ResumeInv'
<1>1. UNCHANGED <<phase, claim, child>>
  BY DEF Reconcile, store, runs
<1>2. \A g \in Host : \/ job'[g] = job[g]
                      \/ job'[g].at \in {"admit", "claim"} /\ job'[g].attempt = None
  BY BeginsIsQuiet DEF Reconcile, Reconciles
<1>3. ASSUME NEW a, Settles(h, a) PROVE \A g \in Host : At(g, "park")' => At(g, "park")
  BY <1>3 DEF Settles, Marks, Does, At, TypeInv, TypeOK
<1>4. ASSUME Staged(h) PROVE \A g \in Host : At(g, "park")' => At(g, "park") \/ ~Alive(Original)
  BY <1>4 DEF Staged, Does, At, TypeInv, TypeOK
<1>5. \A g \in Host : At(g, "park")' => At(g, "park") \/ ~Alive(Original)
  BY <1>3, <1>4 DEF Reconcile, Reconciles, At
<1>6. QED
  BY <1>1, <1>2, <1>5, QuietKeepsResume

LEMMA ExitKeepsResume ==
    ASSUME TypeInv, ResumeInv, NEW h \in Host, NEW a \in Attempt, Exit(h, a) \/ Recover(h, a)
    PROVE  ResumeInv'
<1>1. CASE Exit(h, a)
  <2>1. UNCHANGED <<phase, claim, job, child>>
    BY <1>1 DEF Exit, store
  <2>2. ASSUME NEW clean, NEW r, Settlement(h, a, clean, r), a # Original \/ ~Alive(Original)
        PROVE  \A g \in Host : At(g, "park")' => At(g, "park") \/ ~Alive(Original)
    BY <2>2 DEF Settlement, Does, At, TypeInv, TypeOK
  <2>3. \A g \in Host : At(g, "park")' => At(g, "park") \/ ~Alive(Original)
    BY <1>1, <2>2 DEF Exit, Gone, Alive
  <2>4. QED
    BY <2>1, <2>3, QuietKeepsResume
<1>2. CASE Recover(h, a)
  BY <1>2, QuietKeepsResume DEF Recover, store, At
<1>3. QED
  BY <1>1, <1>2

\* With what checkpointWorkerWait returned, resume() may begin.
LEMMA SettledIsQuiet ==
    ASSUME TypeInv, NEW h \in Host, NEW p, ParkSettled(h, p)
    PROVE  \A g \in Host : \/ job'[g] = job[g]
                           \/ job'[g].at \in {"admit", "claim"} /\ job'[g].attempt = None
  BY BeginsIsQuiet DEF ParkSettled

LEMMA StepKeepsResume == ASSUME TypeInv, ResumeInv, NEW h \in Host, Steps(h) PROVE ResumeInv'
<1> USE DEF TypeInv, TypeOK
<1>1. CASE Park(h)
  <2>1. /\ UNCHANGED <<job, child>> /\ ~Alive(Original)
        /\ \A g \in Host : At(g, "park")' => At(g, "park")
    BY <1>1 DEF Park, Mirror, Done, Does, At, runs, ResumeInv, ParkIsProven
  <2>2. CASE phase = "parking"
    BY <1>1, <2>1, <2>2, EarlyKeepsResume DEF Park
  <2>3. CASE phase # "parking"
    BY <1>1, <2>1, <2>3, QuietKeepsResume DEF Park
  <2>4. QED
    BY <2>2, <2>3
<1>2. CASE FailPark(h)
  <2>1. /\ UNCHANGED <<job, child>>
        /\ \A g \in Host : At(g, "park")' => At(g, "park")
    BY <1>2 DEF FailPark, Mirror, Does, At, runs
  <2>2. CASE phase \in {"waiting", "ready"} /\ phase' = "held"
    BY <2>1, <2>2, EarlyKeepsResume
  <2>3. CASE phase' = "cancelled"
    BY <2>1, <2>3, ClosingKeepsResume DEF Over
  <2>4. CASE UNCHANGED <<phase, claim>>
    BY <2>1, <2>4, QuietKeepsResume
  <2>5. QED
    BY <1>2, <2>2, <2>3, <2>4 DEF FailPark
<1>3. CASE HoldFailedResume(h)
  <2>1. /\ UNCHANGED <<job, child>>
        /\ \A g \in Host : At(g, "park")' => At(g, "park")
    BY <1>3 DEF HoldFailedResume, Mirror, Does, At, runs
  <2>2. CASE phase = "resuming" /\ claim = [attempt |-> todo[h].attempt, published |-> TRUE] /\ phase' = "held"
    <3>1. todo[h].attempt \in Resumed
      BY <1>3 DEF HoldFailedResume, At, Todo
    <3>2. claim # None /\ claim.published
      <4>1. claim \in Claim
        BY <2>2, <3>1 DEF Claim
      <4>2. QED
        BY <2>2, <4>1, NoneAssumption
    <3>3. QED
      BY <2>1, <2>2, <3>2, ClosingKeepsResume
  <2>3. CASE UNCHANGED <<phase, claim>>
    BY <2>1, <2>3, QuietKeepsResume
  <2>4. QED
    BY <1>3, <2>2, <2>3 DEF HoldFailedResume
<1>4. CASE FollowCancel(h) \/ RecordPublished(h) \/ Register(h)
  BY <1>4, QuietKeepsResume DEF FollowCancel, RecordPublished, Register, Done, Does, At, store, runs
<1>5. CASE MirrorPhase(h)
  BY <1>5, SettledIsQuiet, QuietKeepsResume DEF MirrorPhase, Done, Does, At, store, runs
<1>6. CASE Admitted(h)
  <2>1. UNCHANGED <<claim, job, child>> /\ \A g \in Host : At(g, "park")' => At(g, "park")
    BY <1>6 DEF Admitted, Done, Does, At, runs
  <2>2. CASE phase = "registering"
    BY <1>6, <2>1, <2>2, EarlyKeepsResume DEF Admitted
  <2>3. CASE phase # "registering"
    BY <1>6, <2>1, <2>3, QuietKeepsResume DEF Admitted
  <2>4. QED
    BY <2>2, <2>3
<1>7. QED
  BY <1>1, <1>2, <1>3, <1>4, <1>5, <1>6 DEF Steps

LEMMA NextResumeInv == TypeInv /\ ResumeInv /\ [Next]_vars => ResumeInv'
<1> SUFFICES ASSUME TypeInv, ResumeInv, [Next]_vars PROVE ResumeInv'
  OBVIOUS
<1> USE DEF TypeInv, TypeOK
<1>1. ASSUME OperationEnds \/ WaitAdmission PROVE ResumeInv'
  <2>1. CASE phase = "waiting" /\ OperationEnds
    BY <2>1, EarlyKeepsResume DEF OperationEnds, ResumeInv, ParkedIsGone, At, runs
  <2>2. CASE UNCHANGED <<phase, claim, job, child, todo>>
    BY <2>2, QuietKeepsResume DEF At
  <2>3. CASE WaitAdmission
    BY <2>3, EarlyKeepsResume DEF WaitAdmission, Does, At, runs
  <2>4. QED
    BY <1>1, <2>1, <2>2, <2>3 DEF OperationEnds, runs
<1>2. ASSUME Checkpoint \/ UNCHANGED vars PROVE ResumeInv'
  BY <1>2, QuietKeepsResume DEF Checkpoint, At, store, runs, vars, moving
<1>3. ASSUME ParkFailed PROVE ResumeInv'
  BY <1>3, ClosingKeepsResume DEF ParkFailed, Over, Does, At, runs
<1>4. ASSUME NEW a \in Attempt, Acknowledge(a) PROVE ResumeInv'
  BY <1>4, ClosingKeepsResume DEF Acknowledge, Over, Mirror, Does, At, runs
<1>5. ASSUME NEW a \in Attempt, ChildEnds(a) PROVE ResumeInv'
  BY <1>5, QuietKeepsResume DEF ChildEnds, Alive, At, store
<1>6. ASSUME NEW h \in Host, Steps(h) PROVE ResumeInv'
  BY <1>6, StepKeepsResume
<1>7. ASSUME NEW h \in Host, Delivered(h) PROVE ResumeInv'
  BY <1>7, BeginsIsQuiet, QuietKeepsResume DEF Delivered, At, store, runs
<1>8. ASSUME NEW h \in Host, Admit(h) \/ Abandon(h) \/ LaunchFails(h) PROVE ResumeInv'
  <2>1. CASE Hold(h)
    BY <1>8, <2>1, HoldGivesUp, QuietKeepsResume DEF Admit, Abandon, LaunchFails, store, runs
  <2>2. CASE Task(h, None) /\ UNCHANGED todo
    BY <1>8, <2>2, QuietKeepsResume DEF Admit, Abandon, LaunchFails, Task, At, store, runs
  <2>3. CASE Task(h, [at |-> "claim", attempt |-> None]) /\ UNCHANGED todo
    BY <1>8, <2>3, QuietKeepsResume DEF Admit, Abandon, LaunchFails, Task, At, store, runs
  <2>4. QED
    BY <1>8, <2>1, <2>2, <2>3 DEF Admit, Abandon, LaunchFails
<1>9. ASSUME NEW h \in Host, Resumes(h) PROVE ResumeInv'
  <2>1. CASE ParkReturns(h)
    BY <2>1, SettledIsQuiet, QuietKeepsResume DEF ParkReturns, At, store, runs
  <2>2. QED
    BY <1>8, <1>9, <2>1, ClaimKeepsResume, PublishKeepsResume, LaunchKeepsResume DEF Resumes
<1>10. ASSUME NEW h \in Host, Reconcile(h) PROVE ResumeInv'
  BY <1>10, ReconcileKeepsResume
<1>11. ASSUME NEW h \in Host, NEW a \in Attempt, Exit(h, a) \/ Recover(h, a) PROVE ResumeInv'
  BY <1>11, ExitKeepsResume
<1>12. ASSUME NEW h \in Host, Start(h) \/ Opens(h) \/ Close(h) \/ \E a \in Attempt : StopRun(h, a)
       PROVE  ResumeInv'
  BY <1>12, QuietKeepsResume DEF Start, Opens, Close, StopRun, At, store, runs
<1>13. ASSUME NEW h \in Host, Quit(h) \/ Crash(h) PROVE ResumeInv'
  BY <1>13, QuietKeepsResume DEF Quit, Crash, Dies, At, store, runs
<1>14. ASSUME NEW h \in Host, StopParked(h) PROVE ResumeInv'
  <2>1. CASE phase \in Over
    BY <1>14, <2>1, QuietKeepsResume DEF StopParked, At, runs
  <2>2. CASE phase \notin Over
    BY <1>14, <2>2, ClosingKeepsResume DEF StopParked, Over, Does, At, runs
  <2>3. QED
    BY <2>1, <2>2
<1>15. ASSUME NEW h \in Host, StopUnserved(h) PROVE ResumeInv'
  BY <1>15, QuietKeepsResume DEF StopUnserved, At, store
<1>16. QED
  BY <1>1, <1>2, <1>3, <1>4, <1>5, <1>6, <1>7, <1>9, <1>10, <1>11, <1>12, <1>13, <1>14, <1>15
     DEF Next, Moves, Suffers

-----------------------------------------------------------------------------
(* The record and the store *)

\* What a host is about to announce as over is over.
Announced ==
    \A h \in Host : At(h, "follow") \/ (At(h, "mirror") /\ todo[h].phase \in Over) => phase \in Over

ReleaseInv == Announced /\ ReleasedIsOver

LEMMA InitReleaseInv == Init => ReleaseInv
  BY DEF Init, ReleaseInv, Announced, ReleasedIsOver, At

\* A wait that is over stays over.
LEMMA OverStays == TypeInv /\ ResumeInv /\ phase \in Over /\ [Next]_vars => phase' \in Over
<1> SUFFICES ASSUME TypeInv, ResumeInv, phase \in Over, [Next]_vars PROVE phase' \in Over
  OBVIOUS
<1> USE DEF Over
<1>1. ASSUME NEW h \in Host, Steps(h) PROVE phase' \in Over
  BY <1>1 DEF Steps, Admitted, Park, FailPark, HoldFailedResume, MirrorPhase, FollowCancel, RecordPublished,
              Register, store
<1>2. ASSUME NEW h \in Host, Resumes(h) PROVE phase' \in Over
  BY <1>2 DEF Resumes, ParkReturns, Admit, ClaimResume, PublishResume, PublishFails, Claimed, Launch,
              LaunchFails, Abandon, store
<1>3. ASSUME NEW h \in Host,
             \/ Delivered(h) \/ Start(h) \/ Opens(h) \/ Reconcile(h)
             \/ \E a \in Attempt : Exit(h, a) \/ Recover(h, a)
      PROVE phase' \in Over
  BY <1>3 DEF Delivered, Start, Opens, Reconcile, Exit, Recover, store
<1>4. ASSUME NEW h \in Host, Suffers(h) PROVE phase' \in Over
  BY <1>4 DEF Suffers, StopParked, StopUnserved, Close, Quit, Crash, Dies, StopRun, store
<1>5. ASSUME OperationEnds \/ WaitAdmission \/ Checkpoint \/ ParkFailed \/ UNCHANGED vars
      PROVE  phase' \in Over
  BY <1>5 DEF OperationEnds, WaitAdmission, Checkpoint, ParkFailed, store, vars, moving
<1>6. ASSUME NEW a \in Attempt, Acknowledge(a) \/ ChildEnds(a) PROVE phase' \in Over
  BY <1>6 DEF Acknowledge, ChildEnds, store
<1>7. QED
  BY <1>1, <1>2, <1>3, <1>4, <1>5, <1>6 DEF Next, Moves

\* A step that marks the record as over has the wait over, and one that goes on to
\* announce an end as well.
AnnouncesTruly ==
    /\ \/ \E h \in Host : StopUnserved(h)
       \/ record' \in {record, None} \/ Pending(record') \/ phase' \in Over
    /\ \A h \in Host :
          \/ todo'[h] = todo[h] \/ todo'[h] = None \/ phase' \in Over
          \/ todo'[h].step \notin {"follow", "mirror"}
          \/ todo'[h].step = "mirror" /\ todo'[h].phase \notin Over

LEMMA TrulyKeepsRelease ==
    ASSUME ReleaseInv, phase \in Over => phase' \in Over, AnnouncesTruly, scenario' = scenario
    PROVE  ReleaseInv'
<1>1. Announced'
  BY DEF ReleaseInv, Announced, AnnouncesTruly, At
<1>2. ReleasedIsOver'
  BY DEF ReleaseInv, ReleasedIsOver, AnnouncesTruly, Pending, StopUnserved
<1>3. QED
  BY <1>1, <1>2 DEF ReleaseInv

LEMMA NextAnnouncesTruly ==
    ASSUME TypeInv, ReleaseInv, [Next]_vars PROVE AnnouncesTruly
<1> USE DEF TypeInv, TypeOK, AnnouncesTruly
<1>a. ASSUME NEW p \in Phases \ Over, Marks(p) PROVE record' = None \/ Pending(record')
  BY <1>a, MarkedType, NoneAssumption DEF Marks, Pending
<1>1. ASSUME NEW h \in Host, NEW t, Does(h, t),
             t.step \notin {"follow", "mirror"} \/ (t.step = "mirror" /\ t.phase \notin Over)
                \/ phase' \in Over \/ t = None
      PROVE  \A g \in Host :
                \/ todo'[g] = todo[g] \/ todo'[g] = None \/ phase' \in Over
                \/ todo'[g].step \notin {"follow", "mirror"}
                \/ todo'[g].step = "mirror" /\ todo'[g].phase \notin Over
  BY <1>1 DEF Does
<1>2. CASE OperationEnds \/ WaitAdmission \/ Checkpoint \/ UNCHANGED vars
  <2>1. CASE WaitAdmission
    BY <2>1 DEF WaitAdmission, Does
  <2>2. QED
    BY <1>2, <2>1 DEF OperationEnds, Checkpoint, Pending, Over, vars, moving
<1>3. CASE ParkFailed \/ \E a \in Attempt : Acknowledge(a) \/ ChildEnds(a)
  BY <1>3 DEF ParkFailed, Acknowledge, ChildEnds, Over
<1>4. ASSUME NEW h \in Host, Park(h) \/ FailPark(h) \/ HoldFailedResume(h) PROVE AnnouncesTruly
  BY <1>4, <1>1 DEF Park, FailPark, HoldFailedResume, Mirror, Done, Over
<1>5. ASSUME NEW h \in Host, MirrorPhase(h) PROVE AnnouncesTruly
  <2>1. todo[h].phase \in Phases
    BY <1>5 DEF MirrorPhase, At, Todo
  <2>2. todo[h].phase \in Over => phase' \in Over
    BY <1>5 DEF MirrorPhase, ReleaseInv, Announced, store
  <2>3. QED
    BY <1>5, <1>1, <1>a, <2>1, <2>2, MarkedType DEF MirrorPhase, ParkSettled, Done, Marks
<1>6. ASSUME NEW h \in Host, FollowCancel(h) PROVE AnnouncesTruly
  <2>1. phase' \in Over
    BY <1>6 DEF FollowCancel, ReleaseInv, Announced, store
  <2>2. QED
    BY <1>6, <2>1 DEF FollowCancel, Done
<1>7. ASSUME NEW h \in Host, RecordPublished(h) \/ Register(h) \/ Admitted(h) PROVE AnnouncesTruly
  BY <1>7, <1>1, NoneAssumption DEF RecordPublished, Register, Admitted, Done, Pending, Over
<1>8. ASSUME NEW h \in Host, Hold(h) PROVE AnnouncesTruly
  BY <1>8, <1>1, <1>a DEF Hold, Phases, Over
<1>9. ASSUME NEW h \in Host, Resumes(h) PROVE AnnouncesTruly
  <2>1. CASE Admit(h)
    BY <2>1, <1>8, <1>a, MarkedType DEF Admit, Marks, NothingBefore, Early, Idle, store
  <2>2. CASE ClaimResume(h) \/ PublishResume(h) \/ PublishFails(h) \/ Launch(h)
    BY <2>2, <1>8, <1>1 DEF ClaimResume, PublishResume, PublishFails, Launch
  <2>3. CASE LaunchFails(h) \/ Abandon(h)
    BY <2>3, <1>8, <1>a DEF LaunchFails, Abandon, Phases, Over
  <2>4. CASE ParkReturns(h)
    <3>1. IF host[h] = "on" THEN parked[h] \in Phases \ Over ELSE "held" \in Phases \ Over
      BY <2>4 DEF ParkReturns, Left, Phases, Over
    <3>2. QED
      BY <2>4, <3>1, <1>a DEF ParkReturns, ParkSettled
  <2>5. QED
    BY <1>9, <2>1, <2>2, <2>3, <2>4 DEF Resumes
<1>10. ASSUME NEW h \in Host, Delivered(h) \/ Start(h) \/ Opens(h) PROVE AnnouncesTruly
  BY <1>10 DEF Delivered, Start, Opens
<1>11. ASSUME NEW h \in Host, Reconcile(h) PROVE AnnouncesTruly
  <2>1. ASSUME NEW a, Settles(h, a) PROVE AnnouncesTruly
    BY <2>1, <1>1, <1>a DEF Settles, Phases, Over
  <2>2. ASSUME Staged(h) PROVE AnnouncesTruly
    BY <2>2, <1>1, <1>a DEF Staged, Phases, Over
  <2>3. phase' = phase
    BY <1>11 DEF Reconcile, store
  <2>4. ASSUME Marks("consumed"), phase \in Over, UNCHANGED todo PROVE AnnouncesTruly
    BY <2>3, <2>4
  <2>5. ASSUME UNCHANGED <<record, todo>> PROVE AnnouncesTruly
    BY <2>5
  <2>6. ASSUME NEW p \in {"held", "waiting"}, Marks(p), UNCHANGED todo PROVE AnnouncesTruly
    BY <2>6, <1>a DEF Phases, Over
  <2>7. QED
    BY <1>11, <2>1, <2>2, <2>4, <2>5, <2>6 DEF Reconcile, Reconciles
<1>12. ASSUME NEW h \in Host, NEW a \in Attempt, Exit(h, a) \/ Recover(h, a) PROVE AnnouncesTruly
  <2>1. ASSUME NEW clean, NEW r \in Record \cup {None}, NEW b, Settlement(h, b, clean, r),
               r = record \/ r = None \/ Pending(r)
        PROVE  AnnouncesTruly
    BY <2>1, <1>1, MarkedType, NoneAssumption DEF Settlement, Pending, Phases, Over
  <2>2. ASSUME NEW clean
        PROVE  /\ Finalized(a, clean) \in Record \cup {None}
               /\ Finalized(a, clean) \in {record, None} \/ Pending(Finalized(a, clean))
    BY MarkedType, NoneAssumption DEF Finalized, Pending, Phases, Over
  <2>3. CASE Exit(h, a)
    BY <2>1, <2>2, <2>3 DEF Exit
  <2>4. CASE Recover(h, a)
    BY <2>2, <2>4 DEF Recover, Pending
  <2>5. QED
    BY <1>12, <2>3, <2>4
<1>13. ASSUME NEW h \in Host, Suffers(h) PROVE AnnouncesTruly
  <2>1. CASE StopParked(h)
    BY <2>1, <1>1, <1>a DEF StopParked, Phases, Over
  <2>2. CASE StopUnserved(h)
    BY <2>2 DEF StopUnserved
  <2>3. CASE Close(h) \/ Quit(h) \/ Crash(h) \/ \E a \in Attempt : StopRun(h, a)
    BY <2>3 DEF Close, Quit, Crash, Dies, StopRun
  <2>4. QED
    BY <1>13, <2>1, <2>2, <2>3 DEF Suffers
<1>14. QED
  BY <1>2, <1>3, <1>4, <1>5, <1>6, <1>7, <1>9, <1>10, <1>11, <1>12, <1>13 DEF Next, Moves, Steps

THEOREM InductiveInvariant == Spec => [](TypeInv /\ ResumeInv /\ ReleaseInv)
<1>1. Init => TypeInv /\ ResumeInv /\ ReleaseInv
  BY InitTypeInv, InitResumeInv, InitReleaseInv
<1>2. TypeInv /\ ResumeInv /\ ReleaseInv /\ [Next]_vars => (TypeInv /\ ResumeInv /\ ReleaseInv)'
  <2> SUFFICES ASSUME TypeInv, ResumeInv, ReleaseInv, [Next]_vars PROVE ReleaseInv'
    BY NextTypeInv, NextResumeInv
  <2>1. scenario' = scenario
    BY DEF Next, vars
  <2>2. QED
    BY <2>1, OverStays, NextAnnouncesTruly, TrulyKeepsRelease
<1>3. QED
  BY <1>1, <1>2, PTL DEF Spec

\* Whoever races, dies or is reloaded, the saved conversation has one writer, for any
\* number of sessions and of attempts: the one that parked it, at most one that resumes
\* it, and no attempt of the user before the wait is over.
THEOREM ConversationStaysSafe == Spec => []ConversationIsSafe
<1>1. ResumeInv /\ ReleaseInv => ConversationIsSafe
  BY DEF ResumeInv, ReleaseInv, ConversationIsSafe
<1>2. QED
  BY <1>1, InductiveInvariant, PTL

-----------------------------------------------------------------------------
(* The end of a wait *)

\* An attempt is started by its launch only, and with its claim published.
LEMMA StartsHaveClaim ==
    ASSUME TypeInv, ResumeInv, [Next]_vars, NEW a \in Resumed, child[a] = "none", child'[a] = "alive"
    PROVE  phase \notin Over /\ claim = [attempt |-> a, published |-> TRUE]
<1> USE DEF TypeInv, TypeOK
<1>1. ASSUME NEW h \in Host, Launch(h)
      PROVE  phase \notin Over /\ claim = [attempt |-> a, published |-> TRUE]
  <2>1. job[h].attempt = a
    BY <1>1 DEF Launch, Attempt
  <2>2. phase = "resuming"
    BY <1>1 DEF Launch, DispatchGuard
  <2>3. QED
    BY <1>1, <2>1, <2>2 DEF Launch, ResumeInv, JobsHold, Over
<1>2. ASSUME NEW h \in Host, Steps(h) \/ (Resumes(h) /\ ~Launch(h)) PROVE UNCHANGED child
  BY <1>2 DEF Steps, Admitted, Park, FailPark, HoldFailedResume, MirrorPhase, FollowCancel, RecordPublished,
              Register, Resumes, ParkReturns, Admit, ClaimResume, PublishResume, PublishFails, LaunchFails,
              Abandon, runs
<1>3. ASSUME NEW h \in Host,
             \/ Delivered(h) \/ Start(h) \/ Opens(h) \/ Reconcile(h)
             \/ \E b \in Attempt : Exit(h, b) \/ Recover(h, b)
      PROVE  UNCHANGED child
  BY <1>3 DEF Delivered, Start, Opens, Reconcile, Exit, Recover, runs
<1>4. ASSUME NEW h \in Host, Suffers(h) PROVE UNCHANGED child
  BY <1>4 DEF Suffers, StopParked, StopUnserved, Close, Quit, Crash, Dies, StopRun, runs
<1>5. ASSUME OperationEnds \/ WaitAdmission \/ Checkpoint \/ ParkFailed \/ UNCHANGED vars
      PROVE  UNCHANGED child
  BY <1>5 DEF OperationEnds, WaitAdmission, Checkpoint, ParkFailed, runs, vars, moving
<1>6. ASSUME NEW b \in Attempt, Acknowledge(b) \/ ChildEnds(b) PROVE child'[a] # "alive"
  BY <1>6 DEF Acknowledge, ChildEnds, Alive, Attempt, runs
<1>7. QED
  BY <1>1, <1>2, <1>3, <1>4, <1>5, <1>6 DEF Next, Moves

\* No attempt is started of a generation that is over, although its claim was published
\* and its record written before: the guard at the release of the child sees it.
THEOREM EndStartsNothing == Spec => NoLateLaunch
<1>1. TypeInv /\ ResumeInv /\ [Next]_vars =>
          [\A a \in Resumed : child[a] = "none" /\ child'[a] = "alive" =>
               phase \notin Over /\ claim = [attempt |-> a, published |-> TRUE]]_vars
  BY StartsHaveClaim
<1>2. QED
  BY <1>1, InductiveInvariant, PTL DEF Spec, NoLateLaunch

\* The other sessions have not begun.
ByItself(h) == \A g \in Host \ {h} : host[g] = "off"

\* The session in which the worker parked has begun, and none does anything before.
FirstHost ==
    /\ parent[Original] \in Host /\ host[parent[Original]] \notin {"off", "starting"}
    /\ \A h \in Host : host[h] = "off" => todo[h] = None /\ job[h] = None

ReleasedAlone == record # None /\ record.phase \in Over => phase \in Over

\* The record names the attempt of the session from its publication on, and while a
\* cancellation is to be followed it is not yet marked.
Follows(h, a) ==
    /\ child[a] # "none" => parent[a] = h
    /\ job[h] # None /\ job[h].at = "launch" /\ job[h].attempt = a =>
           IF At(h, "publish") THEN todo[h].attempt = a ELSE record # None /\ record.by = a
    /\ At(h, "publish") => child[a] = "none"
    /\ Alive(a) /\ (meta[a] = "running" \/ todo[h] = [step |-> "register", attempt |-> a]) =>
           record # None /\ record.by = a
    /\ todo[h] = [step |-> "register", attempt |-> a] => phase # "cancelled"
    /\ Alive(a) /\ meta[a] = "running" /\ phase = "cancelled" =>
           At(h, "follow") /\ record.phase # "cancelled"

AloneInv ==
    \A h \in Host : ByItself(h) =>
        /\ ReleasedAlone
        /\ host[h] = "on" => \A a \in Resumed : Follows(h, a)

FollowInv == FirstHost /\ AloneInv

LEMMA InitFollowInv == Init => FollowInv
<1> SUFFICES ASSUME Init PROVE FollowInv
  OBVIOUS
<1>1. \A s \in Scenarios : s.first \in Host
  BY ScenarioAssumption DEF Scenario
<1>2. FirstHost
  BY <1>1 DEF Init, FirstHost, Attempt
<1>3. \A a \in Resumed, h \in Host : Follows(h, a)
  BY WorkerWaitsAssumption DEF Init, Follows, At, Alive, Attempt
<1>4. QED
  BY <1>2, <1>3 DEF Init, FollowInv, AloneInv, ReleasedAlone

\* What a step of h does besides: nothing of the others, and the original's parent stays.
LEMMA NextFirstHost == ASSUME TypeInv, FirstHost, [Next]_vars PROVE FirstHost'
<1> USE DEF TypeInv, TypeOK, FirstHost
<1>1. ASSUME NEW h \in Host, Steps(h) PROVE FirstHost'
  <2>1. todo[h] # None
    BY <1>1 DEF Steps, Admitted, Park, FailPark, HoldFailedResume, MirrorPhase, FollowCancel, RecordPublished,
                Register, At
  <2>2. UNCHANGED <<host, parent>> /\ \A g \in Host : g # h => todo'[g] = todo[g] /\ job'[g] = job[g]
    BY <1>1 DEF Steps, Admitted, Park, FailPark, HoldFailedResume, MirrorPhase, FollowCancel, RecordPublished,
                Register, Mirror, ParkSettled, Begins, Task, Done, Does, hosts, runs
  <2>3. QED
    BY <2>1, <2>2
<1>2. ASSUME NEW h \in Host, Resumes(h) PROVE FirstHost'
  <2>1. host[h] # "off"
    BY <1>2 DEF Resumes, ParkReturns, Admit, ClaimResume, PublishResume, PublishFails, Launch, LaunchFails,
                Abandon, Open, Free, Running
  <2>2. UNCHANGED host /\ \A g \in Host : g # h => todo'[g] = todo[g] /\ job'[g] = job[g]
    BY <1>2 DEF Resumes, ParkReturns, Admit, ClaimResume, PublishResume, PublishFails, Launch, LaunchFails,
                Abandon, ParkSettled, Begins, Hold, Does, Task, hosts
  <2>3. parent'[Original] = parent[Original]
    <3>1. CASE Launch(h)
      BY <3>1, WorkerWaitsAssumption DEF Launch, Job, JobIsNamed
    <3>2. CASE ~Launch(h)
      BY <1>2, <3>2 DEF Resumes, ParkReturns, Admit, ClaimResume, PublishResume, PublishFails, LaunchFails,
                        Abandon, runs
    <3>3. QED
      BY <3>1, <3>2
  <2>4. QED
    BY <2>1, <2>2, <2>3
<1>3. ASSUME NEW h \in Host, Delivered(h) \/ Reconcile(h) PROVE FirstHost'
  <2>1. host[h] # "off" /\ UNCHANGED <<host, parent>>
    BY <1>3 DEF Delivered, Reconcile, Open, hosts, runs
  <2>2. \A g \in Host : g # h => todo'[g] = todo[g] /\ job'[g] = job[g]
    BY <1>3 DEF Delivered, Reconcile, Reconciles, Settles, Staged, Begins, Does, Task
  <2>3. QED
    BY <2>1, <2>2
<1>4. ASSUME NEW h \in Host, Start(h) \/ Opens(h) PROVE FirstHost'
  BY <1>4 DEF Start, Opens, runs
<1>5. ASSUME NEW h \in Host, NEW a \in Attempt, Exit(h, a) \/ Recover(h, a) PROVE FirstHost'
  <2>1. host[h] # "off" /\ UNCHANGED <<host, parent, job>>
    BY <1>5 DEF Exit, Recover, Free, Running, hosts
  <2>2. \A g \in Host : g # h => todo'[g] = todo[g]
    BY <1>5 DEF Exit, Recover, Settlement, Does
  <2>3. QED
    BY <2>1, <2>2
<1>6. ASSUME NEW h \in Host, Suffers(h) PROVE FirstHost'
  BY <1>6 DEF Suffers, StopParked, StopUnserved, Close, Quit, Crash, Dies, StopRun, Does, Open,
              Free, Running, hosts, runs
<1>7. CASE OperationEnds \/ WaitAdmission \/ Checkpoint \/ ParkFailed \/ UNCHANGED vars
  BY <1>7 DEF OperationEnds, WaitAdmission, Checkpoint, ParkFailed, Linked, Open, Does, hosts, runs,
              vars, moving
<1>8. ASSUME NEW a \in Attempt, Acknowledge(a) \/ ChildEnds(a) PROVE FirstHost'
  BY <1>8 DEF Acknowledge, ChildEnds, Linked, Open, Mirror, Does, hosts, runs
<1>9. QED
  BY <1>1, <1>2, <1>3, <1>4, <1>5, <1>6, <1>7, <1>8 DEF Next, Moves

\* A session that has begun is never again one that has not.
LEMMA BegunStays ==
    ASSUME TypeInv, FirstHost, [Next]_vars, NEW h \in Host, ByItself(h)'
    PROVE  ByItself(h) /\ parent[Original] = h /\ host[h] \notin {"off", "starting"}
<1> USE DEF TypeInv, TypeOK, ByItself
<1>1. ASSUME NEW g \in Host, host'[g] = "off" PROVE host[g] = "off"
  <2>1. ASSUME NEW f \in Host, Start(f) \/ Opens(f) \/ Suffers(f) PROVE host[g] = "off"
    BY <1>1, <2>1 DEF Start, Opens, Suffers, StopParked, StopUnserved, Close, Quit, Crash, Dies, StopRun, hosts
  <2>2. ASSUME NEW f \in Host, Steps(f) \/ Resumes(f) PROVE host[g] = "off"
    BY <1>1, <2>2
       DEF Steps, Admitted, Park, FailPark, HoldFailedResume, MirrorPhase, FollowCancel, RecordPublished,
           Register, Resumes, ParkReturns, Admit, ClaimResume, PublishResume, PublishFails, Launch, LaunchFails,
           Abandon, hosts
  <2>3. ASSUME NEW f \in Host, Delivered(f) \/ Reconcile(f) \/ \E a \in Attempt : Exit(f, a) \/ Recover(f, a)
        PROVE  host[g] = "off"
    BY <1>1, <2>3 DEF Delivered, Reconcile, Exit, Recover, hosts
  <2>4. CASE OperationEnds \/ WaitAdmission \/ Checkpoint \/ ParkFailed \/ UNCHANGED vars
    BY <1>1, <2>4 DEF OperationEnds, WaitAdmission, Checkpoint, ParkFailed, hosts, vars, moving
  <2>5. CASE \E a \in Attempt : Acknowledge(a) \/ ChildEnds(a)
    BY <1>1, <2>5 DEF Acknowledge, ChildEnds, hosts
  <2>6. QED
    BY <2>1, <2>2, <2>3, <2>4, <2>5 DEF Next, Moves
<1>2. ByItself(h)
  BY <1>1
<1>3. QED
  BY <1>2 DEF FirstHost

\* A session that has not begun does nothing but begin.
LEMMA OffOnlyStarts ==
    ASSUME FirstHost, NEW f \in Host, host[f] = "off", Moves(f) \/ Suffers(f)
    PROVE  Start(f)
<1>1. todo[f] = None /\ job[f] = None
  BY DEF FirstHost
<1>2. ~Steps(f) /\ ~Resumes(f)
  BY <1>1 DEF Steps, Admitted, Park, FailPark, HoldFailedResume, MirrorPhase, FollowCancel, RecordPublished,
              Register, At, Resumes, ParkReturns, Admit, ClaimResume, PublishResume, PublishFails, Launch,
              LaunchFails, Abandon, Free, Running
<1>3. ~Delivered(f) /\ ~Reconcile(f) /\ ~Opens(f) /\ \A a \in Attempt : ~Exit(f, a) /\ ~Recover(f, a)
  BY DEF Delivered, Reconcile, Opens, Exit, Recover, Open, Free, Running
<1>4. ~Suffers(f)
  BY DEF Suffers, StopParked, StopUnserved, Close, Quit, Crash, StopRun, Open, Free
<1>5. QED
  BY <1>2, <1>3, <1>4 DEF Moves

KeepsNames == record # None => record' # None /\ record'.by = record.by

\* What an instance turns to while it follows nothing and publishes nothing.
TurnsTo(h) ==
    \/ todo'[h] = todo[h]
    \/ ~At(h, "publish") /\ (todo'[h] = None \/ todo'[h].step \notin {"publish", "register"})

\* A wait becomes cancelled with a host that follows it, and the record as it was.
CancelsWith(h) ==
    phase' = "cancelled" =>
        \/ phase = "cancelled" /\ (~At(h, "follow") \/ UNCHANGED <<record, todo>>)
        \/ phase \notin Over /\ At(h, "follow")' /\ record' = record

LEMMA QuietKeepsFollows ==
    ASSUME TypeInv, ReleasedAlone, NEW h \in Host, NEW a \in Resumed, Follows(h, a),
           KeepsNames, TurnsTo(h), CancelsWith(h),
           \/ job'[h] \in {job[h], None}
           \/ job'[h].at \in {"admit", "claim"},
           child'[a] = child[a] \/ (child[a] # "none" /\ child'[a] # "alive"),
           meta'[a] = meta[a] \/ meta'[a] # "running",
           parent'[a] = parent[a]
    PROVE  Follows(h, a)'
<1> USE DEF Follows
<1>0. \A s \in {"publish", "register"} : [step |-> s, attempt |-> a] # None
  BY TodoMembers, NoneAssumption
<1>1. Alive(a)' => Alive(a)
  BY DEF Alive
<1>2. (child[a] # "none" => parent[a] = h)'
  OBVIOUS
<1>8. (job[h] # None /\ job[h].at = "launch" /\ job[h].attempt = a =>
           IF At(h, "publish") THEN todo[h].attempt = a ELSE record # None /\ record.by = a)'
  BY <1>0 DEF KeepsNames, TurnsTo, At
<1>3. (At(h, "publish") => child[a] = "none")'
  BY DEF TurnsTo, At
<1>4. (Alive(a) /\ (meta[a] = "running" \/ todo[h] = [step |-> "register", attempt |-> a]) =>
           record # None /\ record.by = a)'
  BY <1>0, <1>1 DEF KeepsNames, TurnsTo
<1>5. (todo[h] = [step |-> "register", attempt |-> a] => phase # "cancelled")'
  BY <1>0 DEF TurnsTo, CancelsWith, At
<1>6. (Alive(a) /\ meta[a] = "running" /\ phase = "cancelled" =>
           At(h, "follow") /\ record.phase # "cancelled")'
  <2> SUFFICES ASSUME Alive(a)', meta'[a] = "running", phase' = "cancelled"
               PROVE  At(h, "follow")' /\ record'.phase # "cancelled"
    OBVIOUS
  <2>1. Alive(a) /\ meta[a] = "running"
    BY <1>1
  <2>2. CASE phase = "cancelled"
    BY <2>1, <2>2 DEF CancelsWith, At, Over
  <2>3. CASE phase # "cancelled"
    BY <2>1, <2>3 DEF CancelsWith, ReleasedAlone, Over
  <2>4. QED
    BY <2>2, <2>3
<1>7. QED
  BY <1>2, <1>3, <1>4, <1>5, <1>6, <1>8

LEMMA StepKeepsFollows ==
    ASSUME TypeInv, ReleaseInv, ReleasedAlone, NEW h \in Host, NEW a \in Resumed, Follows(h, a), Steps(h)
    PROVE  Follows(h, a)'
<1> USE DEF TypeInv, TypeOK
<1>1. CASE Park(h) \/ FailPark(h) \/ HoldFailedResume(h)
  <2>1. UNCHANGED <<record, job, child, meta, parent>>
    BY <1>1 DEF Park, FailPark, HoldFailedResume, runs
  <2>2. TurnsTo(h)
    BY <1>1 DEF Park, FailPark, HoldFailedResume, TurnsTo, At, Mirror, Done, Does
  <2>3. CASE Park(h) \/ HoldFailedResume(h)
    <3>1. ~At(h, "follow") /\ (phase' = "cancelled" => phase = "cancelled")
      BY <2>3 DEF Park, HoldFailedResume, At
    <3>2. QED
      BY <3>1, <2>1, <2>2, QuietKeepsFollows DEF KeepsNames, CancelsWith
  <2>4. CASE FailPark(h)
    <3>1. ~At(h, "follow") /\ (phase' = "cancelled" /\ phase # "cancelled" =>
                                  phase \notin Over /\ todo'[h] = [step |-> "follow"])
      BY <2>4 DEF FailPark, At, Does, Over
    <3>2. [step |-> "follow"] # None
      BY TodoMembers, NoneAssumption
    <3>3. CancelsWith(h)
      BY <3>1, <3>2, <2>1 DEF CancelsWith, At
    <3>4. QED
      BY <3>3, <2>1, <2>2, QuietKeepsFollows DEF KeepsNames
  <2>5. QED
    BY <1>1, <2>3, <2>4
<1>2. CASE MirrorPhase(h)
  <2>1. todo[h].phase \in Phases
    BY <1>2 DEF MirrorPhase, At, Todo
  <2>2. KeepsNames
    BY <1>2, <2>1, MarkedType DEF MirrorPhase, ParkSettled, Marks, KeepsNames
  <2>3. TurnsTo(h) /\ CancelsWith(h)
    BY <1>2 DEF MirrorPhase, TurnsTo, CancelsWith, At, Done, Does, store
  <2>4. job'[h] = job[h] \/ job'[h].at = "admit"
    BY <1>2 DEF MirrorPhase, ParkSettled, Begins, Task
  <2>5. QED
    BY <1>2, <2>2, <2>3, <2>4, QuietKeepsFollows DEF MirrorPhase, runs
<1>3. CASE FollowCancel(h)
  <2>1. UNCHANGED <<phase, child, parent, job>> /\ record' = Marked(record, "cancelled")
        /\ todo'[h] = None /\ \A b \in Attempt : meta'[b] \in {meta[b], "killed"}
    BY <1>3 DEF FollowCancel, StopsAttempt, Marks, Done, Does, store
  <2>2. record # None => record' # None /\ record'.by = record.by
    BY <2>1, MarkedType DEF Phases, Over
  <2>3. ASSUME Alive(a), meta[a] = "running", phase = "cancelled" PROVE meta'[a] # "running"
    <3>1. record # None /\ record.by = a /\ record.phase # "cancelled" /\ parent[a] = h
      BY <2>3 DEF Follows, Alive
    <3>2. StopsAttempt(h) /\ a \in Attempt /\ a # None
      BY <1>3, WorkerWaitsAssumption DEF FollowCancel, Attempt
    <3>3. meta' = [meta EXCEPT ![a] = "killed"]
      BY <3>1, <3>2, <2>3 DEF StopsAttempt
    <3>4. QED
      BY <3>2, <3>3
  <2>4. QED
    BY <1>3, <2>1, <2>2, <2>3, TodoMembers, NoneAssumption DEF FollowCancel, Follows, At, Alive, Attempt
<1>4. CASE RecordPublished(h)
  <2>1. /\ At(h, "publish") /\ child[a] = "none"
        /\ record' = [phase |-> "resuming", by |-> todo[h].attempt]
        /\ todo'[h] = None /\ UNCHANGED <<phase, child, parent, meta, job>>
    BY <1>4 DEF RecordPublished, Done, Does, Follows, store, runs
  <2>2. todo[h].attempt \in Resumed
    BY <2>1 DEF At, Todo
  <2>3. record' # None /\ record'.by = todo[h].attempt
    BY <2>1, <2>2, NoneAssumption DEF Record, Phases
  <2>4. QED
    BY <2>1, <2>3, TodoMembers, NoneAssumption DEF Follows, At, Alive
<1>5. CASE Register(h)
  <2>1. At(h, "register") /\ todo[h].attempt \in Resumed
    BY <1>5 DEF Register, At, Todo
  <2>2. todo[h] = [step |-> "register", attempt |-> todo[h].attempt]
    BY <2>1 DEF At, Todo
  <2>3. /\ todo'[h] = None /\ UNCHANGED <<phase, child, parent, job, record>>
        /\ meta'[a] = IF a = todo[h].attempt THEN "running" ELSE meta[a]
    BY <1>5, <2>1 DEF Register, Done, Does, store, Attempt
  <2>4. QED
    BY <2>1, <2>2, <2>3, TodoMembers, NoneAssumption DEF Follows, At, Alive
<1>6. CASE Admitted(h)
  <2>1. /\ UNCHANGED <<record, job, child, meta, parent>> /\ todo'[h] = None
        /\ At(h, "admit") /\ (phase' = "cancelled" => phase = "cancelled")
    BY <1>6 DEF Admitted, Done, Does, runs
  <2>2. QED
    BY <2>1, QuietKeepsFollows DEF KeepsNames, TurnsTo, CancelsWith, At
<1>7. QED
  BY <1>1, <1>2, <1>3, <1>4, <1>5, <1>6 DEF Steps

LEMMA ResumeKeepsFollows ==
    ASSUME TypeInv, ResumeInv, ReleasedAlone, NEW h \in Host, host[h] = "on",
           NEW a \in Resumed, Follows(h, a), Resumes(h)
    PROVE  Follows(h, a)'
<1> USE DEF TypeInv, TypeOK
<1>1. ASSUME Hold(h), todo[h] = None, \/ phase' = phase
                                      \/ phase' = "ready",
             UNCHANGED <<child, meta, parent>>
      PROVE  Follows(h, a)'
  <2>1. KeepsNames
    BY <1>1, MarkedType DEF Hold, Marks, KeepsNames, Phases
  <2>2. TurnsTo(h) /\ CancelsWith(h)
    BY <1>1 DEF Hold, TurnsTo, CancelsWith, At, Does
  <2>3. QED
    BY <1>1, <2>1, <2>2, HoldGivesUp, QuietKeepsFollows
<1>2. ASSUME UNCHANGED <<todo, child, meta, parent>>, todo[h] = None, KeepsNames,
             phase' = phase \/ phase' = "resuming",
             job'[h] = None \/ job'[h].at \in {"admit", "claim"}
      PROVE  Follows(h, a)'
  BY <1>2, QuietKeepsFollows DEF TurnsTo, CancelsWith, At
<1>3. CASE Admit(h)
  <2>1. todo[h] = None /\ UNCHANGED <<child, meta, parent, phase>>
    BY <1>3 DEF Admit, Open, Free, store, runs
  <2>2. phase \in Phases
    BY <1>3 DEF Admit, NothingBefore, Early, Idle
  <2>3. QED
    BY <1>1, <1>2, <1>3, <2>1, <2>2, MarkedType DEF Admit, Marks, Task, KeepsNames
<1>4. CASE ClaimResume(h)
  <2>1. todo[h] = None /\ UNCHANGED <<child, meta, parent>>
    BY <1>4 DEF ClaimResume, Free, runs
  <2>2. CASE phase = "ready"
    <3>1. PICK b \in Resumed : Task(h, [at |-> "publish", attempt |-> b]) /\ UNCHANGED <<record, todo>>
                               /\ phase' = "resuming"
      BY <1>4, <2>2 DEF ClaimResume
    <3>2. job'[h].at = "publish"
      BY <3>1 DEF Task
    <3>3. QED
      BY <2>1, <3>1, <3>2, TodoMembers, NoneAssumption DEF Follows, At, Alive
  <2>3. CASE phase # "ready"
    BY <1>1, <1>4, <2>1, <2>3 DEF ClaimResume
  <2>4. QED
    BY <2>2, <2>3
<1>5. CASE PublishResume(h) /\ Claimed(h)
  <2>1. \A b \in Resumed : child[b] = "none"
    BY <1>5, UnpublishedIsAlone DEF PublishResume
  <2>2. /\ todo'[h] = [step |-> "publish", attempt |-> job[h].attempt]
        /\ job'[h].attempt = job[h].attempt
        /\ UNCHANGED <<child, meta, parent>>
    BY <1>5 DEF PublishResume, Does, Task, Job, runs
  <2>3. At(h, "publish")' /\ todo'[h].attempt = job[h].attempt /\ todo'[h].step = "publish"
    BY <1>5, <2>2, TodoMembers, NoneAssumption DEF At, PublishResume, Job, JobIsNamed
  <2>4. QED
    BY <2>1, <2>2, <2>3 DEF Follows, Alive
<1>6. CASE (PublishResume(h) /\ ~Claimed(h)) \/ PublishFails(h)
  BY <1>1, <1>6 DEF PublishResume, PublishFails, Open, Free, runs
<1>7. CASE Launch(h)
  <2> DEFINE b == job[h].attempt
  <2>1. /\ b \in Resumed /\ phase = "resuming" /\ phase' = phase /\ todo[h] = None
        /\ todo'[h] = [step |-> "register", attempt |-> b] /\ job'[h] = None
        /\ UNCHANGED <<record, meta>>
        /\ child' = [child EXCEPT ![b] = "alive"] /\ parent' = [parent EXCEPT ![b] = h]
    BY <1>7 DEF Launch, DispatchGuard, Free, Does, Task, Job, JobIsNamed, store
  <2>2. a = b => record # None /\ record.by = a
    BY <1>7, <2>1 DEF Launch, Follows, At
  <2>3. QED
    BY <2>1, <2>2 DEF Follows, At, Alive, Attempt
<1>8. CASE LaunchFails(h)
  <2>1. KeepsNames
    BY <1>8, MarkedType DEF LaunchFails, Marks, KeepsNames, Phases
  <2>2. QED
    BY <1>2, <1>8, <2>1 DEF LaunchFails, Free, Task, store, runs
<1>9. CASE Abandon(h)
  BY <1>9 DEF Abandon
<1>10. CASE ParkReturns(h)
  <2>1. KeepsNames
    BY <1>10, MarkedType DEF ParkReturns, ParkSettled, Marks, KeepsNames, Phases, Left
  <2>2. job'[h] = job[h] \/ job'[h].at = "admit"
    BY <1>10 DEF ParkReturns, ParkSettled, Begins, Task
  <2>3. UNCHANGED <<phase, todo, child, meta, parent>> /\ todo[h] = None
    BY <1>10 DEF ParkReturns, Free, store, runs
  <2>4. QED
    BY <2>1, <2>2, <2>3, QuietKeepsFollows DEF TurnsTo, CancelsWith, At
<1>11. QED
  BY <1>3, <1>4, <1>5, <1>6, <1>7, <1>8, <1>9, <1>10 DEF Resumes

\* What the worker, its operation and the attempts do.
LEMMA WorkerKeepsFollows ==
    ASSUME TypeInv, ReleasedAlone, NEW h \in Host, ByItself(h), parent[Original] = h,
           NEW a \in Resumed, Follows(h, a),
           \/ OperationEnds \/ WaitAdmission \/ Checkpoint \/ ParkFailed \/ UNCHANGED vars
           \/ \E b \in Attempt : Acknowledge(b) \/ ChildEnds(b)
    PROVE  Follows(h, a)'
<1> USE DEF TypeInv, TypeOK
<1>0. CASE WaitAdmission
  <2>1. /\ UNCHANGED <<record, job, child, meta, parent>> /\ phase' = "registering"
        /\ todo[h] = None /\ todo'[h] = [step |-> "admit"]
    BY <1>0 DEF WaitAdmission, Linked, Open, Free, Does, runs
  <2>2. QED
    BY <2>1, QuietKeepsFollows DEF KeepsNames, TurnsTo, CancelsWith, At
<1>1. CASE OperationEnds \/ UNCHANGED vars
  <2>1. UNCHANGED <<record, todo, job, child, meta, parent>> /\ (phase' = "cancelled" => phase' = phase)
    BY <1>1 DEF OperationEnds, store, runs, vars, moving
  <2>2. QED
    BY <2>1, QuietKeepsFollows DEF KeepsNames, TurnsTo, CancelsWith
<1>2. CASE Checkpoint
  <2>1. UNCHANGED <<phase, todo, job, child, meta, parent>> /\ record = None /\ phase = "parking"
    BY <1>2 DEF Checkpoint, store, runs
  <2>2. QED
    BY <2>1, QuietKeepsFollows DEF KeepsNames, TurnsTo, CancelsWith
<1>3. CASE ParkFailed
  <2>1. /\ UNCHANGED <<record, job, child, meta, parent>> /\ phase = "parking"
        /\ todo[h] = None /\ todo'[h] = [step |-> "follow"]
    BY <1>3 DEF ParkFailed, Linked, Open, Free, Does, runs
  <2>2. todo'[h] # None
    BY <2>1, TodoMembers, NoneAssumption
  <2>3. TurnsTo(h) /\ CancelsWith(h)
    BY <2>1, <2>2 DEF TurnsTo, CancelsWith, At, Over
  <2>4. QED
    BY <2>1, <2>3, QuietKeepsFollows DEF KeepsNames
<1>4. ASSUME NEW b \in Attempt, Acknowledge(b) PROVE Follows(h, a)'
  <2>1. parent[b] = h /\ todo[h] = None
    BY <1>4 DEF Acknowledge, Linked, Open, Free, ByItself
  <2>2. /\ UNCHANGED <<record, job, child, meta, parent>> /\ phase' = "consumed"
        /\ todo'[h] = [step |-> "mirror", phase |-> "consumed"]
    BY <1>4, <2>1 DEF Acknowledge, Mirror, Does, runs
  <2>3. QED
    BY <2>1, <2>2, QuietKeepsFollows DEF KeepsNames, TurnsTo, CancelsWith, At
<1>5. ASSUME NEW b \in Attempt, ChildEnds(b) PROVE Follows(h, a)'
  <2>1. UNCHANGED <<phase, record, todo, job, meta, parent>>
    BY <1>5 DEF ChildEnds, store
  <2>2. child'[a] = child[a] \/ (child[a] # "none" /\ child'[a] # "alive")
    BY <1>5 DEF ChildEnds, Alive, Attempt
  <2>3. QED
    BY <2>1, <2>2, QuietKeepsFollows DEF KeepsNames, TurnsTo, CancelsWith
<1>6. QED
  BY <1>0, <1>1, <1>2, <1>3, <1>4, <1>5

\* What a free instance does, and what the user has it do.
LEMMA InstanceKeepsFollows ==
    ASSUME TypeInv, ReleasedAlone, NEW h \in Host, host[h] = "on",
           NEW a \in Resumed, Follows(h, a),
           \/ Delivered(h) \/ Reconcile(h) \/ StopParked(h)
           \/ \E b \in Attempt : Exit(h, b) \/ Recover(h, b) \/ StopRun(h, b)
    PROVE  Follows(h, a)'
<1> USE DEF TypeInv, TypeOK
<1>1. CASE Delivered(h)
  <2>1. UNCHANGED <<phase, record, todo, child, meta, parent>> /\ job'[h].at = "admit"
    BY <1>1 DEF Delivered, Begins, Task, store, runs
  <2>2. QED
    BY <2>1, QuietKeepsFollows DEF KeepsNames, TurnsTo, CancelsWith
<1>2. CASE Reconcile(h)
  <2>1. UNCHANGED <<phase, child, meta, parent>> /\ todo[h] = None
    BY <1>2 DEF Reconcile, Open, Free, store, runs
  <2>2. job'[h] = job[h] \/ job'[h].at = "admit"
    BY <1>2 DEF Reconcile, Reconciles, Begins, Task
  <2>3. \E q \in Phases : record' = record \/ Marks(q)
    BY <1>2 DEF Reconcile, Reconciles, Settles, Staged, Phases, Over
  <2>4. KeepsNames
    BY <2>3, MarkedType DEF Marks, KeepsNames
  <2>5. todo'[h] = todo[h] \/ todo'[h].step \in {"park", "fail", "settle"}
    BY <1>2 DEF Reconcile, Reconciles, Settles, Staged, Does
  <2>6. TurnsTo(h) /\ CancelsWith(h)
    BY <2>1, <2>5 DEF TurnsTo, CancelsWith, At
  <2>7. QED
    BY <2>1, <2>2, <2>4, <2>6, QuietKeepsFollows
<1>3. CASE StopParked(h)
  <2>1. UNCHANGED <<job, child, meta, parent>> /\ todo[h] = None
    BY <1>3 DEF StopParked, Open, Free, runs
  <2>2. CASE phase \in Over
    <3>1. UNCHANGED <<phase, todo>> /\ Marks("held")
      BY <1>3, <2>2 DEF StopParked
    <3>2. KeepsNames
      BY <3>1, MarkedType DEF Marks, KeepsNames, Phases
    <3>3. QED
      BY <2>1, <3>1, <3>2, QuietKeepsFollows DEF TurnsTo, CancelsWith, At
  <2>3. CASE phase \notin Over
    <3>1. record' = record /\ todo'[h] = [step |-> "follow"]
      BY <1>3, <2>3 DEF StopParked, Does
    <3>2. todo'[h] # None
      BY <3>1, TodoMembers, NoneAssumption
    <3>3. TurnsTo(h) /\ CancelsWith(h)
      BY <2>1, <2>3, <3>1, <3>2 DEF TurnsTo, CancelsWith, At
    <3>4. QED
      BY <2>1, <3>1, <3>3, QuietKeepsFollows DEF KeepsNames
  <2>4. QED
    BY <2>2, <2>3
<1>4. ASSUME NEW b \in Attempt, Exit(h, b) PROVE Follows(h, a)'
  <2>1. UNCHANGED <<phase, job, child, parent>> /\ todo[h] = None
    BY <1>4 DEF Exit, Free, store
  <2>2. meta'[a] = meta[a] \/ meta'[a] # "running"
    BY <1>4 DEF Exit
  <2>3. PICK r \in {record, Marked(record, "held")} : \E clean : Settlement(h, b, clean, r)
    BY <1>4 DEF Exit, Finalized
  <2>4. r \in Record \cup {None} /\ (record # None => r # None /\ r.by = record.by)
    <3>1. CASE r = record
      BY <3>1
    <3>2. CASE r = Marked(record, "held")
      BY <3>2, MarkedType DEF Phases
    <3>3. QED
      BY <3>1, <3>2
  <2>5. record' \in {r, Marked(r, "held")} /\ (todo'[h] = todo[h] \/ todo'[h].step \in {"park", "fail", "settle"})
    BY <2>3 DEF Settlement, Does
  <2>6. KeepsNames
    BY <2>4, <2>5, MarkedType DEF KeepsNames, Phases
  <2>7. TurnsTo(h) /\ CancelsWith(h)
    BY <2>1, <2>5 DEF TurnsTo, CancelsWith, At
  <2>8. QED
    BY <2>1, <2>2, <2>6, <2>7, QuietKeepsFollows
<1>5. ASSUME NEW b \in Attempt, Recover(h, b) PROVE Follows(h, a)'
  <2>1. UNCHANGED <<phase, todo, job, child, parent>> /\ todo[h] = None
    BY <1>5 DEF Recover, Free, store
  <2>2. meta'[a] = meta[a] \/ meta'[a] # "running"
    BY <1>5 DEF Recover, Attempt
  <2>3. record' \in {record, Marked(record, "held")}
    BY <1>5 DEF Recover, Finalized
  <2>4. KeepsNames
    BY <2>3, MarkedType DEF KeepsNames, Phases
  <2>5. QED
    BY <2>1, <2>2, <2>4, QuietKeepsFollows DEF TurnsTo, CancelsWith, At
<1>6. ASSUME NEW b \in Attempt, StopRun(h, b) PROVE Follows(h, a)'
  <2>1. UNCHANGED <<phase, record, todo, job, child, parent>> /\ todo[h] = None
    BY <1>6 DEF StopRun, Open, Free, store
  <2>2. meta'[a] = meta[a] \/ meta'[a] # "running"
    BY <1>6 DEF StopRun
  <2>3. QED
    BY <2>1, <2>2, QuietKeepsFollows DEF KeepsNames, TurnsTo, CancelsWith
<1>7. QED
  BY <1>1, <1>2, <1>3, <1>4, <1>5, <1>6

\* A session that stays by itself was by itself, and only it has done something.
LEMMA NextAloneInv ==
    ASSUME TypeInv, ResumeInv, ReleaseInv, FollowInv, [Next]_vars
    PROVE  AloneInv'
<1> SUFFICES ASSUME NEW h \in Host, ByItself(h)'
             PROVE  /\ ReleasedAlone'
                    /\ host'[h] = "on" => \A a \in Resumed : Follows(h, a)'
  BY DEF AloneInv
<1>1. ByItself(h) /\ parent[Original] = h /\ host[h] \notin {"off", "starting"}
  BY BegunStays DEF FollowInv
<1>2. ReleasedAlone /\ (host[h] = "on" => \A a \in Resumed : Follows(h, a))
  BY <1>1 DEF FollowInv, AloneInv
<1>3. ASSUME NEW f \in Host, Moves(f) \/ Suffers(f) PROVE f = h
  <2> SUFFICES ASSUME f # h PROVE FALSE
    OBVIOUS
  <2>1. Start(f)
    BY <1>1, <1>3, OffOnlyStarts DEF FollowInv, ByItself
  <2>2. host'[f] = "starting"
    BY <2>1 DEF Start, TypeInv, TypeOK
  <2>3. QED
    BY <2>2 DEF ByItself
<1>4. ReleasedAlone'
  <2>1. ~\E f \in Host : StopUnserved(f)
    BY <1>1, <1>3 DEF StopUnserved, Suffers
  <2>2. record' \in {record, None} \/ Pending(record') \/ phase' \in Over
    BY <2>1, NextAnnouncesTruly DEF AnnouncesTruly
  <2>3. QED
    BY <1>2, <2>2, OverStays DEF ReleasedAlone, Pending
<1>5. ASSUME host'[h] = "on", NEW a \in Resumed PROVE Follows(h, a)'
  <2>1. CASE \/ OperationEnds \/ WaitAdmission \/ Checkpoint \/ ParkFailed \/ UNCHANGED vars
             \/ \E b \in Attempt : Acknowledge(b) \/ ChildEnds(b)
    <3>1. UNCHANGED host
      BY <2>1 DEF OperationEnds, WaitAdmission, Checkpoint, ParkFailed, Acknowledge, ChildEnds, hosts,
                  vars, moving
    <3>2. QED
      BY <1>1, <1>2, <1>5, <2>1, <3>1, WorkerKeepsFollows
  <2>2. CASE Moves(h) \/ Suffers(h)
    <3>1. host[h] = "on" /\ ~Start(h) /\ ~Opens(h) /\ ~StopUnserved(h) /\ ~Close(h) /\ ~Quit(h) /\ ~Crash(h)
      <4>1. ~Start(h) /\ ~Opens(h) /\ ~StopUnserved(h)
        BY <1>1 DEF Start, Opens, StopUnserved
      <4>2. ~Close(h) /\ ~Quit(h) /\ ~Crash(h)
        BY <1>5 DEF Close, Quit, Crash, Dies, TypeInv, TypeOK
      <4>3. Steps(h) \/ Resumes(h) \/ Delivered(h) \/ Reconcile(h) \/ StopParked(h)
            \/ \E b \in Attempt : Exit(h, b) \/ Recover(h, b) \/ StopRun(h, b)
        BY <2>2, <4>1, <4>2 DEF Moves, Suffers
      <4>4. host'[h] = host[h]
        BY <4>3 DEF Steps, Admitted, Park, FailPark, HoldFailedResume, MirrorPhase, FollowCancel, RecordPublished,
                    Register, Resumes, ParkReturns, Admit, ClaimResume, PublishResume, PublishFails, Launch,
                    LaunchFails, Abandon, Delivered, Reconcile, StopParked, Exit, Recover, StopRun, hosts
      <4>5. QED
        BY <1>5, <4>1, <4>2, <4>4
    <3>2. Follows(h, a)
      BY <1>2, <3>1
    <3>3. CASE Steps(h) \/ Resumes(h)
      BY <1>2, <3>1, <3>2, <3>3, StepKeepsFollows, ResumeKeepsFollows
    <3>4. CASE \/ Delivered(h) \/ Reconcile(h) \/ StopParked(h)
               \/ \E b \in Attempt : Exit(h, b) \/ Recover(h, b) \/ StopRun(h, b)
      BY <1>2, <3>1, <3>2, <3>4, InstanceKeepsFollows
    <3>5. QED
      BY <2>2, <3>1, <3>3, <3>4 DEF Moves, Suffers
  <2>3. QED
    BY <1>3, <2>1, <2>2 DEF Next
<1>6. QED
  BY <1>4, <1>5

\* With the invariant the attempt of a cancelled generation, if it is not yet stopped,
\* is about to be.
LEMMA CancelFollowed == ASSUME TypeInv, FollowInv PROVE CancelIsFollowed
<1> SUFFICES ASSUME NEW a \in Resumed, phase = "cancelled", Alive(a), meta[a] = "running",
                    host[parent[a]] = "on", \A h \in Host \ {parent[a]} : host[h] = "off"
             PROVE  At(parent[a], "follow")
  BY DEF CancelIsFollowed, TypeInv, TypeOK
<1>1. parent[a] \in Host
  <2>1. parent[Original] \in Host /\ host[parent[Original]] # "off"
    BY DEF FollowInv, FirstHost
  <2>2. CASE parent[Original] = parent[a]
    BY <2>1, <2>2
  <2>3. CASE parent[Original] # parent[a]
    BY <2>1, <2>3
  <2>4. QED
    BY <2>2, <2>3
<1>2. Follows(parent[a], a)
  BY <1>1 DEF FollowInv, AloneInv, ByItself
<1>3. QED
  BY <1>2 DEF Follows

\* A generation that is over starts no attempt, and a cancellation is followed to the
\* attempt it finds, as long as no other session has taken part.
THEOREM EndStaysFinal == Spec => EndIsFinal
<1>1. Init => FollowInv
  BY InitFollowInv
<1>2. TypeInv /\ ResumeInv /\ ReleaseInv /\ FollowInv /\ [Next]_vars => FollowInv'
  BY NextFirstHost, NextAloneInv DEF FollowInv
<1>3. TypeInv /\ FollowInv => CancelIsFollowed
  BY CancelFollowed
<1>4. QED
  BY <1>1, <1>2, <1>3, InductiveInvariant, EndStartsNothing, PTL DEF Spec, EndIsFinal
================================================================================
