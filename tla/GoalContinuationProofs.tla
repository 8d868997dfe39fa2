------------------------- MODULE GoalContinuationProofs -------------------------
(* Type correctness of the continuation of a goal, that its wakes are wanted, and that *)
(* its retries end, for any number of goals, outcomes, handlers and retries.           *)
EXTENDS GoalContinuation, SequenceTheorems, TLAPS

-----------------------------------------------------------------------------
(* What the helpers do with the fields of a record *)

\* A record on its way to the next state: its handler may queue one follow-up too many,
\* and await in one task too many, for the bounds.
Loose ==
    [goal : GoalState \cup {None}, cont : Continuation, perm : Permission,
     fg : {"idle", "starting", "running", "ended"},
     current : BOOLEAN, evidence : Evidence \cup {None}, queued : Goal \cup {None},
     timer : Timer \cup {None}, tracker : Goal \cup {None}, latest : Snapshot \cup {None},
     tasks : Seq(Task), followUps : Nat, sends : 0 .. MaxSends, retried : BOOLEAN]

\* A count that is compared is not 0, and of such counts Most says what MaxRetries does.
LEMMA MostType ==
    /\ Most \in Nat \ {0}
    /\ \A n \in Nat \ {0} : n >= MaxRetries <=> n >= Most
  BY GoalAssumption DEF Most

Kinds(p) == {p.tasks[i].kind : i \in DOMAIN p.tasks}

\* A field given a value of its type leaves a record on its way.
LEMMA WithGoal ==
    ASSUME NEW r \in Loose, NEW x \in GoalState \cup {None}
    PROVE  [r EXCEPT !.goal = x] \in Loose
  BY DEF Loose

LEMMA WithPerm ==
    ASSUME NEW r \in Loose, NEW x \in Permission
    PROVE  [r EXCEPT !.perm = x] \in Loose
  BY DEF Loose

LEMMA WithPhase ==
    ASSUME NEW r \in Loose, NEW x \in {"idle", "starting", "running", "ended"}
    PROVE  [r EXCEPT !.fg = x] \in Loose
  BY DEF Loose

LEMMA WithEvidence ==
    ASSUME NEW r \in Loose, NEW x \in Evidence \cup {None}
    PROVE  [r EXCEPT !.evidence = x] \in Loose
  BY DEF Loose

LEMMA WithQueued ==
    ASSUME NEW r \in Loose, NEW x \in Goal \cup {None}
    PROVE  [r EXCEPT !.queued = x] \in Loose
  BY DEF Loose

LEMMA WithTracker ==
    ASSUME NEW r \in Loose, NEW x \in Goal \cup {None}
    PROVE  [r EXCEPT !.tracker = x] \in Loose
  BY DEF Loose

LEMMA WithLatest ==
    ASSUME NEW r \in Loose, NEW x \in Snapshot \cup {None}
    PROVE  [r EXCEPT !.latest = x] \in Loose
  BY DEF Loose

LEMMA WithFollowUps ==
    ASSUME NEW r \in Loose, NEW x \in Nat
    PROVE  [r EXCEPT !.followUps = x] \in Loose
  BY DEF Loose

LEMMA RemoveAtKinds ==
    ASSUME NEW q \in Seq(Task), NEW i \in DOMAIN q
    PROVE  /\ RemoveAt(q, i) \in Seq(Task)
           /\ \A j \in DOMAIN RemoveAt(q, i) : \E k \in DOMAIN q : RemoveAt(q, i)[j] = q[k]
<1> DEFINE a == SubSeq(q, 1, i - 1)
           b == SubSeq(q, i + 1, Len(q))
<1>1. i \in 1 .. Len(q) /\ Len(q) \in Nat
  OBVIOUS
<1>2. /\ a \in Seq(Task) /\ Len(a) = i - 1
      /\ \A j \in 1 .. Len(a) : a[j] = q[j]
  <2>1. \A j \in 1 .. i - 1 : q[j] \in Task
    BY <1>1
  <2>2. /\ a \in Seq(Task)
        /\ Len(a) = IF 1 <= i - 1 THEN (i - 1) - 1 + 1 ELSE 0
        /\ \A j \in 1 .. (i - 1) - 1 + 1 : a[j] = q[1 + j - 1]
    BY <1>1, <2>1, SubSeqProperties
  <2>3. QED
    BY <1>1, <2>2
<1>3. /\ b \in Seq(Task) /\ Len(b) = Len(q) - i
      /\ \A j \in 1 .. Len(b) : b[j] = q[i + j]
  <2>1. \A j \in i + 1 .. Len(q) : q[j] \in Task
    BY <1>1
  <2>2. /\ b \in Seq(Task)
        /\ Len(b) = IF i + 1 <= Len(q) THEN Len(q) - (i + 1) + 1 ELSE 0
        /\ \A j \in 1 .. Len(q) - (i + 1) + 1 : b[j] = q[i + 1 + j - 1]
    BY <1>1, <2>1, SubSeqProperties
  <2> HIDE DEF b
  <2>3. Len(b) = Len(q) - i
    BY <1>1, <2>2
  <2>4. ASSUME NEW j \in 1 .. Len(b) PROVE b[j] = q[i + j]
    <3>1. i + 1 + j - 1 = i + j /\ j \in 1 .. Len(q) - (i + 1) + 1
      BY <1>1, <2>3
    <3>2. QED
      BY <2>2, <3>1
  <2>5. QED
    BY <2>2, <2>3, <2>4
<1> HIDE DEF a, b
<1>4. /\ a \o b \in Seq(Task) /\ Len(a \o b) = Len(a) + Len(b)
      /\ \A j \in 1 .. Len(a) + Len(b) :
            (a \o b)[j] = IF j <= Len(a) THEN a[j] ELSE b[j - Len(a)]
  BY <1>2, <1>3, ConcatProperties
<1>5. ASSUME NEW j \in DOMAIN (a \o b) PROVE \E k \in DOMAIN q : (a \o b)[j] = q[k]
  <2>1. j \in 1 .. Len(a) + Len(b)
    BY <1>4
  <2>2. CASE j <= Len(a)
    <3>1. j \in 1 .. Len(a) /\ j \in DOMAIN q
      BY <1>1, <1>2, <1>3, <2>1, <2>2
    <3>2. (a \o b)[j] = q[j]
      BY <1>2, <1>4, <2>1, <2>2, <3>1
    <3>3. QED
      BY <3>1, <3>2
  <2>3. CASE ~(j <= Len(a))
    <3>1. j - Len(a) \in 1 .. Len(b) /\ i + (j - Len(a)) \in 1 .. Len(q)
      <4>1. j \in Int /\ j > i - 1 /\ j <= i - 1 + (Len(q) - i)
        BY <1>1, <1>2, <1>3, <2>1, <2>3
      <4>2. ASSUME NEW n \in Nat, i \in 1 .. n, j \in Int, j > i - 1, j <= i - 1 + (n - i)
            PROVE  j - (i - 1) \in 1 .. n - i /\ i + (j - (i - 1)) \in 1 .. n
        BY <4>2
      <4>3. j - (i - 1) \in 1 .. Len(q) - i /\ i + (j - (i - 1)) \in 1 .. Len(q)
        BY <1>1, <4>1, <4>2
      <4>4. QED
        BY <1>2, <1>3, <4>3
    <3>2. (a \o b)[j] = q[i + (j - Len(a))]
      BY <1>3, <1>4, <2>1, <2>3, <3>1
    <3>3. QED
      BY <1>1, <3>1, <3>2
  <2>4. QED
    BY <2>2, <2>3
<1>6. RemoveAt(q, i) = a \o b
  BY DEF RemoveAt, a, b
<1>7. QED
  BY <1>4, <1>5, <1>6

\* A change of the tasks one by one.
LEMMA EachTask ==
    ASSUME NEW q \in Seq(Task), NEW r, r = [i \in DOMAIN q |-> r[i]],
           \A i \in DOMAIN q : r[i] \in Task /\ r[i].kind = q[i].kind
    PROVE  /\ r \in Seq(Task) /\ DOMAIN r = DOMAIN q /\ Len(r) = Len(q)
<1>1. DOMAIN q = 1 .. Len(q) /\ Len(q) \in Nat
  OBVIOUS
<1>2. r \in [1 .. Len(q) -> Task]
  BY <1>1
<1>3. QED
  BY <1>1, <1>2, SeqDef

\* Two records that agree on the session, and on the outcome of its turns.
SameSession(p, q) ==
    /\ q.goal = p.goal /\ q.perm = p.perm /\ q.fg = p.fg /\ q.current = p.current
    /\ q.queued = p.queued
SameOutcome(p, q) == q.cont = p.cont /\ q.evidence = p.evidence /\ q.sends = p.sends

LEMMA ClearIdleFields ==
    ASSUME NEW p \in Loose
    PROVE  LET q == ClearIdle(p) IN
           /\ q \in Loose /\ SameSession(p, q) /\ SameOutcome(p, q)
           /\ q.timer = None /\ Kinds(q) = Kinds(p) /\ DOMAIN q.tasks = DOMAIN p.tasks
<1> DEFINE r == [i \in DOMAIN p.tasks |-> [p.tasks[i] EXCEPT !.wake = FALSE]]
<1>1. p.tasks \in Seq(Task) /\ r = [i \in DOMAIN p.tasks |-> r[i]]
  BY DEF Loose
<1>2. \A i \in DOMAIN p.tasks : p.tasks[i] \in Task
  BY <1>1
<1>3. \A i \in DOMAIN p.tasks : r[i] \in Task /\ r[i].kind = p.tasks[i].kind
  BY <1>2 DEF Task
<1>4. r \in Seq(Task) /\ DOMAIN r = DOMAIN p.tasks
  BY <1>1, <1>3, EachTask
<1>5. ClearIdle(p) = [p EXCEPT !.timer = None, !.tasks = r]
  BY DEF ClearIdle
<1> HIDE DEF r
<1>6. ClearIdle(p) \in Loose
  BY <1>4, <1>5 DEF Loose
<1>7. ClearIdle(p).tasks = r
  BY <1>5 DEF Loose
<1>8. Kinds(ClearIdle(p)) = Kinds(p)
  BY <1>3, <1>4, <1>7 DEF Kinds
<1>9. QED
  BY <1>4, <1>5, <1>6, <1>7, <1>8 DEF Loose, SameSession, SameOutcome

LEMMA AwaitsFields ==
    ASSUME NEW p \in Loose,
           NEW kind \in {"poll", "look", "settled", "scheduler", "audit", "enable", "restored"}
    PROVE  LET q == Awaits(p, kind) IN
           /\ q \in Loose /\ SameSession(p, q) /\ SameOutcome(p, q)
           /\ q.timer = p.timer /\ Kinds(q) = Kinds(p) \cup {kind}
<1> DEFINE t == [kind |-> kind, fg |-> p.fg \in {"running", "ended"}, bg |-> None,
                 wake |-> TRUE, late |-> FALSE]
           r == Append(p.tasks, t)
<1>1. p.tasks \in Seq(Task) /\ t \in Task /\ t.kind = kind
  BY DEF Loose, Task
<1> HIDE DEF t
<1>2. /\ r \in Seq(Task) /\ Len(r) = Len(p.tasks) + 1 /\ r[Len(p.tasks) + 1] = t
      /\ \A i \in 1 .. Len(p.tasks) : r[i] = p.tasks[i]
  BY <1>1, AppendProperties
<1>3. DOMAIN p.tasks = 1 .. Len(p.tasks) /\ Len(p.tasks) \in Nat /\ DOMAIN r = 1 .. Len(r)
  BY <1>1, <1>2
<1>4. Awaits(p, kind) = [p EXCEPT !.tasks = r]
  BY DEF Awaits, t
<1> HIDE DEF r
<1>5. Awaits(p, kind) \in Loose /\ Awaits(p, kind).tasks = r
  BY <1>2, <1>4 DEF Loose
<1>6. DOMAIN r = DOMAIN p.tasks \cup {Len(p.tasks) + 1}
  BY <1>2, <1>3
<1>7. {r[i].kind : i \in DOMAIN r} = Kinds(p) \cup {kind}
  BY <1>1, <1>2, <1>3, <1>6 DEF Kinds
<1>8. Kinds(Awaits(p, kind)) = Kinds(p) \cup {kind}
  BY <1>5, <1>7 DEF Kinds
<1>9. QED
  BY <1>4, <1>5, <1>8 DEF Loose, SameSession, SameOutcome

LEMMA ProgressFields ==
    ASSUME NEW p \in Loose
    PROVE  LET q == Progress(p) IN
           /\ q \in Loose /\ SameSession(p, q) /\ q.evidence = p.evidence
           /\ q.cont = Fresh /\ q.sends = 0
           /\ q.timer = p.timer /\ Kinds(q) = Kinds(p) /\ q.tasks = p.tasks
<1>1. Fresh \in Continuation /\ 0 \in 0 .. MaxSends
  BY MostType, GoalAssumption DEF Fresh, Continuation
<1>2. QED
  BY <1>1 DEF Progress, Loose, Kinds, SameSession

LEMMA NewExecutionFields ==
    ASSUME NEW p \in Loose
    PROVE  LET q == NewExecution(p) IN
           /\ q \in Loose
           /\ q.goal = p.goal /\ q.perm = p.perm /\ q.fg = p.fg /\ q.queued = p.queued
           /\ q.cont = p.cont /\ q.sends = p.sends /\ q.timer = p.timer
           /\ q.current = FALSE /\ q.evidence = None /\ Kinds(q) = {}
<1>1. <<>> \in Seq(Task) /\ DOMAIN <<>> = {}
  OBVIOUS
<1>2. NewExecution(p).tasks = <<>>
  BY DEF NewExecution, Loose
<1>3. Kinds(NewExecution(p)) = {}
  BY <1>1, <1>2 DEF Kinds
<1>4. QED
  BY <1>1, <1>3 DEF NewExecution, Loose

LEMMA SetGoalFields ==
    ASSUME NEW p \in Loose, NEW g \in GoalState \cup {None}
    PROVE  LET q == SetGoal(p, g) IN
           /\ q \in Loose
           /\ q.goal = None <=> g = None
           /\ g # None => q.goal.id = g.id /\ q.goal.status = g.status
           /\ q.perm.blocker = p.perm.blocker /\ q.fg = p.fg
           /\ q.queued = None /\ q.cont = p.cont /\ q.sends = p.sends /\ q.timer = None
           /\ q.current = FALSE /\ q.evidence = None /\ Kinds(q) = {}
<1> DEFINE held == g # None /\ g.status = "paused" /\ p.perm.blocker
           h == IF held THEN [g EXCEPT !.reason = "permission"] ELSE g
           perm == [p.perm EXCEPT !.retry = @ /\ ~held]
           n == NewExecution(p)
           m == [n EXCEPT !.goal = h, !.perm = perm, !.queued = None, !.tracker = None]
<1>1. /\ h \in GoalState \cup {None} /\ (h = None <=> g = None)
      /\ g # None => h.id = g.id /\ h.status = g.status
  BY NoneAssumption DEF GoalState, Reason
<1>2. /\ perm \in Permission /\ perm.blocker = p.perm.blocker
  BY DEF Loose, Permission
<1>3. /\ n \in Loose /\ n.perm = p.perm /\ n.fg = p.fg /\ n.cont = p.cont /\ n.sends = p.sends
      /\ n.current = FALSE /\ n.evidence = None /\ Kinds(n) = {}
  BY NewExecutionFields
<1>4. SetGoal(p, g) = ClearIdle(m)
  BY <1>3 DEF SetGoal
<1> DEFINE m0 == [n EXCEPT !.goal = h]
           m1 == [m0 EXCEPT !.perm = perm]
<1> HIDE DEF h, perm, n
<1>a0. m0 \in Loose /\ m0.goal = h
  BY <1>1, <1>3, WithGoal
<1>b0. /\ m0.tasks = n.tasks /\ m0.fg = n.fg /\ m0.cont = n.cont /\ m0.sends = n.sends
       /\ m0.current = n.current /\ m0.evidence = n.evidence
  BY <1>3 DEF Loose
<1> HIDE DEF m0
<1>x. m1 \in Loose
  BY <1>2, <1>a0, WithPerm
<1>a. m1.goal = h /\ m1.perm = perm
  BY <1>2, <1>a0 DEF Loose
<1>b. /\ m1.tasks = n.tasks /\ m1.fg = n.fg /\ m1.cont = n.cont /\ m1.sends = n.sends
      /\ m1.current = n.current /\ m1.evidence = n.evidence
  BY <1>a0, <1>b0 DEF Loose
<1>c. m = [m1 EXCEPT !.queued = None, !.tracker = None]
  BY <1>3 DEF Loose, m0
<1> HIDE DEF m, m1
<1>5. /\ m \in Loose /\ m.goal = h /\ m.perm = perm /\ m.queued = None /\ m.tasks = n.tasks
      /\ m.fg = n.fg /\ m.cont = n.cont /\ m.sends = n.sends
      /\ m.current = n.current /\ m.evidence = n.evidence
  BY <1>a, <1>b, <1>c, <1>x DEF Loose
<1>6. Kinds(m) = Kinds(n)
  BY <1>5 DEF Kinds
<1>7. QED
  BY <1>1, <1>2, <1>3, <1>4, <1>5, <1>6, ClearIdleFields DEF SameSession, SameOutcome

LEMMA SendFields ==
    ASSUME NEW p \in Loose, p.goal # None
    PROVE  LET q == Send(p) IN
           /\ q \in Loose /\ SameOutcome(p, q)
           /\ q.goal = p.goal /\ q.perm = p.perm /\ q.current = p.current
           /\ q.queued = p.goal.id
           /\ q.fg = IF p.fg = "idle" THEN "starting" ELSE p.fg
           /\ q.timer = p.timer /\ Kinds(q) = Kinds(p)
<1>1. p.goal.id \in Goal
  BY DEF Loose, GoalState
<1>2. CASE p.fg = "idle"
  <2>1. Send(p) = [p EXCEPT !.fg = "starting", !.queued = p.goal.id]
    BY <1>2 DEF Send, Idle
  <2>2. Send(p).tasks = p.tasks
    BY <2>1 DEF Loose
  <2>3. Kinds(Send(p)) = Kinds(p)
    BY <2>2 DEF Kinds
  <2>4. Send(p) \in Loose
    BY <1>1, <2>1 DEF Loose
  <2>5. QED
    BY <1>2, <2>1, <2>3, <2>4 DEF Loose, SameOutcome
<1>3. CASE p.fg # "idle"
  <2>1. Send(p) = [p EXCEPT !.followUps = p.followUps + 1, !.queued = p.goal.id]
    BY <1>3 DEF Send, Idle
  <2>2. Send(p).tasks = p.tasks
    BY <2>1 DEF Loose
  <2>3. Kinds(Send(p)) = Kinds(p)
    BY <2>2 DEF Kinds
  <2>4. Send(p) \in Loose
    <3>1. p.followUps + 1 \in Nat
      BY DEF Loose
    <3>2. QED
      BY <1>1, <2>1, <3>1 DEF Loose
  <2>5. QED
    BY <1>3, <2>1, <2>3, <2>4 DEF Loose, SameOutcome
<1>4. QED
  BY <1>2, <1>3

LEMMA InvokeFields ==
    ASSUME NEW p \in Loose
    PROVE  LET q == Invoke(p) IN
           /\ q \in Loose /\ SameOutcome(p, q)
           /\ q.goal = p.goal /\ q.queued = p.queued
           /\ q.timer = p.timer /\ Kinds(q) = Kinds(p)
<1>1. p.followUps + 1 \in Nat
  BY DEF Loose
<1>2. /\ Invoke(p) \in Loose /\ Invoke(p).tasks = p.tasks /\ SameOutcome(p, Invoke(p))
      /\ Invoke(p).goal = p.goal /\ Invoke(p).queued = p.queued /\ Invoke(p).timer = p.timer
  <2>1. CASE p.fg = "idle"
    <3>1. Invoke(p) = [p EXCEPT !.fg = "starting"]
      BY <2>1 DEF Invoke, Idle
    <3>2. QED
      BY <3>1 DEF Loose, SameOutcome
  <2>2. CASE p.fg # "idle"
    <3>1. Invoke(p) = [p EXCEPT !.followUps = p.followUps + 1]
      BY <2>2 DEF Invoke, Idle
    <3>2. QED
      BY <1>1, <3>1 DEF Loose, SameOutcome
  <2>3. QED
    BY <2>1, <2>2
<1>3. QED
  BY <1>2 DEF Kinds

LEMMA QueueFields ==
    ASSUME NEW p \in Loose, p.goal # None
    PROVE  LET q == Queue(p) IN
           /\ q \in Loose
           /\ q.goal = p.goal /\ q.perm = p.perm /\ q.current = p.current /\ q.evidence = p.evidence
           /\ q.queued = p.goal.id
           /\ q.fg = IF p.fg = "idle" THEN "starting" ELSE p.fg
           /\ q.timer = None /\ Kinds(q) = Kinds(p)
           /\ IF p.perm.blocker THEN q.cont = p.cont /\ q.sends = p.sends
                                ELSE q.cont = Fresh /\ q.sends = 0
<1> DEFINE c == ClearIdle(p)
<1>1. /\ c \in Loose /\ SameSession(p, c) /\ SameOutcome(p, c)
      /\ c.timer = None /\ Kinds(c) = Kinds(p)
  BY ClearIdleFields
<1> HIDE DEF c
<1>2. CASE p.perm.blocker
  <2>1. Queue(p) = Send(c)
    BY <1>2 DEF Queue, c
  <2>2. QED
    BY <1>1, <1>2, <2>1, SendFields DEF SameSession, SameOutcome
<1>3. CASE ~p.perm.blocker
  <2>1. Queue(p) = Send(Progress(c))
    BY <1>3 DEF Queue, c
  <2> DEFINE d == Progress(c)
  <2>2. /\ d \in Loose /\ SameSession(c, d) /\ d.evidence = c.evidence
        /\ d.cont = Fresh /\ d.sends = 0 /\ d.timer = c.timer /\ Kinds(d) = Kinds(c)
    BY <1>1, ProgressFields
  <2> HIDE DEF d
  <2>3. Queue(p) = Send(d)
    BY <2>1 DEF d
  <2>4. QED
    BY <1>1, <1>3, <2>2, <2>3, SendFields DEF SameSession, SameOutcome
<1>4. QED
  BY <1>2, <1>3

LEMMA ScheduleFields ==
    ASSUME NEW p \in Loose, NEW kind \in {"continuation", "drained", "wait"}
    PROVE  LET q == Schedule(p, kind) IN
           /\ q \in Loose /\ SameSession(p, q) /\ SameOutcome(p, q)
           /\ Kinds(q) = Kinds(p) /\ DOMAIN q.tasks = DOMAIN p.tasks
           /\ \/ q.timer = p.timer
              \/ /\ auto /\ Active(p) /\ ~Held(p) /\ p.queued # p.goal.id
                 /\ q.timer.goal = p.goal.id
<1>1. CASE Schedule(p, kind) = p
  BY <1>1 DEF SameSession, SameOutcome
<1>2. CASE Schedule(p, kind) # p
  <2> DEFINE c == ClearIdle(p)
             t == [goal |-> p.goal.id, kind |-> kind]
  <2>1. /\ auto /\ Active(p) /\ p.queued # p.goal.id /\ ~Held(p)
        /\ Schedule(p, kind) = [c EXCEPT !.timer = t]
    BY <1>2 DEF Schedule
  <2>2. t \in Timer /\ t.goal = p.goal.id
    BY <2>1 DEF Timer, Loose, GoalState, Active
  <2>3. /\ c \in Loose /\ SameSession(p, c) /\ SameOutcome(p, c)
        /\ Kinds(c) = Kinds(p) /\ DOMAIN c.tasks = DOMAIN p.tasks
    BY ClearIdleFields
  <2> HIDE DEF c, t
  <2> DEFINE q == [c EXCEPT !.timer = t]
  <2>4. q \in Loose /\ q.timer = t /\ q.tasks = c.tasks /\ SameSession(c, q) /\ SameOutcome(c, q)
    BY <2>2, <2>3 DEF Loose, SameSession, SameOutcome
  <2>5. Kinds(q) = Kinds(c)
    BY <2>4 DEF Kinds
  <2> HIDE DEF q
  <2>6. Schedule(p, kind) = q
    BY <2>1 DEF q
  <2>7. QED
    BY <2>1, <2>2, <2>3, <2>4, <2>5, <2>6 DEF SameSession, SameOutcome
<1>3. QED
  BY <1>1, <1>2

\* A record of which the evidence is forgotten, as after a drain or a wait
LEMMA ForgottenFields ==
    ASSUME NEW p \in Loose
    PROVE  LET q == [p EXCEPT !.evidence = None] IN
           /\ q \in Loose /\ SameSession(p, q) /\ q.cont = p.cont /\ q.sends = p.sends
           /\ q.evidence = None /\ q.timer = p.timer
           /\ Kinds(q) = Kinds(p) /\ q.tasks = p.tasks
<1> DEFINE q == [p EXCEPT !.evidence = None]
<1>1. q.tasks = p.tasks
  BY DEF Loose
<1>2. Kinds(q) = Kinds(p)
  BY <1>1 DEF Kinds
<1>3. QED
  BY <1>1, <1>2 DEF Loose, SameSession

\* The tasks are marked one by one, or one of them is over.
LEMMA TasksFields ==
    ASSUME NEW p \in Loose, NEW tasks \in Seq(Task)
    PROVE  LET q == [p EXCEPT !.tasks = tasks] IN
           /\ q \in Loose /\ SameSession(p, q) /\ SameOutcome(p, q)
           /\ q.timer = p.timer /\ q.tasks = tasks
  BY DEF Loose, SameSession, SameOutcome

LEMMA RemovedFields ==
    ASSUME NEW p \in Loose, NEW i \in DOMAIN p.tasks
    PROVE  LET q == [p EXCEPT !.tasks = RemoveAt(@, i)] IN
           /\ q \in Loose /\ SameSession(p, q) /\ SameOutcome(p, q)
           /\ q.timer = p.timer /\ Kinds(q) \subseteq Kinds(p)
<1> DEFINE r == RemoveAt(p.tasks, i)
           q == [p EXCEPT !.tasks = r]
<1>1. p.tasks \in Seq(Task)
  BY DEF Loose
<1>2. r \in Seq(Task) /\ \A j \in DOMAIN r : \E k \in DOMAIN p.tasks : r[j] = p.tasks[k]
  BY <1>1, RemoveAtKinds
<1> HIDE DEF r
<1>3. /\ q \in Loose /\ SameSession(p, q) /\ SameOutcome(p, q)
      /\ q.timer = p.timer /\ q.tasks = r
  BY <1>2, TasksFields
<1> HIDE DEF q
<1>4. Kinds(q) \subseteq Kinds(p)
  BY <1>2, <1>3 DEF Kinds
<1>5. QED
  BY <1>3, <1>4 DEF q, r

\* A handler's snapshot is marked as outdated by a younger one.
LEMMA LateFields ==
    ASSUME NEW p \in Loose, NEW i \in DOMAIN p.tasks
    PROVE  LET q == [p EXCEPT !.tasks = [j \in DOMAIN @ |->
                   [@[j] EXCEPT !.late = p.tasks[j].late \/ (~p.tasks[i].late /\ j < i)]]] IN
           /\ q \in Loose /\ SameSession(p, q) /\ SameOutcome(p, q)
           /\ q.timer = p.timer /\ Kinds(q) = Kinds(p) /\ DOMAIN q.tasks = DOMAIN p.tasks
<1> DEFINE r == [j \in DOMAIN p.tasks |->
                [p.tasks[j] EXCEPT !.late = p.tasks[j].late \/ (~p.tasks[i].late /\ j < i)]]
           q == [p EXCEPT !.tasks = r]
<1>1. p.tasks \in Seq(Task) /\ r = [j \in DOMAIN p.tasks |-> r[j]]
  BY DEF Loose
<1>2. \A j \in DOMAIN p.tasks : p.tasks[j] \in Task
  BY <1>1
<1>3. ASSUME NEW j \in DOMAIN p.tasks PROVE r[j] \in Task /\ r[j].kind = p.tasks[j].kind
  BY <1>2 DEF Task
<1> HIDE DEF r
<1>4. r \in Seq(Task) /\ DOMAIN r = DOMAIN p.tasks
  BY <1>1, <1>3, EachTask
<1>5. /\ q \in Loose /\ SameSession(p, q) /\ SameOutcome(p, q)
      /\ q.timer = p.timer /\ q.tasks = r
  BY <1>4, TasksFields
<1> HIDE DEF q
<1>6. Kinds(q) = Kinds(p)
  BY <1>3, <1>4, <1>5 DEF Kinds
<1>7. q = [p EXCEPT !.tasks = [j \in DOMAIN @ |->
                [@[j] EXCEPT !.late = p.tasks[j].late \/ (~p.tasks[i].late /\ j < i)]]]
  BY DEF q, r
<1>8. DOMAIN q.tasks = DOMAIN p.tasks
  BY <1>4, <1>5
<1>9. QED
  BY <1>5, <1>6, <1>7, <1>8

\* Background work that has drained is progress; nothing else changes but the timer.
Progressed(p, q) ==
    /\ Active(p) /\ ~Held(p)
    /\ q.cont = Fresh /\ q.sends = 0 /\ q.evidence = None
    /\ q.timer # None => auto /\ q.timer.goal = p.goal.id

LEMMA DrainedFields ==
    ASSUME NEW p \in Loose, NEW snapshot
    PROVE  LET q == Drained(p, snapshot) IN
           /\ q \in Loose /\ SameSession(p, q)
           /\ Kinds(q) = Kinds(p) /\ DOMAIN q.tasks = DOMAIN p.tasks
           /\ (SameOutcome(p, q) /\ q.timer = p.timer) \/ Progressed(p, q)
<1>1. CASE Drained(p, snapshot) = p
  BY <1>1 DEF SameSession, SameOutcome
<1>2. CASE Drained(p, snapshot) # p
  <2> DEFINE c == ClearIdle(p)
             d == Progress(c)
             e == [d EXCEPT !.evidence = None]
             f == Schedule(e, "drained")
  <2>1. Active(p) /\ ~Held(p) /\ Drained(p, snapshot) = f
    BY <1>2 DEF Drained
  <2>2. /\ c \in Loose /\ SameSession(p, c) /\ c.timer = None
        /\ Kinds(c) = Kinds(p) /\ DOMAIN c.tasks = DOMAIN p.tasks
    BY ClearIdleFields
  <2> HIDE DEF c
  <2>3. /\ d \in Loose /\ SameSession(c, d) /\ d.cont = Fresh /\ d.sends = 0
        /\ d.timer = c.timer /\ Kinds(d) = Kinds(c) /\ d.tasks = c.tasks
    BY <2>2, ProgressFields
  <2> HIDE DEF d
  <2>4. /\ e \in Loose /\ SameSession(d, e) /\ e.cont = d.cont /\ e.sends = d.sends
        /\ e.evidence = None /\ e.timer = d.timer /\ Kinds(e) = Kinds(d) /\ e.tasks = d.tasks
    BY <2>3, ForgottenFields
  <2> HIDE DEF e
  <2>5. /\ f \in Loose /\ SameSession(e, f) /\ SameOutcome(e, f)
        /\ Kinds(f) = Kinds(e) /\ DOMAIN f.tasks = DOMAIN e.tasks
        /\ f.timer = e.timer \/ (auto /\ f.timer.goal = e.goal.id)
    BY <2>4, ScheduleFields
  <2> HIDE DEF f
  <2>6. QED
    BY <2>1, <2>2, <2>3, <2>4, <2>5 DEF SameSession, SameOutcome, Progressed
<1>3. QED
  BY <1>1, <1>2

LEMMA PublishedFields ==
    ASSUME NEW p \in Loose, NEW t \in Task, t.bg \in BOOLEAN
    PROVE  LET q == Published(p, t) IN
           /\ q \in Loose /\ SameSession(p, q)
           /\ Kinds(q) = Kinds(p) /\ DOMAIN q.tasks = DOMAIN p.tasks
           /\ \/ SameOutcome(p, q) /\ q.timer \in {p.timer, None}
              \/ Progressed(p, q)
<1> DEFINE snapshot == [fg |-> t.fg, bg |-> t.bg]
           d == Drained(p, snapshot)
           tracker == IF Active(p) /\ t.bg THEN p.goal.id ELSE None
           e == [d EXCEPT !.latest = snapshot, !.tracker = tracker]
<1>1. snapshot \in Snapshot
  BY DEF Snapshot, Task
<1>2. tracker \in Goal \cup {None}
  BY DEF Loose, Active, GoalState
<1>3. Published(p, t) \in {p, e, ClearIdle(e)}
  BY DEF Published
<1>4. /\ d \in Loose /\ SameSession(p, d)
      /\ Kinds(d) = Kinds(p) /\ DOMAIN d.tasks = DOMAIN p.tasks
      /\ (SameOutcome(p, d) /\ d.timer = p.timer) \/ Progressed(p, d)
  BY DrainedFields
<1> HIDE DEF snapshot, tracker, d
<1>5. /\ e \in Loose /\ SameSession(d, e) /\ SameOutcome(d, e)
      /\ e.timer = d.timer /\ e.tasks = d.tasks
  <2> DEFINE d0 == [d EXCEPT !.latest = snapshot]
  <2>1. d0 \in Loose
    BY <1>1, <1>4, WithLatest
  <2>2. e = [d0 EXCEPT !.tracker = tracker]
    OBVIOUS
  <2>3. e \in Loose
    <3> HIDE DEF d0, e
    <3>1. QED
      BY <1>2, <2>1, <2>2, WithTracker
  <2>4. SameSession(d, e) /\ SameOutcome(d, e) /\ e.timer = d.timer /\ e.tasks = d.tasks
    BY <1>4 DEF Loose, SameSession, SameOutcome
  <2>5. QED
    BY <2>3, <2>4
<1> HIDE DEF e
<1>6. Kinds(e) = Kinds(d)
  BY <1>5 DEF Kinds
<1>7. /\ SameSession(p, e) /\ Kinds(e) = Kinds(p) /\ DOMAIN e.tasks = DOMAIN p.tasks
      /\ (SameOutcome(p, e) /\ e.timer = p.timer) \/ Progressed(p, e)
  BY <1>4, <1>5, <1>6 DEF SameSession, SameOutcome, Progressed
<1> DEFINE c == ClearIdle(e)
<1>8. /\ c \in Loose /\ SameSession(e, c) /\ SameOutcome(e, c) /\ c.timer = None
      /\ Kinds(c) = Kinds(e) /\ DOMAIN c.tasks = DOMAIN e.tasks
  BY <1>5, ClearIdleFields
<1> HIDE DEF c
<1>9. CASE Published(p, t) = p
  BY <1>9 DEF SameSession, SameOutcome
<1>10. CASE Published(p, t) = e
  BY <1>5, <1>7, <1>10
<1>11. CASE Published(p, t) = c
  BY <1>7, <1>8, <1>11 DEF SameSession, SameOutcome, Progressed
<1>12. QED
  BY <1>3, <1>9, <1>10, <1>11 DEF c
-----------------------------------------------------------------------------
(* The inductive invariant: what holds of the shared record p, with tasks of the kinds *)
(* K that await, when the preference is a and scenarios may wait for a scheduler (w)   *)

Settling(K) == "settled" \in K \/ "scheduler" \in K

\* A pending timer is current, and a continuation was queued for the goal there is.
Timely(p, a) ==
    /\ p.timer # None => a /\ Active(p) /\ ~p.perm.blocker /\ p.timer.goal = p.goal.id
    /\ p.queued # None => p.goal # None /\ p.queued = p.goal.id

\* Between turns only is a turn judged, or the goal audited.
Between(p, K, w) ==
    /\ p.fg \in {"running", "ended"} => ~Settling(K) /\ "audit" \notin K
    /\ "scheduler" \in K => w

\* A goal that waits for a restored or enabled session has not been continued yet.
Rested(p, K) == "enable" \in K \/ "restored" \in K => p.sends = 0 \/ p.fg = "starting"

\* A turn that showed something else than the last one is progress, when it is judged.
Judged(p, K) ==
    /\ p.fg = "ended" \/ Settling(K)
    /\ p.evidence \notin {None, p.cont.sig}
    => p.sends = 0 \/ (p.fg = "starting" /\ p.sends <= 1)

\* The last continuation is not counted yet: its turn is to begin, runs, has ended or is
\* to be judged, and it shows the same as the one before.
Pending(p, K) ==
    LET same == p.evidence # None /\ p.evidence = p.cont.sig IN
    \/ p.fg = "starting"
    \/ p.fg = "running" /\ p.current /\ p.timer = None
    \/ p.fg = "ended" /\ same /\ p.timer = None
    \/ /\ p.fg = "idle" /\ p.timer = None
       /\ "audit" \notin K /\ "enable" \notin K /\ "restored" \notin K
       /\ Settling(K) => same

\* Continuations are counted, but for the last one, and their number is bounded.
Counts(p) ==
    /\ p.sends <= Most
    /\ ~p.cont.blocked => p.cont.retries < Most
Counted(p, K) ==
    Active(p) /\ ~Held(p) =>
        p.sends <= p.cont.retries \/ (p.sends = p.cont.retries + 1 /\ Pending(p, K))

Good(p, K, a, w) ==
    /\ p \in Loose /\ Kinds(p) \subseteq K
    /\ Timely(p, a) /\ Between(p, K, w) /\ Rested(p, K) /\ Judged(p, K)
    /\ Counts(p) /\ Counted(p, K)

Inv == TypeOK /\ scenario \in Scenario /\ Good(s, Kinds(s), auto, scenario.waits)

LEMMA Numbers ==
    ASSUME NEW p \in Loose
    PROVE  /\ p.sends \in Nat /\ p.cont.retries \in Nat /\ p.cont.retries <= Most
           /\ p.cont.blocked \in BOOLEAN /\ p.perm.blocker \in BOOLEAN
<1>1. p.sends \in 0 .. MaxSends /\ p.cont \in Continuation /\ p.perm \in Permission
  BY DEF Loose
<1>2. QED
  BY <1>1, MostType, GoalAssumption DEF Continuation, Permission

\* A record that differs in its timer at most, and has fewer tasks, is as good.
LEMMA Lasts ==
    ASSUME NEW p \in Loose, NEW q \in Loose, NEW K, NEW L, NEW a, NEW w,
           Good(p, K, a, w), SameSession(p, q), SameOutcome(p, q),
           q.timer = p.timer \/ q.timer = None,
           Kinds(q) \subseteq L, L \subseteq K \cup {"poll", "look"}
    PROVE  Good(q, L, a, w)
<1>1. Settling(L) => Settling(K)
  BY DEF Settling
<1>2. \A kind \in {"audit", "enable", "restored", "scheduler"} : kind \in L => kind \in K
  OBVIOUS
<1>3. /\ Active(q) = Active(p) /\ Held(q) = Held(p)
      /\ Timely(q, a) /\ Counts(q)
  BY DEF Good, Timely, Counts, SameSession, SameOutcome, Active, Held
<1>4. Between(q, L, w) /\ Rested(q, L) /\ Judged(q, L)
  BY <1>1, <1>2 DEF Good, Between, Rested, Judged, SameSession, SameOutcome
<1>5. Pending(p, K) => Pending(q, L)
  BY <1>1, <1>2 DEF Pending, SameSession, SameOutcome
<1>6. Counted(q, L)
  BY <1>3, <1>5 DEF Good, Counted, SameSession, SameOutcome
<1>7. QED
  BY <1>3, <1>4, <1>6 DEF Good

LEMMA Scheduled ==
    ASSUME NEW p \in Loose, NEW kind \in {"continuation", "drained", "wait"}, NEW K, NEW w,
           Good(p, K, auto, w),
           Active(p) /\ ~Held(p) => p.sends <= p.cont.retries \/ p.fg = "starting"
    PROVE  Good(Schedule(p, kind), K, auto, w)
<1> DEFINE q == Schedule(p, kind)
<1>1. /\ q \in Loose /\ SameSession(p, q) /\ SameOutcome(p, q) /\ Kinds(q) = Kinds(p)
      /\ \/ q.timer = p.timer
         \/ auto /\ Active(p) /\ ~Held(p) /\ q.timer.goal = p.goal.id
  BY ScheduleFields
<1> HIDE DEF q
<1>2. Active(q) = Active(p) /\ Held(q) = Held(p) /\ Counts(q) /\ Timely(q, auto)
  BY <1>1 DEF Good, Timely, Counts, SameSession, SameOutcome, Active, Held
<1>3. Between(q, K, w) /\ Rested(q, K) /\ Judged(q, K) /\ Kinds(q) \subseteq K
  BY <1>1 DEF Good, Between, Rested, Judged, SameSession, SameOutcome
<1>4. Counted(q, K)
  BY <1>1, <1>2 DEF Good, Counted, Pending, SameSession, SameOutcome
<1>5. QED
  BY <1>1, <1>2, <1>3, <1>4 DEF Good, q

\* After progress nothing is to be counted.
LEMMA Anew ==
    ASSUME NEW p \in Loose, NEW K, NEW a, NEW w,
           p.cont = Fresh, p.sends = 0, p.evidence = None,
           Kinds(p) \subseteq K, Timely(p, a), Between(p, K, w)
    PROVE  Good(p, K, a, w)
<1>1. Fresh.retries = 0
  BY DEF Fresh
<1>2. Counts(p) /\ Counted(p, K) /\ Rested(p, K) /\ Judged(p, K)
  BY <1>1, MostType DEF Counts, Counted, Rested, Judged
<1>3. QED
  BY <1>2 DEF Good

\* A goal that is not active any more
LEMMA Stopped ==
    ASSUME NEW p \in Loose, NEW g \in GoalState \cup {None}, g = None \/ g.status # "active",
           Counts(p), NEW a, NEW w
    PROVE  Good(SetGoal(p, g), {}, a, w) /\ SetGoal(p, g).cont = p.cont
<1> DEFINE q == SetGoal(p, g)
<1>1. /\ q \in Loose
      /\ q.goal = None <=> g = None
      /\ g # None => q.goal.status = g.status
      /\ q.queued = None /\ q.cont = p.cont /\ q.sends = p.sends /\ q.timer = None
      /\ q.evidence = None /\ Kinds(q) = {}
  BY SetGoalFields
<1> HIDE DEF q
<1>2. ~Active(q)
  BY <1>1 DEF Active
<1>3. /\ Timely(q, a) /\ Between(q, {}, w) /\ Rested(q, {}) /\ Judged(q, {})
      /\ Counts(q) /\ Counted(q, {})
  BY <1>1, <1>2 DEF Timely, Between, Rested, Judged, Counts, Counted, Settling
<1>4. QED
  BY <1>1, <1>3 DEF Good, q

LEMMA PublishedGood ==
    ASSUME NEW p \in Loose, NEW t \in Task, t.bg \in BOOLEAN, NEW K, NEW w,
           Good(p, K, auto, w)
    PROVE  Good(Published(p, t), K, auto, w)
<1> DEFINE q == Published(p, t)
<1>1. /\ q \in Loose /\ SameSession(p, q) /\ Kinds(q) = Kinds(p)
      /\ \/ SameOutcome(p, q) /\ q.timer \in {p.timer, None}
         \/ Progressed(p, q)
  BY PublishedFields
<1> HIDE DEF q
<1>2. Kinds(q) \subseteq K /\ Between(q, K, w)
  BY <1>1 DEF Good, Between, SameSession
<1>3. CASE SameOutcome(p, q) /\ q.timer \in {p.timer, None}
  BY <1>1, <1>2, <1>3, Lasts DEF q
<1>4. CASE Progressed(p, q)
  <2>1. Timely(q, auto)
    BY <1>1, <1>4 DEF Good, Timely, Progressed, SameSession, Active, Held
  <2>2. QED
    BY <1>1, <1>2, <1>4, <2>1, Anew DEF Progressed, q
<1>5. QED
  BY <1>1, <1>3, <1>4

-----------------------------------------------------------------------------
(* The handlers after their snapshot: they leave a good record, reopen no exhausted hold, *)
(* and continue a goal only when it is wanted.                                            *)

Wanted(p) == auto /\ Active(p) /\ ~Held(p) /\ Idle(p) /\ p.queued = None

\* What a handler makes of p
Follows(p, q) ==
    /\ p.cont.blocked => q.cont.blocked
    /\ q.sends > p.sends => Wanted(p)

LEMMA FollowsItself ==
    ASSUME NEW p \in Loose, NEW q, q.cont = p.cont, q.sends = p.sends
    PROVE  Follows(p, q)
<1>1. p.sends \in Nat
  BY Numbers
<1>2. QED
  BY <1>1 DEF Follows

\* The retry that is due: the same outcome was counted, another one has come with progress.
LEMMA DecidesGood ==
    ASSUME NEW p \in Loose, NEW K, NEW w, Good(p, K, auto, w), Settling(K)
    PROVE  LET q == Decides(p) IN
           /\ q \in Loose /\ Good(q, K, auto, w) /\ Follows(p, q)
<1> DEFINE repeated == p.cont.sig = p.evidence
           retries == IF repeated THEN p.cont.retries + 1 ELSE 0
           cont == [sig |-> p.evidence, retries |-> retries,
                    blocked |-> repeated /\ retries >= MaxRetries]
           after == [p EXCEPT !.cont = cont]
           q == Decides(p)
<1>n. /\ p.sends \in Nat /\ p.cont.retries \in Nat /\ p.cont.retries <= Most
      /\ Most \in Nat \ {0} /\ p.evidence \in Evidence \cup {None}
  BY Numbers, MostType DEF Loose
<1>1. CASE p.evidence = None
  <2>1. q = Schedule(p, "continuation")
    BY <1>1 DEF Decides
  <2>2. Active(p) /\ ~Held(p) => p.sends <= p.cont.retries \/ p.fg = "starting"
    <3>1. p.fg # "running" /\ p.fg # "ended"
      BY DEF Good, Between
    <3>2. Pending(p, K) => p.fg = "starting"
      BY <1>1, <3>1 DEF Pending
    <3>3. QED
      BY <3>2 DEF Good, Counted
  <2>3. QED
    BY <2>1, <2>2, Scheduled, ScheduleFields, FollowsItself DEF SameOutcome
<1>2. CASE p.evidence # None /\ p.cont.blocked
  <2>1. q = p
    BY <1>2 DEF Decides
  <2>2. QED
    BY <2>1, FollowsItself
<1>3. CASE p.evidence # None /\ ~p.cont.blocked
  <2>1. q = Schedule(after, "continuation")
    BY <1>3 DEF Decides
  <2>2. p.cont.retries < Most
    BY <1>3 DEF Good, Counts
  <2>3. cont \in Continuation
    BY <1>n, <2>2 DEF Continuation
  <2>4. /\ cont.sig = p.evidence /\ cont.retries = retries
        /\ cont.blocked = (repeated /\ retries >= MaxRetries)
    OBVIOUS
  <2>r. retries \in Nat /\ (repeated => retries = p.cont.retries + 1) /\ (~repeated => retries = 0)
    BY <1>n
  <2> HIDE DEF cont, retries
  <2>5. /\ ~cont.blocked => cont.retries < Most
        /\ repeated => cont.retries = p.cont.retries + 1
        /\ ~repeated => cont.retries = 0
    <3>1. ~(repeated /\ retries >= MaxRetries) => retries < Most
      BY <1>n, <2>r, MostType
    <3>2. QED
      BY <2>4, <2>r, <3>1
  <2>6. /\ after \in Loose /\ after.cont = cont /\ after.tasks = p.tasks
        /\ SameSession(p, after) /\ after.evidence = p.evidence /\ after.sends = p.sends
        /\ after.timer = p.timer
    BY <2>3 DEF Loose, SameSession
  <2> HIDE DEF after
  <2>7. Kinds(after) = Kinds(p)
    BY <2>6 DEF Kinds
  <2>8. /\ Kinds(after) \subseteq K
        /\ Timely(after, auto) /\ Between(after, K, w) /\ Rested(after, K) /\ Counts(after)
    BY <2>5, <2>6, <2>7
       DEF Good, Timely, Between, Rested, Counts, SameSession, Active
  <2>9. Judged(after, K)
    BY <2>4, <2>6 DEF Judged
  <2>10. ASSUME Active(p), ~p.perm.blocker
         PROVE  \/ after.sends <= after.cont.retries
                \/ after.sends = after.cont.retries + 1 /\ after.fg = "starting"
    <3>1. CASE repeated
      <4>1. p.sends <= p.cont.retries + 1
        BY <1>n, <1>3, <2>10 DEF Good, Counted, Held
      <4>2. QED
        BY <2>5, <2>6, <3>1, <4>1, <1>n
    <3>2. CASE ~repeated
      <4>1. p.sends = 0 \/ (p.fg = "starting" /\ p.sends <= 1)
        BY <1>n, <1>3, <3>2 DEF Good, Judged
      <4>2. p.sends <= 0 \/ (p.sends = 1 /\ p.fg = "starting")
        BY <1>n, <4>1
      <4>3. after.cont.retries = 0 /\ after.sends = p.sends /\ after.fg = p.fg
        BY <2>5, <2>6, <3>2 DEF SameSession
      <4>4. QED
        BY <4>2, <4>3
    <3>3. QED
      BY <3>1, <3>2
  <2>11. Active(after) = Active(p) /\ (~Held(after) => ~p.perm.blocker)
    BY <2>6 DEF Active, Held, SameSession
  <2>12. Good(after, K, auto, w)
    <3>1. Counted(after, K)
      BY <2>10, <2>11 DEF Counted, Pending
    <3>2. QED
      BY <2>6, <2>8, <2>9, <3>1 DEF Good
  <2>13. Good(q, K, auto, w)
    <3>1. Active(after) /\ ~Held(after) =>
            after.sends <= after.cont.retries \/ after.fg = "starting"
      BY <2>10, <2>11
    <3>2. QED
      BY <2>1, <2>6, <2>12, <3>1, Scheduled
  <2>14. q \in Loose /\ SameOutcome(after, q)
    BY <2>1, <2>6, ScheduleFields
  <2>15. Follows(p, q)
    BY <1>3, <1>n, <2>6, <2>14 DEF SameOutcome, Follows
  <2>16. QED
    BY <2>13, <2>14, <2>15
<1>4. QED
  BY <1>1, <1>2, <1>3

LEMMA Shrinks ==
    ASSUME NEW p \in Loose, NEW K, NEW a, NEW w, Good(p, K, a, w)
    PROVE  Good(p, Kinds(p), a, w)
<1>1. Kinds(p) \subseteq K
  BY DEF Good
<1>2. QED
  BY <1>1, Lasts DEF SameSession, SameOutcome

\* What the rest of a handler owes: p is what its snapshot left, with its own task in K.
Fine(p, q) ==
    /\ q \in Loose /\ Good(q, Kinds(q), auto, scenario.waits)
    /\ Follows(p, q)

LEMMA WithFields ==
    ASSUME NEW g \in GoalState, NEW status \in {"active", "paused", "complete"},
           NEW reason \in Reason
    PROVE  /\ With(g, status, reason) \in GoalState
           /\ With(g, status, reason).id = g.id /\ With(g, status, reason).status = status
  BY DEF With, GoalState

LEMMA PermissionFields ==
    ASSUME NEW p \in Loose, NEW perm \in Permission
    PROVE  LET q == [p EXCEPT !.perm = perm] IN
           /\ q \in Loose /\ q.perm = perm /\ q.goal = p.goal /\ q.cont = p.cont
           /\ q.fg = p.fg /\ q.sends = p.sends
  BY DEF Loose

LEMMA SettlesFine ==
    ASSUME NEW p \in Loose, NEW K, NEW current,
           Good(p, K, auto, scenario.waits), "settled" \in K
    PROVE  Fine(p, Settles(p, current))
<1> DEFINE q == Settles(p, current)
           perm == [p.perm EXCEPT !.retry = FALSE]
           m == [p EXCEPT !.perm = perm]
           g == With(p.goal, "paused", "permission")
<1>1. CASE Active(p) /\ p.perm.blocker
  <2>1. perm \in Permission
    BY DEF Loose, Permission
  <2>2. q = SetGoal(m, g)
    BY <1>1 DEF Settles
  <2>3. m \in Loose /\ m.cont = p.cont /\ m.sends = p.sends
    BY <2>1, PermissionFields
  <2> HIDE DEF m
  <2>4. g \in GoalState /\ g.status = "paused"
    BY <1>1, WithFields DEF Active, Loose, Reason
  <2> HIDE DEF g
  <2>5. Counts(m)
    BY <2>3 DEF Good, Counts
  <2>6. Good(q, {}, auto, scenario.waits) /\ q.cont = m.cont
    BY <2>2, <2>3, <2>4, <2>5, Stopped
  <2>7. SetGoal(m, g) \in Loose /\ SetGoal(m, g).sends = m.sends
    BY <2>3, <2>4, SetGoalFields
  <2>8. QED
    BY <2>2, <2>3, <2>6, <2>7, Shrinks, FollowsItself DEF Fine
<1>2. CASE q = p
  BY <1>2, Shrinks, FollowsItself DEF Fine
<1>3. CASE scenario.waits /\ q = Awaits(p, "scheduler")
  <2>1. /\ q \in Loose /\ SameSession(p, q) /\ SameOutcome(p, q) /\ q.timer = p.timer
        /\ Kinds(q) = Kinds(p) \cup {"scheduler"}
    BY <1>3, AwaitsFields
  <2> HIDE DEF q
  <2> DEFINE L == K \cup {"scheduler"}
  <2>2. Kinds(q) \subseteq L /\ Settling(K) /\ Settling(L)
    BY <2>1 DEF Good, Settling
  <2>3. /\ Active(q) = Active(p) /\ Held(q) = Held(p) /\ Timely(q, auto) /\ Counts(q)
    BY <2>1 DEF Good, Timely, Counts, SameSession, SameOutcome, Active, Held
  <2>4. Between(q, L, scenario.waits) /\ Rested(q, L) /\ Judged(q, L)
    BY <1>3, <2>1, <2>2 DEF Good, Between, Rested, Judged, SameSession, SameOutcome
  <2>5. Counted(q, L)
    BY <2>1, <2>2, <2>3 DEF Good, Counted, Pending, SameSession, SameOutcome
  <2>6. Good(q, L, auto, scenario.waits)
    BY <2>1, <2>2, <2>3, <2>4, <2>5 DEF Good
  <2>7. QED
    BY <2>1, <2>6, Shrinks, FollowsItself DEF Fine, SameOutcome, q
<1>4. CASE q = Decides(p)
  <2>1. Settling(K)
    BY DEF Settling
  <2>2. q \in Loose /\ Good(q, K, auto, scenario.waits) /\ Follows(p, q)
    BY <1>4, <2>1, DecidesGood
  <2>3. QED
    BY <2>2, Shrinks DEF Fine
<1>5. QED
  <2>1. \/ Active(p) /\ p.perm.blocker
        \/ q = p
        \/ scenario.waits /\ q = Awaits(p, "scheduler")
        \/ q = Decides(p)
    BY DEF Settles
  <2>2. QED
    BY <1>1, <1>2, <1>3, <1>4, <2>1

\* A continuation is sent: it is one more than what was counted, and its turn is to begin.
LEMMA AuditsFine ==
    ASSUME NEW p \in Loose, NEW K, NEW current,
           Good(p, K, auto, scenario.waits), "audit" \in K
    PROVE  Fine(p, Audits(p, current))
<1> DEFINE q == Audits(p, current)
           sent == Send(p)
           sends == IF sent.sends < MaxSends THEN sent.sends + 1 ELSE sent.sends
           r == [sent EXCEPT !.sends = sends]
<1>1. CASE q = p
  BY <1>1, Shrinks, FollowsItself DEF Fine
<1>2. CASE q # p
  <2>1. /\ Active(p) /\ auto /\ ~Held(p) /\ p.queued # p.goal.id /\ Idle(p) /\ q = r
    BY <1>2 DEF Audits, Auditable
  <2>2. p.goal # None /\ p.goal.id \in Goal
    BY <2>1 DEF Active, Loose, GoalState
  <2>3. /\ sent \in Loose /\ SameOutcome(p, sent)
        /\ sent.goal = p.goal /\ sent.perm = p.perm /\ sent.queued = p.goal.id
        /\ sent.fg = "starting" /\ sent.timer = p.timer /\ Kinds(sent) = Kinds(p)
    BY <2>1, <2>2, SendFields DEF Idle
  <2> HIDE DEF sent
  <2>4. p.sends \in 0 .. MaxSends /\ MaxSends \in Nat /\ p.cont.retries \in Nat
    BY MostType, GoalAssumption, Numbers DEF Loose
  <2>5. sends \in 0 .. MaxSends /\ sends <= p.sends + 1
    BY <2>3, <2>4 DEF SameOutcome
  <2> HIDE DEF sends
  <2>6. /\ r \in Loose /\ r.tasks = sent.tasks /\ SameSession(sent, r) /\ r.timer = sent.timer
        /\ r.cont = sent.cont /\ r.evidence = sent.evidence /\ r.sends = sends
    BY <2>3, <2>5 DEF Loose, SameSession
  <2> HIDE DEF r
  <2>7. Kinds(r) = Kinds(p)
    BY <2>3, <2>6 DEF Kinds
  <2>8. ~Pending(p, K) /\ p.sends <= p.cont.retries
    <3>1. ~Pending(p, K)
      BY <2>1 DEF Pending, Idle
    <3>2. QED
      BY <2>1, <3>1 DEF Good, Counted
  <2>9. ~p.cont.blocked /\ p.cont.retries < Most
    BY <2>1 DEF Good, Counts, Held
  <2>10. /\ Timely(r, auto) /\ Between(r, K, scenario.waits) /\ Rested(r, K)
    BY <2>1, <2>2, <2>3, <2>6
       DEF Good, Timely, Between, Rested, SameSession, SameOutcome, Active
  <2>11. Judged(r, K)
    <3>1. ASSUME Settling(K), p.evidence \notin {None, p.cont.sig} PROVE p.sends = 0
      BY <2>1, <3>1 DEF Good, Judged, Idle
    <3>2. p.sends = 0 => sends <= 1
      BY <2>5
    <3>3. QED
      BY <2>3, <2>6, <3>1, <3>2 DEF Judged, SameSession, SameOutcome
  <2>12. Counts(r)
    <3>1. sends <= Most
      BY <2>4, <2>5, <2>8, <2>9, MostType
    <3>2. QED
      BY <2>3, <2>6, <2>9, <3>1 DEF Counts, SameOutcome
  <2>13. Counted(r, K)
    <3>1. sends <= p.cont.retries \/ sends = p.cont.retries + 1
      BY <2>4, <2>5, <2>8
    <3>2. QED
      BY <2>3, <2>6, <3>1 DEF Counted, Pending, SameSession, SameOutcome
  <2>14. Good(r, K, auto, scenario.waits)
    BY <2>6, <2>7, <2>10, <2>11, <2>12, <2>13 DEF Good
  <2>15. Wanted(p)
    BY <2>1 DEF Good, Timely, Wanted
  <2>16. QED
    BY <2>1, <2>3, <2>6, <2>14, <2>15, Shrinks DEF Fine, Follows, SameOutcome
<1>3. QED
  BY <1>1, <1>2

\* A session that has just been restored, or may go on again
LEMMA WakesFine ==
    ASSUME NEW p \in Loose, NEW K,
           Good(p, K, auto, scenario.waits), "enable" \in K \/ "restored" \in K
    PROVE  \A q \in {p, Schedule(p, "continuation")} : (q # p => Idle(p)) => Fine(p, q)
<1>1. Fine(p, p)
  BY Shrinks, FollowsItself DEF Fine
<1>2. ASSUME Idle(p) PROVE Fine(p, Schedule(p, "continuation"))
  <2>1. p.sends <= p.cont.retries
    BY <1>2, Numbers DEF Good, Rested, Idle
  <2>2. Good(Schedule(p, "continuation"), K, auto, scenario.waits)
    BY <2>1, Scheduled
  <2>3. /\ Schedule(p, "continuation") \in Loose
        /\ SameOutcome(p, Schedule(p, "continuation"))
    BY ScheduleFields
  <2>4. QED
    BY <2>2, <2>3, Shrinks, FollowsItself DEF Fine, SameOutcome
<1>3. QED
  BY <1>1, <1>2

-----------------------------------------------------------------------------
(* The steps *)

LEMMA Loosely ==
    ASSUME TypeOK
    PROVE  s \in Loose
<1>1. 0 .. MaxFollowUps \subseteq Nat
  BY GoalAssumption
<1>2. QED
  BY <1>1 DEF TypeOK, State, Loose

LEMMA Tightly ==
    ASSUME NEW p \in Loose, p.followUps \in 0 .. MaxFollowUps
    PROVE  p \in State
  BY DEF State, Loose

\* What a step owes, besides the invariant: an exhausted hold is reopened by the user, or
\* for a scheduler, and a continuation is counted when it is wanted.
Owed ==
    /\ s.cont.blocked /\ ~s'.cont.blocked =>
        \/ scenario.waits
        \/ (\E tool \in BOOLEAN : Resume(tool)) \/ (\E g \in Goal : NewGoal(g))
    /\ s'.sends > s.sends => auto /\ Active(s) /\ ~Held(s) /\ Idle(s) /\ s.queued = None

LEMMA StepInv ==
    ASSUME Inv, UNCHANGED scenario, auto' \in BOOLEAN, bg' \in BOOLEAN, used' \subseteq Goal,
           s' \in Loose, s'.followUps <= scenario.followUps,
           NEW K, Good(s', K, auto', scenario.waits)
    PROVE  Inv'
<1>1. scenario.followUps \in 0 .. MaxFollowUps /\ MaxFollowUps \in Nat
  BY GoalAssumption DEF Inv, Scenario
<1>2. s'.followUps \in 0 .. MaxFollowUps
  <2>1. s'.followUps \in Nat
    BY DEF Loose
  <2>2. QED
    BY <1>1, <2>1
<1>3. s' \in State
  BY <1>2, Tightly
<1>4. Good(s', Kinds(s'), auto', scenario'.waits)
  BY Shrinks
<1>5. TypeOK'
  BY <1>3 DEF TypeOK
<1>6. scenario' \in Scenario
  BY DEF Inv
<1>7. (Good(s, Kinds(s), auto, scenario.waits))'
  BY <1>4
<1>8. QED
  BY <1>5, <1>6, <1>7 DEF Inv

LEMMA FollowsOwed ==
    ASSUME Follows(s, s')
    PROVE  Owed
  BY DEF Follows, Wanted, Owed

\* A step without a snapshot that leaves the outcome of the turns alone
LEMMA SameOwed ==
    ASSUME Inv, s'.cont = s.cont, s'.sends = s.sends \/ s'.sends = 0
    PROVE  Owed
<1>1. s.sends \in Nat
  BY Loosely, Numbers DEF Inv
<1>2. QED
  BY <1>1 DEF Owed

\* The shared record when task i has its snapshot, which is published
After(i) ==
    LET t == s.tasks[i]
        others == [s EXCEPT !.tasks =
            [j \in DOMAIN @ |->
                [@[j] EXCEPT !.late = s.tasks[j].late \/ (~t.late /\ j < i)]]]
        all == Published(others, t)
    IN  [all EXCEPT !.tasks = RemoveAt(@, i)]

LEMMA Collected ==
    ASSUME Inv, NEW i \in DOMAIN s.tasks, s.tasks[i].bg # None
    PROVE  /\ After(i) \in Loose /\ Good(After(i), Kinds(s), auto, scenario.waits)
           /\ s.tasks[i].kind \in Kinds(s)
           /\ s.cont.blocked => After(i).cont.blocked
           /\ After(i).sends <= s.sends
           /\ Wanted(After(i)) => Wanted(s)
<1> DEFINE t == s.tasks[i]
           others == [s EXCEPT !.tasks =
               [j \in DOMAIN @ |->
                   [@[j] EXCEPT !.late = s.tasks[j].late \/ (~s.tasks[i].late /\ j < i)]]]
           all == Published(others, t)
           after == [all EXCEPT !.tasks = RemoveAt(@, i)]
<1>1. s \in Loose /\ Good(s, Kinds(s), auto, scenario.waits) /\ After(i) = after
  BY Loosely DEF Inv, After
<1>2. t \in Task /\ t.bg \in BOOLEAN /\ t.kind \in Kinds(s)
  <2>1. s.tasks \in Seq(Task)
    BY <1>1 DEF Loose
  <2>2. s.tasks[i] \in Task
    BY <2>1
  <2>3. QED
    BY <2>2 DEF Task, Kinds
<1>3. /\ others \in Loose /\ SameSession(s, others) /\ SameOutcome(s, others)
      /\ others.timer = s.timer /\ Kinds(others) = Kinds(s)
      /\ DOMAIN others.tasks = DOMAIN s.tasks
  BY <1>1, LateFields
<1> HIDE DEF others, t
<1>4. Good(others, Kinds(s), auto, scenario.waits)
  BY <1>1, <1>3, Lasts
<1>5. /\ all \in Loose /\ SameSession(others, all)
      /\ Kinds(all) = Kinds(others) /\ DOMAIN all.tasks = DOMAIN others.tasks
      /\ \/ SameOutcome(others, all)
         \/ Progressed(others, all)
  BY <1>2, <1>3, PublishedFields
<1>6. Good(all, Kinds(s), auto, scenario.waits)
  BY <1>2, <1>3, <1>4, PublishedGood
<1> HIDE DEF all
<1>7. /\ after \in Loose /\ SameSession(all, after) /\ SameOutcome(all, after)
      /\ after.timer = all.timer /\ Kinds(after) \subseteq Kinds(all)
  <2>1. i \in DOMAIN all.tasks
    BY <1>3, <1>5
  <2>2. QED
    BY <1>5, <2>1, RemovedFields
<1> HIDE DEF after
<1>8. Good(after, Kinds(s), auto, scenario.waits)
  BY <1>3, <1>5, <1>6, <1>7, Lasts
<1>9. s.sends \in Nat
  BY <1>1, Numbers
<1>10. /\ s.cont.blocked => after.cont.blocked
       /\ after.sends <= s.sends
       /\ Wanted(after) => Wanted(s)
  <2>1. after.goal = s.goal /\ after.perm = s.perm /\ after.fg = s.fg /\ after.queued = s.queued
    BY <1>3, <1>5, <1>7 DEF SameSession
  <2>2. \/ after.cont = s.cont /\ after.sends = s.sends
        \/ ~s.cont.blocked /\ after.sends = 0
    BY <1>3, <1>5, <1>7 DEF SameOutcome, Progressed, Held
  <2>3. QED
    BY <1>9, <2>1, <2>2 DEF Wanted, Active, Held, Idle
<1>11. QED
  BY <1>1, <1>2, <1>7, <1>8, <1>10 DEF t

\* A handler that goes on after its snapshot, and leaves what is fine
LEMMA HandlerStep ==
    ASSUME Inv, NEW i \in DOMAIN s.tasks, s.tasks[i].bg # None, Fine(After(i), s'),
           s'.followUps <= scenario.followUps, UNCHANGED <<scenario, auto, bg, used>>
    PROVE  Inv' /\ Owed
<1>1. /\ After(i) \in Loose
      /\ s.cont.blocked => After(i).cont.blocked
      /\ After(i).sends <= s.sends
      /\ Wanted(After(i)) => Wanted(s)
  BY Collected
<1>2. s' \in Loose /\ Good(s', Kinds(s'), auto, scenario.waits) /\ Follows(After(i), s')
  BY DEF Fine
<1>3. Inv'
  BY <1>2, StepInv DEF Inv, TypeOK
<1>4. s.sends \in Nat /\ s'.sends \in Nat /\ After(i).sends \in Nat
  BY <1>1, <1>2, Loosely, Numbers DEF Inv
<1>5. Follows(s, s')
  <2>1. s.cont.blocked => s'.cont.blocked
    BY <1>1, <1>2 DEF Follows
  <2>2. s'.sends > s.sends => s'.sends > After(i).sends
    BY <1>1, <1>4
  <2>3. QED
    BY <1>1, <1>2, <2>1, <2>2 DEF Follows
<1>6. QED
  BY <1>3, <1>5, FollowsOwed

\* A provider's answer changes no kind of a task.
LEMMA ReadStep ==
    ASSUME Inv, UNCHANGED scenario, NEW i \in DOMAIN s.tasks, Read(i)
    PROVE  Inv' /\ Owed
<1> DEFINE task == [s.tasks[i] EXCEPT !.bg = bg]
           r == [s.tasks EXCEPT ![i] = task]
           q == [s EXCEPT !.tasks = r]
<1>1. s \in Loose /\ Good(s, Kinds(s), auto, scenario.waits) /\ s.tasks \in Seq(Task)
  BY Loosely DEF Inv, Loose
<1>2. \A j \in DOMAIN s.tasks : s.tasks[j] \in Task
  BY <1>1
<1>3. task \in Task /\ task.kind = s.tasks[i].kind
  BY <1>2 DEF Task, Inv, TypeOK
<1> HIDE DEF task
<1>4. DOMAIN r = DOMAIN s.tasks /\ r = [j \in DOMAIN s.tasks |-> r[j]]
  OBVIOUS
<1>5. \A j \in DOMAIN s.tasks : r[j] \in Task /\ r[j].kind = s.tasks[j].kind
  BY <1>2, <1>3
<1>6. r \in Seq(Task)
  <2> HIDE DEF r
  <2>1. QED
    BY <1>1, <1>4, <1>5, EachTask
<1>7. s' = q /\ s'.followUps <= scenario.followUps /\ UNCHANGED <<auto, bg, used>>
  BY DEF Read, Becomes, task
<1> HIDE DEF r
<1>8. /\ q \in Loose /\ SameSession(s, q) /\ SameOutcome(s, q)
      /\ q.timer = s.timer /\ q.tasks = r
  BY <1>1, <1>6, TasksFields
<1> HIDE DEF q
<1>9. Kinds(q) = Kinds(s)
  BY <1>4, <1>5, <1>8 DEF Kinds
<1>10. Good(q, Kinds(s), auto, scenario.waits)
  BY <1>1, <1>8, <1>9, Lasts
<1>11. QED
  BY <1>7, <1>8, <1>10, StepInv, SameOwed DEF Inv, TypeOK, SameOutcome

LEMMA SnapshotStep ==
    ASSUME Inv, UNCHANGED scenario, NEW i \in DOMAIN s.tasks,
           Polled(i) \/ Looked(i) \/ Settled(i) \/ Audited(i) \/ Enabled(i) \/ Restored(i)
    PROVE  Inv' /\ Owed
<1> DEFINE p == After(i)
<1>1. ASSUME s.tasks[i].bg # None
      PROVE  /\ p \in Loose /\ Good(p, Kinds(s), auto, scenario.waits)
             /\ s.tasks[i].kind \in Kinds(s)
  BY <1>1, Collected
<1>2. ASSUME Polled(i) \/ Looked(i) PROVE Inv' /\ Owed
  <2>1. /\ s.tasks[i].bg # None /\ s' = p
        /\ s'.followUps <= scenario.followUps /\ UNCHANGED <<auto, bg, used>>
    BY <1>2 DEF Polled, Looked, Continues, Becomes, Nothing, After
  <2> HIDE DEF p
  <2>2. Fine(p, p)
    BY <1>1, <2>1, Shrinks, FollowsItself DEF Fine
  <2>3. QED
    BY <2>1, <2>2, HandlerStep DEF p
<1>3. ASSUME Settled(i) PROVE Inv' /\ Owed
  <2>1. PICK current : s' = Settles(p, current)
    BY <1>3 DEF Settled, Continues, Becomes, After
  <2>2. /\ s.tasks[i].bg # None /\ s.tasks[i].kind = "settled"
        /\ s'.followUps <= scenario.followUps /\ UNCHANGED <<auto, bg, used>>
    BY <1>3 DEF Settled, Continues, Becomes, After
  <2> HIDE DEF p
  <2>3. Fine(p, s')
    BY <1>1, <2>1, <2>2, SettlesFine
  <2>4. QED
    BY <2>2, <2>3, HandlerStep DEF p
<1>4. ASSUME Audited(i) PROVE Inv' /\ Owed
  <2>1. PICK current : s' = Audits(p, current)
    BY <1>4 DEF Audited, Continues, Becomes, After
  <2>2. /\ s.tasks[i].bg # None /\ s.tasks[i].kind = "audit"
        /\ s'.followUps <= scenario.followUps /\ UNCHANGED <<auto, bg, used>>
    BY <1>4 DEF Audited, Continues, Becomes, After
  <2> HIDE DEF p
  <2>3. Fine(p, s')
    BY <1>1, <2>1, <2>2, AuditsFine
  <2>4. QED
    BY <2>2, <2>3, HandlerStep DEF p
<1>5. ASSUME Enabled(i) \/ Restored(i) PROVE Inv' /\ Owed
  <2>1. /\ s' \in {p, Schedule(p, "continuation")}
        /\ s' # p => Idle(p)
    BY <1>5 DEF Enabled, Restored, Enables, Restores, Continues, Becomes, After
  <2>2. /\ s.tasks[i].bg # None /\ s.tasks[i].kind \in {"enable", "restored"}
        /\ s'.followUps <= scenario.followUps /\ UNCHANGED <<auto, bg, used>>
    BY <1>5 DEF Enabled, Restored, Continues, Becomes, After
  <2> HIDE DEF p
  <2>3. Fine(p, s')
    BY <1>1, <2>1, <2>2, WakesFine
  <2>4. QED
    BY <2>2, <2>3, HandlerStep DEF p
<1>6. QED
  BY <1>2, <1>3, <1>4, <1>5

LEMMA SchedulerStep ==
    ASSUME Inv, UNCHANGED scenario, NEW i \in DOMAIN s.tasks, Scheduler(i)
    PROVE  Inv' /\ Owed
<1> DEFINE p == [s EXCEPT !.tasks = RemoveAt(@, i)]
           d == Progress(p)
           e == [d EXCEPT !.evidence = None]
           K == Kinds(s)
<1>1. /\ s \in Loose /\ Good(s, K, auto, scenario.waits) /\ s.tasks \in Seq(Task)
  BY Loosely DEF Inv, Loose
<1>2. /\ s' = Schedule(e, "wait") \/ s' = Decides(p)
      /\ s'.followUps <= scenario.followUps /\ UNCHANGED <<auto, bg, used>>
      /\ s.tasks[i].kind = "scheduler"
  BY DEF Scheduler, Becomes
<1>3. "scheduler" \in K /\ Settling(K) /\ scenario.waits
  <2>1. "scheduler" \in K
    BY <1>2 DEF Kinds
  <2>2. QED
    BY <1>1, <2>1 DEF Settling, Good, Between
<1>4. /\ p \in Loose /\ SameSession(s, p) /\ SameOutcome(s, p)
      /\ p.timer = s.timer /\ Kinds(p) \subseteq K
  BY <1>1, RemovedFields
<1> HIDE DEF p
<1>5. Good(p, K, auto, scenario.waits)
  BY <1>1, <1>4, Lasts
<1>6. CASE s' = Decides(p)
  <2>1. s' \in Loose /\ Good(s', K, auto, scenario.waits) /\ Follows(p, s')
    BY <1>3, <1>4, <1>5, <1>6, DecidesGood
  <2>2. Follows(s, s')
    BY <1>4, <2>1 DEF Follows, SameSession, SameOutcome, Wanted, Active, Held, Idle
  <2>3. QED
    BY <1>2, <2>1, <2>2, StepInv, FollowsOwed DEF Inv, TypeOK
<1>7. CASE s' = Schedule(e, "wait")
  <2>1. /\ d \in Loose /\ SameSession(p, d) /\ d.cont = Fresh /\ d.sends = 0
        /\ d.timer = p.timer /\ Kinds(d) = Kinds(p)
    BY <1>4, ProgressFields
  <2> HIDE DEF d
  <2>2. /\ e \in Loose /\ SameSession(d, e) /\ e.cont = d.cont /\ e.sends = d.sends
        /\ e.evidence = None /\ e.timer = d.timer /\ Kinds(e) = Kinds(d)
    BY <2>1, ForgottenFields
  <2> HIDE DEF e
  <2>3. Timely(e, auto) /\ Between(e, K, scenario.waits) /\ Kinds(e) \subseteq K
    BY <1>4, <1>5, <2>1, <2>2 DEF Good, Timely, Between, SameSession, Active
  <2>4. Good(e, K, auto, scenario.waits)
    BY <2>1, <2>2, <2>3, Anew
  <2>5. e.sends <= e.cont.retries
    BY <2>1, <2>2 DEF Fresh
  <2>6. Good(s', K, auto, scenario.waits)
    BY <1>7, <2>2, <2>4, <2>5, Scheduled
  <2>7. s' \in Loose /\ s'.sends = 0
    BY <1>7, <2>1, <2>2, ScheduleFields DEF SameOutcome
  <2>8. Owed
    BY <1>1, <1>3, <2>7, Numbers DEF Owed
  <2>9. QED
    BY <1>2, <2>6, <2>7, <2>8, StepInv DEF Inv, TypeOK
<1>8. QED
  BY <1>2, <1>6, <1>7

LEMMA LookStep ==
    ASSUME Inv, UNCHANGED scenario, Poll \/ Look
    PROVE  Inv' /\ Owed
<1>1. s \in Loose /\ Good(s, Kinds(s), auto, scenario.waits)
  BY Loosely DEF Inv
<1>2. PICK kind \in {"poll", "look"} : s' = Awaits(s, kind)
  BY DEF Poll, Look, Becomes
<1>3. s'.followUps <= scenario.followUps /\ UNCHANGED <<auto, bg, used>>
  BY DEF Poll, Look, Becomes
<1>4. /\ s' \in Loose /\ SameSession(s, s') /\ SameOutcome(s, s')
      /\ s'.timer = s.timer /\ Kinds(s') = Kinds(s) \cup {kind}
  BY <1>1, <1>2, AwaitsFields
<1>5. Good(s', Kinds(s'), auto, scenario.waits)
  BY <1>1, <1>4, Lasts
<1>6. QED
  BY <1>3, <1>4, <1>5, StepInv, SameOwed DEF Inv, TypeOK, SameOutcome

\* While a timer is pending in an idle session, every continuation has been counted.
LEMMA TimerStep ==
    ASSUME Inv, UNCHANGED scenario, TimerFires
    PROVE  Inv' /\ Owed
<1> DEFINE K == Kinds(s)
           p == [s EXCEPT !.timer = None]
<1>1. s \in Loose /\ Good(s, K, auto, scenario.waits) /\ s.timer # None
  BY Loosely DEF Inv, TimerFires
<1>2. /\ s' = p \/ (Idle(s) /\ s' = Awaits(p, "audit"))
      /\ s'.followUps <= scenario.followUps /\ UNCHANGED <<auto, bg, used>>
  BY DEF TimerFires, Becomes, Auditable
<1>3. /\ p \in Loose /\ p.tasks = s.tasks /\ SameSession(s, p) /\ SameOutcome(s, p)
      /\ p.timer = None
  BY <1>1 DEF Loose, SameSession, SameOutcome
<1> HIDE DEF p
<1>4. Kinds(p) = K
  BY <1>3 DEF Kinds
<1>5. Good(p, K, auto, scenario.waits)
  BY <1>1, <1>3, <1>4, Lasts
<1>6. CASE s' = p
  BY <1>2, <1>3, <1>5, <1>6, StepInv, SameOwed DEF Inv, TypeOK, SameOutcome
<1>7. CASE Idle(s) /\ s' = Awaits(p, "audit")
  <2> DEFINE L == K \cup {"audit"}
             q == Awaits(p, "audit")
  <2>1. /\ q \in Loose /\ SameSession(p, q) /\ SameOutcome(p, q) /\ q.timer = None
        /\ Kinds(q) = L
    BY <1>3, <1>4, AwaitsFields
  <2> HIDE DEF q
  <2>2. /\ Active(q) = Active(s) /\ Held(q) = Held(s) /\ q.fg = "idle" /\ q.sends = s.sends
        /\ q.cont = s.cont
    BY <1>3, <1>7, <2>1 DEF SameSession, SameOutcome, Active, Held, Idle
  <2>3. Timely(q, auto) /\ Counts(q)
    BY <1>3, <1>5, <2>1 DEF Good, Timely, Counts, SameSession, SameOutcome
  <2>4. Between(q, L, scenario.waits) /\ Rested(q, L) /\ Judged(q, L)
    BY <1>3, <1>5, <1>7, <2>1, <2>2
       DEF Good, Between, Rested, Judged, Settling, SameSession, SameOutcome
  <2>5. ~Pending(s, K)
    BY <1>1, <1>7 DEF Pending, Idle
  <2>6. Counted(q, L)
    BY <1>1, <2>2, <2>5 DEF Good, Counted
  <2>7. Good(q, L, auto, scenario.waits)
    BY <2>1, <2>3, <2>4, <2>6 DEF Good
  <2>8. QED
    BY <1>2, <1>7, <2>1, <2>2, <2>7, StepInv, SameOwed DEF Inv, TypeOK, q
<1>8. QED
  BY <1>2, <1>6, <1>7

\* A turn is to begin in an idle session.
LEMMA BegunGood ==
    ASSUME NEW p \in Loose, NEW K, NEW a, NEW w, Good(p, K, a, w), Idle(p)
    PROVE  LET q == [p EXCEPT !.fg = "starting"] IN
           /\ q \in Loose /\ Good(q, K, a, w) /\ q.cont = p.cont /\ q.sends = p.sends
           /\ q.followUps = p.followUps
<1> DEFINE q == [p EXCEPT !.fg = "starting"]
<1>1. /\ q \in Loose /\ q.fg = "starting" /\ q.tasks = p.tasks
      /\ q.goal = p.goal /\ q.perm = p.perm /\ q.queued = p.queued /\ q.timer = p.timer
      /\ q.cont = p.cont /\ q.evidence = p.evidence /\ q.sends = p.sends
      /\ q.followUps = p.followUps
  BY DEF Loose
<1> HIDE DEF q
<1>2. Kinds(q) = Kinds(p)
  BY <1>1 DEF Kinds
<1>3. Timely(q, a) /\ Between(q, K, w) /\ Counts(q) /\ Rested(q, K)
  BY <1>1 DEF Good, Timely, Between, Counts, Rested, Active
<1>4. Judged(q, K)
  <2>1. p.sends = 0 => p.sends <= 1
    OBVIOUS
  <2>2. QED
    BY <1>1, <2>1 DEF Good, Judged, Idle
<1>5. Counted(q, K)
  BY <1>1 DEF Good, Counted, Pending, Active, Held
<1>6. QED
  BY <1>1, <1>2, <1>3, <1>4, <1>5 DEF Good, q

LEMMA HeardGood ==
    ASSUME NEW p \in Loose, NEW K, NEW a, NEW w, Good(p, K, a, w)
    PROVE  LET q == Heard(p) IN
           /\ q \in Loose /\ Good(q, K, a, w) /\ q.fg = p.fg
           /\ \/ q.cont = p.cont /\ q.sends = p.sends
              \/ ~p.cont.blocked /\ q.sends = 0
<1> DEFINE n == NewExecution(p)
           c == ClearIdle(n)
           d == Progress(c)
<1>1. CASE Heard(p) = p
  BY <1>1
<1>2. CASE Heard(p) = d /\ ~Held(p)
  <2>1. /\ n \in Loose /\ n.goal = p.goal /\ n.perm = p.perm /\ n.fg = p.fg
        /\ n.queued = p.queued /\ n.evidence = None /\ Kinds(n) = {}
    BY NewExecutionFields
  <2> HIDE DEF n
  <2>2. /\ c \in Loose /\ SameSession(n, c) /\ SameOutcome(n, c) /\ c.timer = None
        /\ Kinds(c) = {}
    BY <2>1, ClearIdleFields
  <2> HIDE DEF c
  <2>3. /\ d \in Loose /\ SameSession(c, d) /\ d.evidence = c.evidence
        /\ d.cont = Fresh /\ d.sends = 0 /\ d.timer = None /\ Kinds(d) = {}
    BY <2>2, ProgressFields
  <2> HIDE DEF d
  <2>4. Timely(d, a) /\ Between(d, {}, w)
    BY <2>1, <2>2, <2>3 DEF Good, Timely, Between, Settling, SameSession
  <2>5. Timely(d, a) /\ Between(d, K, w)
    BY <2>1, <2>2, <2>3, <2>4 DEF Good, Between, SameSession
  <2>6. Good(d, K, a, w)
    BY <2>1, <2>2, <2>3, <2>5, Anew DEF SameOutcome
  <2>7. QED
    BY <1>2, <2>1, <2>2, <2>3, <2>6 DEF SameSession, Held
<1>3. QED
  BY <1>1, <1>2 DEF Heard

LEMMA InputStep ==
    ASSUME Inv, UNCHANGED scenario, Input \/ Triggered
    PROVE  Inv' /\ Owed
<1> DEFINE K == Kinds(s)
           h == Heard(s)
<1>1. s \in Loose /\ Good(s, K, auto, scenario.waits) /\ s.sends \in Nat
  BY Loosely, Numbers DEF Inv
<1>2. CASE Triggered
  <2>1. /\ s' = [s EXCEPT !.fg = "starting"] /\ Idle(s)
        /\ s'.followUps <= scenario.followUps /\ UNCHANGED <<auto, bg, used>>
    BY <1>2 DEF Triggered, Becomes
  <2>2. /\ s' \in Loose /\ Good(s', K, auto, scenario.waits)
        /\ s'.cont = s.cont /\ s'.sends = s.sends
    BY <1>1, <2>1, BegunGood
  <2>3. QED
    BY <2>1, <2>2, StepInv, SameOwed DEF Inv, TypeOK
<1>3. CASE Input
  <2>1. /\ h \in Loose /\ Good(h, K, auto, scenario.waits) /\ h.fg = s.fg
        /\ \/ h.cont = s.cont /\ h.sends = s.sends
           \/ ~s.cont.blocked /\ h.sends = 0
    BY <1>1, HeardGood
  <2>2. /\ s' = [h EXCEPT !.fg = IF h.fg = "idle" THEN "starting" ELSE h.fg]
        /\ s'.followUps <= scenario.followUps /\ UNCHANGED <<auto, bg, used>>
    BY <1>3 DEF Input, Becomes
  <2> HIDE DEF h
  <2>3. CASE h.fg = "idle"
    <3>1. s' = [h EXCEPT !.fg = "starting"]
      BY <2>2, <2>3
    <3>2. /\ s' \in Loose /\ Good(s', K, auto, scenario.waits)
          /\ s'.cont = h.cont /\ s'.sends = h.sends
      BY <2>1, <2>3, <3>1, BegunGood DEF Idle
    <3>3. Follows(s, s')
      BY <1>1, <2>1, <3>2 DEF Follows
    <3>4. QED
      BY <2>2, <3>2, <3>3, StepInv, FollowsOwed DEF Inv, TypeOK
  <2>4. CASE h.fg # "idle"
    <3>1. s' = h
      BY <2>1, <2>2, <2>4 DEF Loose
    <3>2. Follows(s, s')
      BY <1>1, <2>1, <3>1 DEF Follows
    <3>3. QED
      BY <2>1, <2>2, <3>1, <3>2, StepInv, FollowsOwed DEF Inv, TypeOK
  <2>5. QED
    BY <2>3, <2>4
<1>4. QED
  BY <1>2, <1>3

\* The last continuation is the turn that starts.
LEMMA AgentStartStep ==
    ASSUME Inv, UNCHANGED scenario, AgentStart
    PROVE  Inv' /\ Owed
<1> DEFINE K == Kinds(s)
           r == [s EXCEPT !.fg = "running"]
           n == NewExecution(r)
           c == ClearIdle(n)
           retried == c.retried \/ (Active(s) /\ s.perm.retry)
           m == [c EXCEPT !.current = TRUE, !.queued = None, !.retried = retried]
           q == Awaits(m, "look")
<1>1. s \in Loose /\ Good(s, K, auto, scenario.waits) /\ s.fg = "starting"
  BY Loosely DEF Inv, AgentStart
<1>2. s' = q /\ s'.followUps <= scenario.followUps /\ UNCHANGED <<auto, bg, used>>
  BY DEF AgentStart, Becomes
<1>3. /\ r \in Loose /\ r.goal = s.goal /\ r.perm = s.perm /\ r.cont = s.cont
      /\ r.sends = s.sends /\ r.fg = "running"
  BY <1>1 DEF Loose
<1> HIDE DEF r
<1>4. /\ n \in Loose /\ n.goal = s.goal /\ n.perm = s.perm /\ n.cont = s.cont
      /\ n.sends = s.sends /\ n.fg = "running" /\ n.evidence = None /\ Kinds(n) = {}
  BY <1>3, NewExecutionFields
<1> HIDE DEF n
<1>5. /\ c \in Loose /\ c.goal = s.goal /\ c.perm = s.perm /\ c.cont = s.cont
      /\ c.sends = s.sends /\ c.fg = "running" /\ c.evidence = None /\ Kinds(c) = {}
      /\ c.timer = None
  BY <1>4, ClearIdleFields DEF SameSession, SameOutcome
<1> HIDE DEF c
<1>6. retried \in BOOLEAN
  BY <1>1, <1>5 DEF Loose, Permission
<1> HIDE DEF retried
<1>7. /\ m \in Loose /\ m.goal = s.goal /\ m.perm = s.perm /\ m.cont = s.cont
      /\ m.sends = s.sends /\ m.fg = "running" /\ m.evidence = None /\ m.tasks = c.tasks
      /\ m.timer = None /\ m.current = TRUE /\ m.queued = None
  BY <1>5, <1>6 DEF Loose
<1> HIDE DEF m
<1>8. Kinds(m) = {}
  BY <1>5, <1>7 DEF Kinds
<1>9. /\ q \in Loose /\ q.goal = s.goal /\ q.perm = s.perm /\ q.cont = s.cont
      /\ q.sends = s.sends /\ q.fg = "running" /\ q.evidence = None /\ Kinds(q) = {"look"}
      /\ q.timer = None /\ q.current = TRUE /\ q.queued = None
  BY <1>7, <1>8, AwaitsFields DEF SameSession, SameOutcome
<1> HIDE DEF q
<1> DEFINE L == {"look"}
<1>10. Timely(q, auto) /\ Between(q, L, scenario.waits) /\ Rested(q, L) /\ Judged(q, L)
  BY <1>9 DEF Timely, Between, Rested, Judged, Settling
<1>11. Counts(q) /\ Counted(q, L)
  <2>1. Active(q) = Active(s) /\ Held(q) = Held(s) /\ Pending(q, L)
    BY <1>9 DEF Active, Held, Pending
  <2>2. QED
    BY <1>1, <1>9, <2>1 DEF Good, Counts, Counted
<1>12. Good(q, L, auto, scenario.waits)
  BY <1>9, <1>10, <1>11 DEF Good
<1>13. QED
  BY <1>2, <1>9, <1>12, StepInv, SameOwed DEF Inv, TypeOK

LEMMA FollowUpStep ==
    ASSUME Inv, UNCHANGED scenario, FollowUp
    PROVE  Inv' /\ Owed
<1> DEFINE n == s.followUps - 1
           q == [s EXCEPT !.followUps = n]
<1>1. s \in Loose /\ Good(s, Kinds(s), auto, scenario.waits) /\ s.followUps > 0
  BY Loosely DEF Inv, FollowUp
<1>2. n \in Nat
  BY <1>1 DEF Loose
<1>3. s' = q /\ s'.followUps <= scenario.followUps /\ UNCHANGED <<auto, bg, used>>
  BY DEF FollowUp, Becomes
<1> HIDE DEF n
<1>4. /\ q \in Loose /\ q.tasks = s.tasks /\ SameSession(s, q) /\ SameOutcome(s, q)
      /\ q.timer = s.timer
  BY <1>1, <1>2 DEF Loose, SameSession, SameOutcome
<1> HIDE DEF q
<1>5. Kinds(q) = Kinds(s)
  BY <1>4 DEF Kinds
<1>6. Good(q, Kinds(s), auto, scenario.waits)
  BY <1>1, <1>4, <1>5, Lasts
<1>7. QED
  BY <1>3, <1>4, <1>6, StepInv, SameOwed DEF Inv, TypeOK, SameOutcome

LEMMA InterruptedGood ==
    ASSUME NEW p \in Loose, NEW K, NEW a, NEW w, Good(p, K, a, w)
    PROVE  LET q == Interrupted(p) IN
           /\ q \in Loose /\ Good(q, Kinds(q), a, w) /\ q.cont = p.cont /\ q.sends = p.sends
<1>1. CASE Interrupted(p) = p
  BY <1>1, Shrinks
<1>2. CASE Active(p)
  <2> DEFINE g == With(p.goal, "paused", IF p.cont.blocked THEN "none" ELSE "interrupt")
  <2>1. Interrupted(p) = SetGoal(p, g)
    BY <1>2 DEF Interrupted
  <2>2. g \in GoalState /\ g.status = "paused"
    BY <1>2, WithFields DEF Active, Loose, Reason
  <2> HIDE DEF g
  <2>3. Good(SetGoal(p, g), {}, a, w) /\ SetGoal(p, g).cont = p.cont
    BY <2>2, Stopped DEF Good
  <2>4. SetGoal(p, g) \in Loose /\ SetGoal(p, g).sends = p.sends
    BY <2>2, SetGoalFields
  <2>5. QED
    BY <2>1, <2>3, <2>4, Shrinks
<1>3. QED
  BY <1>1, <1>2 DEF Interrupted

\* A turn that showed the same is counted when it settles; another one was progress.
LEMMA EndedGood ==
    ASSUME NEW p \in Loose, NEW K, NEW a, NEW w, Good(p, K, a, w), p.fg = "running",
           NEW e \in Evidence
    PROVE  LET q == Ended(p, e) IN
           /\ q \in Loose /\ Good(q, K, a, w) /\ q.cont = p.cont
           /\ q.sends = p.sends \/ q.sends = 0
<1> DEFINE shown == IF p.current THEN e ELSE None
           sends == IF e = p.cont.sig THEN p.sends ELSE 0
           q == [p EXCEPT !.fg = "ended", !.evidence = shown, !.sends = sends]
<1>1. shown \in Evidence \cup {None} /\ sends \in 0 .. MaxSends /\ e # None
  BY GoalAssumption DEF Loose
<1>2. Ended(p, e) = q
  BY DEF Ended
<1>3. /\ shown # None => p.current /\ shown = e
      /\ p.current => shown = e
      /\ e # p.cont.sig => sends = 0
      /\ sends = p.sends \/ sends = 0
  OBVIOUS
<1>s. e = p.cont.sig => sends = p.sends
  OBVIOUS
<1> HIDE DEF shown, sends
<1>4. /\ q \in Loose /\ q.tasks = p.tasks /\ q.fg = "ended" /\ q.evidence = shown
      /\ q.sends = sends /\ q.goal = p.goal /\ q.perm = p.perm /\ q.cont = p.cont
      /\ q.timer = p.timer /\ q.queued = p.queued
  BY <1>1 DEF Loose
<1> HIDE DEF q
<1>5. Kinds(q) = Kinds(p) /\ Active(q) = Active(p) /\ Held(q) = Held(p)
  BY <1>4 DEF Kinds, Active, Held
<1>6. /\ p.sends \in Nat /\ p.cont.retries \in Nat /\ Most \in Nat
  BY Numbers, MostType
<1>7. Timely(q, a) /\ Between(q, K, w) /\ Rested(q, K)
  BY <1>3, <1>4, <1>5 DEF Good, Timely, Between, Rested
<1>8. Judged(q, K)
  BY <1>3, <1>4 DEF Judged
<1>9. Counts(q)
  BY <1>3, <1>4, <1>6 DEF Good, Counts
<1>10. Counted(q, K)
  <2>1. CASE sends = 0
    BY <1>4, <1>6, <2>1 DEF Counted
  <2>2. CASE sends # 0
    <3>1. e = p.cont.sig /\ sends = p.sends
      BY <1>3, <1>s, <2>2
    <3>2. Pending(p, K) => Pending(q, K)
      BY <1>1, <1>3, <1>4, <3>1 DEF Pending
    <3>3. QED
      BY <1>4, <1>5, <3>1, <3>2 DEF Good, Counted
  <2>3. QED
    BY <2>1, <2>2
<1>11. QED
  BY <1>2, <1>3, <1>4, <1>5, <1>7, <1>8, <1>9, <1>10 DEF Good

LEMMA AgentEndStep ==
    ASSUME Inv, UNCHANGED scenario,
           NEW e \in scenario.evidence, NEW aborted \in BOOLEAN, AgentEnd(e, aborted)
    PROVE  Inv' /\ Owed
<1> DEFINE p == Ended(s, e)
<1>1. /\ s \in Loose /\ Good(s, Kinds(s), auto, scenario.waits) /\ s.fg = "running"
  BY Loosely DEF Inv, AgentEnd
<1>2. e \in Evidence
  BY DEF Inv, Scenario
<1>3. /\ s' = p \/ s' = Interrupted(p)
      /\ s'.followUps <= scenario.followUps /\ UNCHANGED <<auto, bg, used>>
  BY DEF AgentEnd, Becomes
<1>4. /\ p \in Loose /\ Good(p, Kinds(s), auto, scenario.waits) /\ p.cont = s.cont
      /\ p.sends = s.sends \/ p.sends = 0
  BY <1>1, <1>2, EndedGood
<1> HIDE DEF p
<1>5. CASE s' = p
  BY <1>3, <1>4, <1>5, StepInv, SameOwed DEF Inv, TypeOK
<1>6. CASE s' = Interrupted(p)
  <2>1. /\ s' \in Loose /\ Good(s', Kinds(s'), auto, scenario.waits)
        /\ s'.cont = p.cont /\ s'.sends = p.sends
    BY <1>4, <1>6, InterruptedGood
  <2>2. QED
    BY <1>3, <1>4, <2>1, StepInv, SameOwed DEF Inv, TypeOK
<1>7. QED
  BY <1>3, <1>5, <1>6

LEMMA AgentSettledStep ==
    ASSUME Inv, UNCHANGED scenario, AgentSettled
    PROVE  Inv' /\ Owed
<1> DEFINE K == Kinds(s)
           L == {"settled"}
           n == NewExecution(s)
           m == [n EXCEPT !.evidence = s.evidence, !.fg = "idle"]
           q == Awaits(m, "settled")
<1>1. /\ s \in Loose /\ Good(s, K, auto, scenario.waits) /\ s.fg = "ended"
      /\ s.evidence \in Evidence \cup {None}
  BY Loosely DEF Inv, AgentSettled, Loose
<1>2. s' = q /\ s'.followUps <= scenario.followUps /\ UNCHANGED <<auto, bg, used>>
  BY DEF AgentSettled, Becomes
<1>3. /\ n \in Loose /\ n.goal = s.goal /\ n.perm = s.perm /\ n.cont = s.cont
      /\ n.sends = s.sends /\ n.queued = s.queued /\ n.timer = s.timer /\ Kinds(n) = {}
  BY <1>1, NewExecutionFields
<1> HIDE DEF n
<1>4. /\ m \in Loose /\ m.goal = s.goal /\ m.perm = s.perm /\ m.cont = s.cont
      /\ m.sends = s.sends /\ m.queued = s.queued /\ m.timer = s.timer /\ m.tasks = n.tasks
      /\ m.fg = "idle" /\ m.evidence = s.evidence
  <2> DEFINE m0 == [n EXCEPT !.evidence = s.evidence]
  <2>1. m0 \in Loose
    BY <1>1, <1>3, WithEvidence
  <2>2. m = [m0 EXCEPT !.fg = "idle"]
    OBVIOUS
  <2>3. m \in Loose
    <3> HIDE DEF m0, m
    <3>1. QED
      BY <2>1, <2>2, WithPhase
  <2>4. /\ m.goal = n.goal /\ m.perm = n.perm /\ m.cont = n.cont /\ m.sends = n.sends
        /\ m.queued = n.queued /\ m.timer = n.timer /\ m.tasks = n.tasks
        /\ m.fg = "idle" /\ m.evidence = s.evidence
    BY <1>3 DEF Loose
  <2>5. QED
    BY <1>3, <2>3, <2>4
<1> HIDE DEF m
<1>5. Kinds(m) = {}
  BY <1>3, <1>4 DEF Kinds
<1>6. /\ q \in Loose /\ q.goal = s.goal /\ q.perm = s.perm /\ q.cont = s.cont
      /\ q.sends = s.sends /\ q.queued = s.queued /\ q.timer = s.timer /\ Kinds(q) = L
      /\ q.fg = "idle" /\ q.evidence = s.evidence
  BY <1>4, <1>5, AwaitsFields DEF SameSession, SameOutcome
<1> HIDE DEF q
<1>7. Active(q) = Active(s) /\ Held(q) = Held(s)
  BY <1>6 DEF Active, Held
<1>8. Timely(q, auto) /\ Between(q, L, scenario.waits) /\ Rested(q, L) /\ Counts(q)
  BY <1>1, <1>6, <1>7 DEF Good, Timely, Between, Rested, Counts
<1>9. Judged(q, L)
  BY <1>1, <1>6 DEF Good, Judged
<1>10. Counted(q, L)
  <2>1. Pending(s, K) => Pending(q, L)
    BY <1>1, <1>6 DEF Pending
  <2>2. QED
    BY <1>1, <1>6, <1>7, <2>1 DEF Good, Counted
<1>11. Good(q, L, auto, scenario.waits)
  BY <1>6, <1>8, <1>9, <1>10 DEF Good
<1>12. QED
  BY <1>2, <1>6, <1>11, StepInv, SameOwed DEF Inv, TypeOK

\* A goal that is set with nothing shown or awaited, and its first continuation
LEMMA QueueGood ==
    ASSUME NEW p \in Loose, p.goal # None, Kinds(p) = {}, p.evidence = None, Counts(p),
           NEW a, NEW w
    PROVE  LET q == Queue(p) IN
           /\ q \in Loose /\ Good(q, {}, a, w)
           /\ q.sends = p.sends \/ q.sends = 0
<1> DEFINE q == Queue(p)
<1>1. /\ q \in Loose
      /\ q.goal = p.goal /\ q.perm = p.perm /\ q.evidence = None
      /\ q.queued = p.goal.id /\ q.timer = None /\ Kinds(q) = {}
      /\ IF p.perm.blocker THEN q.cont = p.cont /\ q.sends = p.sends
                           ELSE q.cont = Fresh /\ q.sends = 0
  BY QueueFields
<1> HIDE DEF q
<1>2. Timely(q, a) /\ Between(q, {}, w) /\ Rested(q, {}) /\ Judged(q, {})
  BY <1>1 DEF Timely, Between, Rested, Judged, Settling
<1>3. CASE p.perm.blocker
  <2>1. Counts(q) /\ Counted(q, {})
    BY <1>1, <1>3 DEF Counts, Counted, Held
  <2>2. QED
    BY <1>1, <1>2, <1>3, <2>1 DEF Good, q
<1>4. CASE ~p.perm.blocker
  <2>1. Good(q, {}, a, w)
    BY <1>1, <1>2, <1>4, Anew
  <2>2. QED
    BY <1>1, <1>4, <2>1 DEF q
<1>5. QED
  BY <1>3, <1>4

LEMMA NewGoalStep ==
    ASSUME Inv, UNCHANGED scenario, NEW g \in Goal, NewGoal(g)
    PROVE  Inv' /\ Owed
<1> DEFINE p0 == [s EXCEPT !.perm = NoHold, !.retried = FALSE]
           p == Progress(p0)
           new == [id |-> g, status |-> "active", reason |-> "none"]
           set == SetGoal(p, new)
<1>1. s \in Loose /\ s.sends \in Nat
  BY Loosely, Numbers DEF Inv
<1>2. /\ s' = Invoke(set) \/ s' = Queue(set)
      /\ s'.followUps <= scenario.followUps
      /\ UNCHANGED <<auto, bg>> /\ used' = used \cup {g}
  BY DEF NewGoal, Becomes
<1>3. p0 \in Loose
  <2>1. NoHold \in Permission
    BY DEF NoHold, Permission
  <2>2. QED
    BY <1>1, <2>1 DEF Loose
<1> HIDE DEF p0
<1>4. p \in Loose /\ p.sends = 0 /\ p.cont = Fresh
  BY <1>3, ProgressFields
<1> HIDE DEF p
<1>5. new \in GoalState /\ new # None
  BY NoneAssumption DEF GoalState, Reason
<1> HIDE DEF new
<1>6. /\ set \in Loose /\ set.goal # None /\ set.cont = Fresh /\ set.sends = 0
      /\ set.evidence = None /\ set.queued = None /\ set.timer = None /\ Kinds(set) = {}
  <2>1. new \in GoalState \cup {None}
    BY <1>5
  <2> HIDE DEF set
  <2>2. LET q == SetGoal(p, new) IN
        /\ q \in Loose
        /\ q.goal = None <=> new = None
        /\ q.queued = None /\ q.cont = p.cont /\ q.sends = p.sends /\ q.timer = None
        /\ q.evidence = None /\ Kinds(q) = {}
    BY <1>4, <2>1, SetGoalFields
  <2>3. QED
    BY <1>4, <1>5, <2>2 DEF set
<1> HIDE DEF set
<1>7. s' \in Loose /\ Good(s', {}, auto, scenario.waits) /\ s'.sends = 0
  <2>1. CASE s' = Invoke(set)
    <3>1. /\ s' \in Loose /\ s'.cont = Fresh /\ s'.sends = 0 /\ s'.evidence = None
          /\ s'.queued = None /\ s'.timer = None /\ Kinds(s') = {}
      BY <1>6, <2>1, InvokeFields DEF SameOutcome
    <3>2. Timely(s', auto) /\ Between(s', {}, scenario.waits)
      BY <3>1 DEF Timely, Between, Settling
    <3>3. QED
      BY <3>1, <3>2, Anew
  <2>2. CASE s' = Queue(set)
    <3>1. Counts(set)
      BY <1>6, MostType DEF Counts, Fresh
    <3>2. QED
      BY <1>6, <2>2, <3>1, QueueGood
  <2>3. QED
    BY <1>2, <2>1, <2>2
<1>8. Inv'
  BY <1>2, <1>7, StepInv DEF Inv, TypeOK
<1>9. Owed
  <2>1. ~(s'.sends > s.sends)
    BY <1>1, <1>7
  <2>2. QED
    BY <2>1 DEF Owed
<1>10. QED
  BY <1>8, <1>9

LEMMA ResumeStep ==
    ASSUME Inv, UNCHANGED scenario, NEW tool \in BOOLEAN, Resume(tool)
    PROVE  Inv' /\ Owed
<1> DEFINE perm == [s.perm EXCEPT !.retry = s.perm.blocker]
           p == [s EXCEPT !.perm = perm, !.retried = FALSE]
           g == With(s.goal, "active", "none")
           set == SetGoal(p, g)
<1>1. s \in Loose /\ s.sends \in Nat /\ Counts(s) /\ s.goal # None
  BY Loosely, Numbers DEF Inv, Good, Resume
<1>2. perm \in Permission
  BY <1>1 DEF Loose, Permission
<1>3. /\ s' = Queue(set) /\ s'.followUps <= scenario.followUps
      /\ UNCHANGED <<auto, bg, used>>
  BY DEF Resume, Becomes
<1> HIDE DEF perm
<1>4. p \in Loose /\ p.sends = s.sends /\ p.cont = s.cont
  BY <1>1, <1>2 DEF Loose
<1> HIDE DEF p
<1>5. g \in GoalState
  BY <1>1, WithFields DEF Loose, Reason
<1> HIDE DEF g
<1>6. /\ set \in Loose /\ set.goal # None /\ set.cont = s.cont /\ set.sends = s.sends
      /\ set.evidence = None /\ Kinds(set) = {}
  <2>1. g # None
    BY <1>5, NoneAssumption
  <2>2. /\ SetGoal(p, g) \in Loose
        /\ SetGoal(p, g).goal = None <=> g = None
        /\ SetGoal(p, g).cont = p.cont /\ SetGoal(p, g).sends = p.sends
        /\ SetGoal(p, g).evidence = None /\ Kinds(SetGoal(p, g)) = {}
    BY <1>4, <1>5, SetGoalFields
  <2>3. QED
    BY <1>4, <2>1, <2>2
<1> HIDE DEF set
<1>7. Counts(set)
  BY <1>1, <1>6 DEF Counts
<1>8. /\ s' \in Loose /\ Good(s', {}, auto, scenario.waits)
      /\ s'.sends = s.sends \/ s'.sends = 0
  BY <1>3, <1>6, <1>7, QueueGood
<1>9. Inv'
  BY <1>3, <1>8, StepInv DEF Inv, TypeOK
<1>10. Owed
  <2>1. ~(s'.sends > s.sends)
    BY <1>1, <1>8
  <2>2. QED
    BY <2>1 DEF Owed
<1>11. QED
  BY <1>9, <1>10

\* A goal is paused, cleared or completed, by a step that may note a hold for it.
LEMMA StopStep ==
    ASSUME Inv, UNCHANGED <<scenario, auto, bg, used>>, s'.followUps <= scenario.followUps,
           NEW p \in Loose, p.cont = s.cont, p.sends = s.sends,
           NEW g \in GoalState \cup {None}, g = None \/ g.status # "active",
           s' = SetGoal(p, g)
    PROVE  Inv' /\ Owed
<1>1. Counts(p)
  BY DEF Inv, Good, Counts
<1>2. Good(s', {}, auto, scenario.waits) /\ s'.cont = s.cont
  BY <1>1, Stopped
<1>3. SetGoal(p, g) \in Loose /\ SetGoal(p, g).sends = p.sends
  BY SetGoalFields
<1>4. QED
  BY <1>2, <1>3, StepInv, SameOwed DEF Inv, TypeOK

LEMMA PauseStep ==
    ASSUME Inv, UNCHANGED scenario, NEW interrupt \in BOOLEAN, Pause(interrupt)
    PROVE  Inv' /\ Owed
<1>1. s \in Loose /\ Good(s, Kinds(s), auto, scenario.waits) /\ Active(s)
  BY Loosely DEF Inv, Pause
<1>2. s'.followUps <= scenario.followUps /\ UNCHANGED <<auto, bg, used>>
  BY DEF Pause, Becomes
<1>3. CASE interrupt
  <2>1. s' = Interrupted(s)
    BY <1>3 DEF Pause, Becomes
  <2>2. /\ s' \in Loose /\ Good(s', Kinds(s'), auto, scenario.waits)
        /\ s'.cont = s.cont /\ s'.sends = s.sends
    BY <1>1, <2>1, InterruptedGood
  <2>3. QED
    BY <1>2, <2>2, StepInv, SameOwed DEF Inv, TypeOK
<1>4. CASE ~interrupt
  <2> DEFINE g == With(s.goal, "paused", "none")
  <2>1. s' = SetGoal(s, g)
    BY <1>4 DEF Pause, Becomes
  <2>2. g \in GoalState /\ g.status = "paused"
    BY <1>1, WithFields DEF Active, Loose, Reason
  <2> HIDE DEF g
  <2>3. QED
    BY <1>1, <1>2, <2>1, <2>2, StopStep
<1>5. QED
  BY <1>3, <1>4

LEMMA FinishStep ==
    ASSUME Inv, UNCHANGED scenario, Finish
    PROVE  Inv' /\ Owed
<1>1. s \in Loose /\ s.goal # None
  BY Loosely DEF Inv, Finish
<1>2. s'.followUps <= scenario.followUps /\ UNCHANGED <<auto, bg, used>>
  BY DEF Finish, Becomes
<1> DEFINE g == With(s.goal, "complete", "none")
<1>3. s' = SetGoal(s, None) \/ s' = SetGoal(s, g)
  BY DEF Finish, Becomes
<1>4. g \in GoalState /\ g.status = "complete"
  BY <1>1, WithFields DEF Loose, Reason
<1> HIDE DEF g
<1>5. CASE s' = SetGoal(s, None)
  BY <1>1, <1>2, <1>5, StopStep
<1>6. CASE s' = SetGoal(s, g)
  BY <1>1, <1>2, <1>4, <1>6, StopStep
<1>7. QED
  BY <1>3, <1>5, <1>6

LEMMA ToolResultStep ==
    ASSUME Inv, UNCHANGED scenario,
           NEW reported \in BOOLEAN, NEW known \in BOOLEAN, NEW gap \in BOOLEAN,
           ToolResult(reported, known, gap)
    PROVE  Inv' /\ Owed
<1> DEFINE appended == reported /\ ~s.perm.full /\ ~(known /\ s.perm.blocker /\ ~s.perm.retry)
           gapped == gap /\ ~s.perm.full
           perm == [blocker |-> s.perm.blocker \/ appended, retry |-> FALSE,
                    full |-> s.perm.full \/ gapped]
           noted == [s EXCEPT !.perm = perm]
           g == With(s.goal, "paused", "permission")
<1>1. s \in Loose /\ Good(s, Kinds(s), auto, scenario.waits) /\ s.goal # None
  BY Loosely DEF Inv, ToolResult
<1>2. perm \in Permission
  BY <1>1 DEF Loose, Permission
<1>3. /\ s'.followUps <= scenario.followUps /\ UNCHANGED <<auto, bg, used>>
      /\ (s.goal.status = "paused" /\ s' = noted) \/ s' = SetGoal(noted, g)
  BY DEF ToolResult, Becomes
<1> HIDE DEF perm
<1>4. /\ noted \in Loose /\ noted.goal = s.goal /\ noted.cont = s.cont
      /\ noted.sends = s.sends /\ noted.fg = s.fg /\ noted.timer = s.timer
      /\ noted.queued = s.queued /\ noted.evidence = s.evidence /\ noted.tasks = s.tasks
  BY <1>1, <1>2 DEF Loose
<1> HIDE DEF noted
<1>5. g \in GoalState /\ g.status = "paused"
  BY <1>1, WithFields DEF Loose, Reason
<1> HIDE DEF g
<1>6. CASE s' = SetGoal(noted, g)
  BY <1>3, <1>4, <1>5, <1>6, StopStep
<1>7. CASE s.goal.status = "paused" /\ s' = noted
  <2>1. ~Active(s) /\ ~Active(noted) /\ Kinds(noted) = Kinds(s)
    BY <1>4, <1>7 DEF Active, Kinds
  <2>2. Timely(noted, auto) /\ Between(noted, Kinds(s), scenario.waits)
    BY <1>1, <1>4, <2>1 DEF Good, Timely, Between
  <2>3. /\ Rested(noted, Kinds(s)) /\ Judged(noted, Kinds(s))
        /\ Counts(noted) /\ Counted(noted, Kinds(s))
    BY <1>1, <1>4, <2>1 DEF Good, Rested, Judged, Counts, Counted
  <2>4. Good(noted, Kinds(s), auto, scenario.waits)
    BY <1>4, <2>1, <2>2, <2>3 DEF Good
  <2>5. QED
    BY <1>3, <1>4, <1>7, <2>4, StepInv, SameOwed DEF Inv, TypeOK
<1>8. QED
  BY <1>3, <1>6, <1>7

\* Nothing is pending, and nothing has been sent.
LEMMA ClearedGood ==
    ASSUME NEW p \in Loose, NEW K, NEW a, NEW w, Good(p, K, a, w),
           NEW q \in Loose, q.goal = p.goal, q.cont = p.cont, q.sends = 0, q.timer = None,
           q.queued \in {p.queued, None}, NEW L, NEW b, Kinds(q) \subseteq L,
           Between(q, L, w)
    PROVE  Good(q, L, b, w)
<1>1. Timely(q, b)
  BY DEF Good, Timely
<1>2. Counts(q) /\ Counted(q, L) /\ Rested(q, L) /\ Judged(q, L)
  BY Numbers, MostType DEF Good, Counts, Counted, Rested, Judged
<1>3. QED
  BY <1>1, <1>2 DEF Good

LEMMA SetAutoStep ==
    ASSUME Inv, UNCHANGED scenario, SetAuto
    PROVE  Inv' /\ Owed
<1> DEFINE c == ClearIdle(s)
           p == [c EXCEPT !.sends = 0]
           q == Awaits(p, "enable")
           L == Kinds(s) \cup {"enable"}
<1>1. /\ s \in Loose /\ Good(s, Kinds(s), auto, scenario.waits)
      /\ auto \in BOOLEAN /\ bg \in BOOLEAN /\ used \subseteq Goal
  BY Loosely DEF Inv, TypeOK
<1>2. /\ s' = p \/ s' = q
      /\ s'.followUps <= scenario.followUps /\ auto' = ~auto /\ UNCHANGED <<bg, used>>
  BY DEF SetAuto, Becomes
<1>3. /\ c \in Loose /\ SameSession(s, c) /\ SameOutcome(s, c)
      /\ c.timer = None /\ Kinds(c) = Kinds(s)
  BY <1>1, ClearIdleFields
<1> HIDE DEF c
<1>4. /\ p \in Loose /\ SameSession(s, p) /\ p.cont = s.cont /\ p.sends = 0
      /\ p.timer = None /\ p.tasks = c.tasks
  BY <1>3, GoalAssumption DEF Loose, SameSession, SameOutcome
<1> HIDE DEF p
<1>5. Kinds(p) = Kinds(s)
  BY <1>3, <1>4 DEF Kinds
<1>6. /\ q \in Loose /\ SameSession(s, q) /\ q.cont = s.cont /\ q.sends = 0
      /\ q.timer = None /\ Kinds(q) = L
  BY <1>4, <1>5, AwaitsFields DEF SameSession, SameOutcome
<1> HIDE DEF q
<1>7. \A r \in {p, q} : Between(r, L, scenario.waits) /\ Kinds(r) \subseteq L
  BY <1>1, <1>4, <1>5, <1>6 DEF Good, Between, Settling, SameSession
<1>8. Good(p, L, auto', scenario.waits)
  BY <1>1, <1>4, <1>7, ClearedGood DEF SameSession
<1>9. Good(q, L, auto', scenario.waits)
  BY <1>1, <1>6, <1>7, ClearedGood DEF SameSession
<1>10. s' \in Loose /\ Good(s', L, auto', scenario.waits) /\ s'.cont = s.cont /\ s'.sends = 0
  BY <1>2, <1>4, <1>6, <1>8, <1>9
<1>11. auto' \in BOOLEAN /\ bg' \in BOOLEAN /\ used' \subseteq Goal
  BY <1>1, <1>2
<1>12. QED
  BY <1>2, <1>10, <1>11, StepInv, SameOwed

LEMMA ReloadStep ==
    ASSUME Inv, UNCHANGED scenario, Reload
    PROVE  Inv' /\ Owed
<1> DEFINE n == NewExecution(s)
           c == ClearIdle(n)
           p == [c EXCEPT !.fg = "idle", !.followUps = 0, !.queued = None, !.tracker = None,
                          !.latest = None, !.tasks = <<>>, !.sends = 0]
           g == With(s.goal, "paused", "permission")
           L == {"restored"}
           w == scenario.waits
<1>1. s \in Loose /\ Good(s, Kinds(s), auto, w)
  BY Loosely DEF Inv
<1>2. /\ s' = Awaits(p, "restored") \/ (Active(s) /\ s' = Awaits(SetGoal(p, g), "restored"))
      /\ s'.followUps <= scenario.followUps /\ UNCHANGED <<auto, bg, used>>
  BY DEF Reload, Becomes
<1>3. n \in Loose /\ n.goal = s.goal /\ n.cont = s.cont
  BY <1>1, NewExecutionFields
<1> HIDE DEF n
<1>4. c \in Loose /\ c.goal = s.goal /\ c.cont = s.cont /\ c.timer = None
  BY <1>3, ClearIdleFields DEF SameSession, SameOutcome
<1> HIDE DEF c
<1>5. /\ p \in Loose /\ p.goal = s.goal /\ p.cont = s.cont /\ p.timer = None
      /\ p.sends = 0 /\ p.queued = None /\ p.fg = "idle" /\ p.tasks = <<>>
  <2>1. 0 \in 0 .. MaxSends /\ <<>> \in Seq(Task)
    BY GoalAssumption
  <2> DEFINE p1 == [c EXCEPT !.fg = "idle", !.followUps = 0, !.queued = None]
             p2 == [p1 EXCEPT !.tracker = None, !.latest = None]
             p3 == [p2 EXCEPT !.tasks = <<>>, !.sends = 0]
  <2>2. p = p3
    BY <1>4 DEF Loose
  <2>3. /\ p1 \in Loose /\ p1.goal = s.goal /\ p1.cont = s.cont /\ p1.timer = None
        /\ p1.queued = None /\ p1.fg = "idle"
    <3> DEFINE c1 == [c EXCEPT !.fg = "idle"]
               c2 == [c1 EXCEPT !.followUps = 0]
    <3>1. c1 \in Loose
      BY <1>4, WithPhase
    <3>2. c2 \in Loose
      <4> HIDE DEF c1
      <4>1. QED
        BY <3>1, WithFollowUps
    <3>3. p1 = [c2 EXCEPT !.queued = None]
      OBVIOUS
    <3>4. p1 \in Loose
      <4> HIDE DEF c2, p1
      <4>1. QED
        BY <3>2, <3>3, WithQueued
    <3>5. /\ p1.goal = c.goal /\ p1.cont = c.cont /\ p1.timer = c.timer
          /\ p1.queued = None /\ p1.fg = "idle"
      BY <1>4 DEF Loose
    <3>6. QED
      BY <1>4, <3>4, <3>5
  <2> HIDE DEF p1
  <2>4. /\ p2 \in Loose /\ p2.goal = s.goal /\ p2.cont = s.cont /\ p2.timer = None
        /\ p2.queued = None /\ p2.fg = "idle"
    BY <2>3 DEF Loose
  <2> HIDE DEF p2
  <2>5. /\ p3 \in Loose /\ p3.goal = s.goal /\ p3.cont = s.cont /\ p3.timer = None
        /\ p3.queued = None /\ p3.fg = "idle" /\ p3.sends = 0 /\ p3.tasks = <<>>
    BY <2>1, <2>4 DEF Loose
  <2> HIDE DEF p, p3
  <2>6. QED
    BY <2>2, <2>5
<1> HIDE DEF p
<1>6. Kinds(p) = {}
  BY <1>5 DEF Kinds
<1>7. CASE s' = Awaits(p, "restored")
  <2>1. /\ s' \in Loose /\ s'.goal = s.goal /\ s'.cont = s.cont /\ s'.timer = None
        /\ s'.sends = 0 /\ s'.queued = None /\ s'.fg = "idle" /\ Kinds(s') = L
    BY <1>5, <1>6, <1>7, AwaitsFields DEF SameSession, SameOutcome
  <2>2. Between(s', L, w)
    BY <2>1 DEF Between
  <2>3. Good(s', L, auto, w)
    BY <1>1, <2>1, <2>2, ClearedGood
  <2>4. QED
    BY <1>2, <2>1, <2>3, StepInv, SameOwed DEF Inv, TypeOK
<1>8. CASE Active(s) /\ s' = Awaits(SetGoal(p, g), "restored")
  <2> DEFINE r == SetGoal(p, g)
  <2>1. g \in GoalState /\ g.status = "paused"
    BY <1>1, <1>8, WithFields DEF Active, Loose, Reason
  <2> HIDE DEF g
  <2>2. Counts(p)
    BY <1>1, <1>5, MostType DEF Good, Counts
  <2>3. Good(r, {}, auto, w) /\ r.cont = s.cont
    BY <1>5, <2>1, <2>2, Stopped
  <2>4. r \in Loose /\ r.sends = 0 /\ r.timer = None /\ r.fg = "idle" /\ Kinds(r) = {}
    BY <1>5, <2>1, SetGoalFields
  <2>q. r.queued = None
    BY <1>5, <2>1, SetGoalFields
  <2> HIDE DEF r
  <2>5. s' = Awaits(r, "restored")
    BY <1>8 DEF r
  <2>6. /\ s' \in Loose /\ s'.goal = r.goal /\ s'.cont = r.cont /\ s'.timer = None
        /\ s'.sends = 0 /\ s'.queued = r.queued /\ s'.fg = "idle" /\ Kinds(s') = L
    BY <2>4, <2>5, AwaitsFields DEF SameSession, SameOutcome
  <2>7. Between(s', L, w)
    BY <2>6 DEF Between
  <2>8. Good(s', L, auto, w)
    BY <2>3, <2>4, <2>6, <2>7, ClearedGood
  <2>9. QED
    BY <1>2, <2>3, <2>6, <2>8, StepInv, SameOwed DEF Inv, TypeOK
<1>9. QED
  BY <1>2, <1>7, <1>8

-----------------------------------------------------------------------------
(* The theorems *)

LEMMA InitInv ==
    ASSUME Init
    PROVE  Inv
<1>1. Fresh \in Continuation /\ NoHold \in Permission /\ <<>> \in Seq(Task)
  BY MostType, GoalAssumption DEF Fresh, NoHold, Continuation, Permission
<1>2. s \in Loose /\ s.followUps = 0 /\ s.goal = None /\ s.timer = None /\ s.queued = None
  BY <1>1, GoalAssumption DEF Init, Loose
<1>3. /\ s.fg = "idle" /\ s.cont = Fresh /\ s.sends = 0 /\ s.evidence = None
      /\ s.tasks = <<>>
  BY DEF Init
<1>4. Kinds(s) = {}
  BY <1>3 DEF Kinds
<1>5. Timely(s, auto) /\ Between(s, {}, scenario.waits)
  BY <1>2, <1>3 DEF Timely, Between
<1>6. Good(s, Kinds(s), auto, scenario.waits)
  BY <1>2, <1>3, <1>4, <1>5, Anew
<1>7. s \in State
  BY <1>2, GoalAssumption, Tightly
<1>8. QED
  BY <1>6, <1>7, ScenarioAssumption DEF Init, Inv, TypeOK

LEMMA QuietStep ==
    ASSUME Inv, UNCHANGED <<scenario, s, auto, used>>, bg' \in BOOLEAN
    PROVE  Inv' /\ Owed
<1>1. (Good(s, Kinds(s), auto, scenario.waits))'
  BY DEF Inv, Good, Timely, Between, Rested, Judged, Counts, Counted, Pending, Settling,
         Kinds, Active, Held
<1>2. QED
  BY <1>1, SameOwed DEF Inv, TypeOK

LEMMA NextInv ==
    ASSUME Inv, [Next]_vars
    PROVE  Inv' /\ Owed
<1>1. CASE UNCHANGED vars
  BY <1>1, QuietStep DEF vars, moving, Inv, TypeOK
<1>2. CASE Next
  <2>1. UNCHANGED scenario
    BY <1>2 DEF Next
  <2>2. ASSUME NEW i \in 1 .. MaxTasks, Handles(i) PROVE Inv' /\ Owed
    <3>1. i \in DOMAIN s.tasks
      BY <2>2 DEF Handles
    <3>2. QED
      BY <2>1, <2>2, <3>1, ReadStep, SnapshotStep, SchedulerStep DEF Handles
  <2>3. CASE Poll \/ Look
    BY <2>1, <2>3, LookStep
  <2>4. CASE TimerFires
    BY <2>1, <2>4, TimerStep
  <2>5. CASE Input \/ Triggered
    BY <2>1, <2>5, InputStep
  <2>6. CASE AgentStart
    BY <2>1, <2>6, AgentStartStep
  <2>7. CASE FollowUp
    BY <2>1, <2>7, FollowUpStep
  <2>8. CASE AgentSettled
    BY <2>1, <2>8, AgentSettledStep
  <2>9. CASE Background
    <3>1. UNCHANGED <<s, auto, used>> /\ bg' = ~bg
      BY <2>9 DEF Background
    <3>2. QED
      BY <2>1, <3>1, QuietStep DEF Inv, TypeOK
  <2>10. ASSUME NEW e \in scenario.evidence, NEW aborted \in BOOLEAN, AgentEnd(e, aborted)
         PROVE  Inv' /\ Owed
    BY <2>1, <2>10, AgentEndStep
  <2>11. ASSUME NEW g \in Goal, NewGoal(g) PROVE Inv' /\ Owed
    BY <2>1, <2>11, NewGoalStep
  <2>12. ASSUME NEW interrupt \in BOOLEAN, Pause(interrupt) PROVE Inv' /\ Owed
    BY <2>1, <2>12, PauseStep
  <2>13. ASSUME NEW tool \in BOOLEAN, Resume(tool) PROVE Inv' /\ Owed
    BY <2>1, <2>13, ResumeStep
  <2>14. ASSUME NEW reported \in BOOLEAN, NEW known \in BOOLEAN, NEW gap \in BOOLEAN,
                ToolResult(reported, known, gap)
         PROVE  Inv' /\ Owed
    BY <2>1, <2>14, ToolResultStep
  <2>15. CASE Finish
    BY <2>1, <2>15, FinishStep
  <2>16. CASE SetAuto
    BY <2>1, <2>16, SetAutoStep
  <2>17. CASE Reload
    BY <2>1, <2>17, ReloadStep
  <2>18. QED
    BY <1>2, <2>2, <2>3, <2>4, <2>5, <2>6, <2>7, <2>8, <2>9, <2>10, <2>11, <2>12, <2>13,
       <2>14, <2>15, <2>16, <2>17 DEF Next
<1>3. QED
  BY <1>1, <1>2

LEMMA SpecInv ==
    Spec => [](Inv) /\ [][Owed]_vars
<1>1. Init => Inv
  BY InitInv
<1>2. Inv /\ [Next]_vars => Inv'
  BY NextInv
<1>3. Inv /\ [Next]_vars => [Owed]_vars
  BY NextInv
<1>4. QED
  BY <1>1, <1>2, <1>3, PTL DEF Spec

\* The state of the continuation always has its type: a count of retries stays within
\* MAX_NO_PROGRESS_RETRIES, or is 1 at most when that is 0, since it grows only while it
\* has not blocked (agent_settled).
THEOREM TypeCorrect == Spec => []TypeOK
<1>1. Inv => TypeOK
  BY DEF Inv
<1>2. QED
  BY <1>1, SpecInv, PTL

\* A pending timer is for the active goal of the session, while no permission is missing
\* and continuation is switched on; and an automatic continuation is sent only when all
\* that its audit asked before its snapshot (sendIdleContinuationAfterAudit) holds after
\* it, whatever happened meanwhile.
THEOREM WakesStayWanted == Spec => WakesAreWanted
<1>1. Inv => TimerIsCurrent
  BY DEF Inv, Good, Timely, TimerIsCurrent
<1>2. [Owed]_vars =>
        [s'.sends > s.sends => auto /\ Active(s) /\ ~Held(s) /\ Idle(s) /\ s.queued = None]_vars
  BY DEF Owed
<1>3. QED
  BY <1>1, <1>2, SpecInv, PTL DEF WakesAreWanted, SendsAreWanted

\* Without progress a goal is continued at most MAX_NO_PROGRESS_RETRIES times, and at most
\* once when that is 0, however its turns, snapshots, audits and reloads interleave; and
\* once its retries are exhausted only the user's resume or another goal reopens it (or a scheduler that says "wait").
THEOREM RetriesComeToEnd == Spec => RetriesEnd
<1>1. Inv => RetriesAreBounded
  BY DEF Inv, Good, Counts, RetriesAreBounded
<1>2. [Owed]_vars =>
        [s.cont.blocked /\ ~s'.cont.blocked =>
            \/ scenario.waits
            \/ (\E tool \in BOOLEAN : Resume(tool)) \/ (\E g \in Goal : NewGoal(g))]_vars
  BY DEF Owed
<1>3. QED
  BY <1>1, <1>2, SpecInv, PTL DEF RetriesEnd, HoldIsSticky
=============================================================================
