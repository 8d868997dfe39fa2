--------------------------- MODULE SubagentProofs ---------------------------
(* A conversation never has two writers, for any number of processes and    *)
(* attempts: type correctness, the truth of terminal records, and, when the  *)
(* disk accepts what is written, the lease that covers every writer.         *)
EXTENDS ConversationWriters, Capacity, FiniteSetTheorems, TLAPS

\* An attempt under way has no record yet; it has a child once it is spawned.
LaunchIsNew ==
    \A a \in Attempt : job[a] # None =>
        /\ meta[a] = "none"
        /\ job[a].at \in {"planned", "leased", "admitted"} => child[a] = "none" /\ a # First
        /\ job[a].at \in {"spawned", "discarding"} => parent[a] = job[a].process

\* A record is written after the child was created.
RecordedIsSpawned == \A a \in Attempt : meta[a] # "none" => child[a] # "none"

\* Nothing continues a conversation whose first child is not gone.
FirstIsGone ==
    \A a \in Attempt \ {First} :
        job[a] # None \/ child[a] # "none" => child[First] = "gone"

RecordInv == TypeOK /\ LaunchIsNew /\ RecordedIsSpawned /\ EndedIsGone /\ FirstIsGone

\* From its acquisition to the publication the lease names the launch.
LeaseCoversLaunch ==
    \A a \in Attempt \ {First} :
        job[a] # None /\ job[a].at \in {"leased", "admitted", "spawned"} =>
            lease = [process |-> job[a].process, attempt |-> a]

\* A failed launch has no record, and an abandoned one has failed.
FailedIsUnrecorded ==
    \A a \in Attempt :
        /\ a \in failed => meta[a] = "none" /\ child[a] # "none"
                          /\ (job[a] # None => job[a].at = "discarding")
        /\ job[a] # None => (job[a].at = "discarding" => a \in failed)

LeaseInv == LeaseCoversWriter /\ LeaseCoversLaunch /\ FailedIsUnrecorded

-----------------------------------------------------------------------------

LEMMA InitRecordInv == Init => RecordInv
<1> SUFFICES ASSUME Init PROVE RecordInv
  OBVIOUS
<1>1. TypeOK
  BY DEF Init, TypeOK, Statuses
<1>2. QED
  BY <1>1 DEF Init, RecordInv, LaunchIsNew, RecordedIsSpawned, EndedIsGone, FirstIsGone

\* A launch that moves on keeps its process and stays one launch.
LEMMA MovesOne ==
    ASSUME TypeOK, NEW a \in Attempt, job[a] # None,
           NEW at \in {"planned", "leased", "admitted", "spawned", "discarding"}, Moves(a, at)
    PROVE  /\ job' \in [Attempt -> Job \cup {None}]
           /\ job'[a] # None /\ job'[a].process = job[a].process /\ job'[a].at = at
           /\ \A b \in Attempt \ {a} : job'[b] = job[b]
<1>1. job[a] \in Job
  BY DEF TypeOK
<1> DEFINE new == [job[a] EXCEPT !.at = at]
<1>2. new \in Job /\ new.process = job[a].process /\ new.at = at
  BY <1>1 DEF Job
<1>3. job' = [job EXCEPT ![a] = new]
  BY DEF Moves
<1>4. new # None
  BY <1>2, NoneAssumption
<1> HIDE DEF new
<1>5. QED
  BY <1>2, <1>3, <1>4 DEF TypeOK

LEMMA EndsOne ==
    ASSUME TypeOK, NEW a \in Attempt, Ends(a)
    PROVE  /\ job' \in [Attempt -> Job \cup {None}]
           /\ job'[a] = None /\ \A b \in Attempt \ {a} : job'[b] = job[b]
BY DEF TypeOK, Ends

LEMMA ReleasedIsLease ==
    ASSUME TypeOK, NEW p, NEW a PROVE Released(p, a) \in {lease, None}
BY DEF Released

\* Whatever is planned from an ended attempt comes after the first child is gone.
LEMMA PlannedAfterFirst ==
    ASSUME RecordInv, NEW a \in Attempt \ {First}, NEW r \in Attempt, Continuable(r, a)
    PROVE  child[First] = "gone"
<1>1. CASE r = First
  BY <1>1, WritersAssumption DEF RecordInv, TypeOK, RecordedIsSpawned, Continuable, RecordedWriter, Alive
<1>2. CASE r # First
  <2>1. child[r] # "none"
    BY DEF RecordInv, RecordedIsSpawned, Continuable
  <2>2. QED
    BY <1>2, <2>1 DEF RecordInv, FirstIsGone
<1>3. QED
  BY <1>1, <1>2

LEMMA FreshSpawnKeepsRecords ==
    ASSUME RecordInv, NEW p \in Process, FreshSpawn(p) PROVE RecordInv'
<1> DEFINE new == [process |-> p, prior |-> None, at |-> "spawned"]
<1>1. new \in Job
  BY DEF Job
<1>2. new # None
  BY <1>1, NoneAssumption
<1>3. /\ job' = [job EXCEPT ![First] = new]
      /\ child' = [child EXCEPT ![First] = "alive"] /\ parent' = [parent EXCEPT ![First] = p]
      /\ \A a \in Attempt : meta[a] = "none" /\ job[a] = None
      /\ child[First] = "none"
      /\ UNCHANGED <<up, meta, seen, failed, lease>>
  BY DEF FreshSpawn
<1>4. new.process = p /\ new.at = "spawned"
  OBVIOUS
<1> HIDE DEF new
<1>5. TypeOK'
  BY <1>1, <1>3, WritersAssumption DEF RecordInv, TypeOK
<1>6. LaunchIsNew'
  BY <1>2, <1>3, <1>4, WritersAssumption DEF RecordInv, TypeOK, LaunchIsNew
<1>7. (RecordedIsSpawned /\ EndedIsGone)'
  BY <1>3 DEF RecordedIsSpawned, EndedIsGone
<1>8. FirstIsGone'
  BY <1>3 DEF RecordInv, TypeOK, FirstIsGone
<1>9. QED
  BY <1>5, <1>6, <1>7, <1>8 DEF RecordInv

LEMMA PlanKeepsRecords ==
    ASSUME RecordInv, NEW p \in Process, NEW a \in Attempt, NEW r \in Attempt, Plan(p, a, r)
    PROVE  RecordInv'
<1> DEFINE new == [process |-> p, prior |-> r, at |-> "planned"]
<1>1. new \in Job /\ new.at = "planned"
  BY DEF Job
<1>2. /\ a # First /\ meta[a] = "none" /\ child[a] = "none" /\ Continuable(r, a)
      /\ job' = [job EXCEPT ![a] = new]
      /\ UNCHANGED <<up, meta, child, parent, seen, failed, lease>>
  BY DEF Plan
<1>3. child[First] = "gone"
  BY <1>2, PlannedAfterFirst
<1> HIDE DEF new
<1>4. TypeOK'
  BY <1>1, <1>2 DEF RecordInv, TypeOK
<1>5. LaunchIsNew'
  BY <1>1, <1>2 DEF RecordInv, TypeOK, LaunchIsNew
<1>6. QED
  BY <1>2, <1>3, <1>4, <1>5 DEF RecordInv, RecordedIsSpawned, EndedIsGone, FirstIsGone

\* Steps of a launch before its child exists.
LEMMA LaunchKeepsRecords ==
    ASSUME RecordInv, NEW a \in Attempt, Acquire(a) \/ Revalidate(a) \/ Refuse(a)
    PROVE  RecordInv'
<1>1. job[a] # None /\ job[a].at \in {"planned", "leased", "admitted"}
  BY DEF Acquire, Revalidate, Refuse, Launching
<1>2. /\ UNCHANGED <<up, meta, child, parent, seen, failed>>
      /\ Ends(a) \/ Moves(a, "leased") \/ Moves(a, "admitted")
  BY DEF Acquire, Revalidate, Refuse
<1>3. job[a] \in Job
  BY <1>1 DEF RecordInv, TypeOK
<1>4. lease' \in Lease \cup {None}
  BY <1>3 DEF RecordInv, TypeOK, Acquire, Revalidate, Refuse, Released, Lease, Job
<1>5. /\ job' \in [Attempt -> Job \cup {None}]
      /\ job'[a] # None => job'[a].at \in {"leased", "admitted"}
      /\ \A b \in Attempt \ {a} : job'[b] = job[b]
  BY <1>1, <1>2, MovesOne, EndsOne DEF RecordInv
<1>6. TypeOK'
  BY <1>2, <1>4, <1>5 DEF RecordInv, TypeOK
<1>7. LaunchIsNew'
  BY <1>1, <1>2, <1>5 DEF RecordInv, LaunchIsNew
<1>8. FirstIsGone'
  BY <1>1, <1>2, <1>5 DEF RecordInv, FirstIsGone
<1>9. QED
  BY <1>2, <1>6, <1>7, <1>8 DEF RecordInv, RecordedIsSpawned, EndedIsGone

LEMMA SpawnKeepsRecords ==
    ASSUME RecordInv, NEW a \in Attempt, Spawn(a) PROVE RecordInv'
<1>1. /\ job[a] # None /\ job[a].at = "admitted" /\ Moves(a, "spawned")
      /\ child' = [child EXCEPT ![a] = "alive"] /\ parent' = [parent EXCEPT ![a] = job[a].process]
      /\ UNCHANGED <<up, meta, seen, failed, lease>>
  BY DEF Spawn, Launching
<1>2. /\ job' \in [Attempt -> Job \cup {None}]
      /\ job'[a] # None /\ job'[a].process = job[a].process /\ job'[a].at = "spawned"
      /\ \A b \in Attempt \ {a} : job'[b] = job[b]
  BY <1>1, MovesOne DEF RecordInv
<1>3. job[a].process \in Process /\ job[a].process # None
  BY <1>1, WritersAssumption DEF RecordInv, TypeOK, Job
<1>4. a # First /\ meta[a] = "none"
  BY <1>1 DEF RecordInv, LaunchIsNew
<1>5. TypeOK'
  BY <1>1, <1>2, <1>3 DEF RecordInv, TypeOK
<1>6. LaunchIsNew'
  BY <1>1, <1>2, <1>4 DEF RecordInv, TypeOK, LaunchIsNew
<1>7. (RecordedIsSpawned /\ EndedIsGone)'
  BY <1>1, <1>4 DEF RecordInv, TypeOK, RecordedIsSpawned, EndedIsGone
<1>8. FirstIsGone'
  BY <1>1, <1>2, <1>4, WritersAssumption DEF RecordInv, TypeOK, FirstIsGone
<1>9. QED
  BY <1>5, <1>6, <1>7, <1>8 DEF RecordInv

LEMMA PublishKeepsRecords ==
    ASSUME RecordInv, NEW a \in Attempt, Publish(a) PROVE RecordInv'
<1>1. /\ job[a] # None /\ job[a].at = "spawned" /\ Ends(a)
      /\ meta' = [meta EXCEPT ![a] = "running"] /\ UNCHANGED <<up, child, parent, seen, failed, lease>>
  BY DEF Publish, Launching
<1>2. /\ job' \in [Attempt -> Job \cup {None}] /\ job'[a] = None
      /\ \A b \in Attempt \ {a} : job'[b] = job[b]
  BY <1>1, EndsOne DEF RecordInv
<1>3. child[a] # "none"
  BY <1>1, WritersAssumption DEF RecordInv, TypeOK, LaunchIsNew, Job
<1>4. TypeOK'
  BY <1>1, <1>2 DEF RecordInv, TypeOK, Statuses
<1>5. LaunchIsNew'
  BY <1>1, <1>2 DEF RecordInv, TypeOK, LaunchIsNew
<1>6. (RecordedIsSpawned /\ EndedIsGone)'
  BY <1>1, <1>3 DEF RecordInv, TypeOK, RecordedIsSpawned, EndedIsGone
<1>7. FirstIsGone'
  BY <1>1, <1>2 DEF RecordInv, FirstIsGone
<1>8. QED
  BY <1>4, <1>5, <1>6, <1>7 DEF RecordInv

LEMMA FailureKeepsRecords ==
    ASSUME RecordInv, NEW a \in Attempt, PublishFails(a) PROVE RecordInv'
<1>1. /\ job[a] # None /\ job[a].at = "spawned" /\ Moves(a, "discarding")
      /\ failed' = failed \cup {a}
      /\ lease' = Released(job[a].process, a) /\ UNCHANGED <<up, meta, child, parent, seen>>
  BY DEF PublishFails, Launching
<1>2. /\ job' \in [Attempt -> Job \cup {None}]
      /\ job'[a] # None /\ job'[a].process = job[a].process /\ job'[a].at = "discarding"
      /\ \A b \in Attempt \ {a} : job'[b] = job[b]
  BY <1>1, MovesOne DEF RecordInv
<1>3. TypeOK'
  BY <1>1, <1>2, ReleasedIsLease DEF RecordInv, TypeOK
<1>4. LaunchIsNew'
  BY <1>1, <1>2 DEF RecordInv, LaunchIsNew
<1>5. FirstIsGone'
  BY <1>1, <1>2 DEF RecordInv, FirstIsGone
<1>6. QED
  BY <1>1, <1>3, <1>4, <1>5 DEF RecordInv, RecordedIsSpawned, EndedIsGone

\* The child is gone, by itself or because its launch was abandoned.
LEMMA GoneKeepsRecords ==
    ASSUME RecordInv, NEW a \in Attempt, Discard(a) \/ ChildEnds(a) PROVE RecordInv'
<1>1. /\ child' = [child EXCEPT ![a] = "gone"] /\ UNCHANGED <<up, meta, parent, seen, failed, lease>>
      /\ job' \in [Attempt -> Job \cup {None}]
      /\ \A b \in Attempt : job'[b] # None => job'[b] = job[b]
  <2>1. CASE Discard(a)
    BY <2>1, EndsOne DEF Discard, RecordInv
  <2>2. CASE ChildEnds(a)
    BY <2>2 DEF ChildEnds, RecordInv, TypeOK
  <2>3. QED
    BY <2>1, <2>2
<1>2. child[a] # "none"
  <2>1. CASE Discard(a)
    BY <2>1, WritersAssumption DEF Discard, Launching, RecordInv, TypeOK, LaunchIsNew, Job
  <2>2. CASE ChildEnds(a)
    BY <2>2 DEF ChildEnds, Alive
  <2>3. QED
    BY <2>1, <2>2
<1>3. TypeOK'
  BY <1>1, <1>2 DEF RecordInv, TypeOK
<1>4. LaunchIsNew'
  BY <1>1, <1>2 DEF RecordInv, TypeOK, LaunchIsNew
<1>5. (RecordedIsSpawned /\ EndedIsGone)'
  BY <1>1 DEF RecordInv, TypeOK, RecordedIsSpawned, EndedIsGone
<1>6. FirstIsGone'
  BY <1>1, <1>2, WritersAssumption DEF RecordInv, TypeOK, FirstIsGone
<1>7. QED
  BY <1>3, <1>4, <1>5, <1>6 DEF RecordInv

\* A record changes after its child was created, and says the truth.
LEMMA VerdictKeepsRecords ==
    ASSUME RecordInv, NEW a \in Attempt,
           Exit(a) \/ \E p \in Process : Stop(p, a) \/ Adjudicate(p, a)
    PROVE  RecordInv'
<1>1. /\ UNCHANGED <<up, child, parent, failed, job>>
      /\ job[a] = None
      /\ \A b \in Attempt \ {a} : meta'[b] = meta[b]
      /\ meta' \in [Attempt -> Statuses]
      /\ meta'[a] # meta[a] => meta[a] # "none"
      /\ meta'[a] \in {"completed", "failed", "lost"} /\ meta'[a] # meta[a] => child[a] = "gone"
      /\ seen' \subseteq Attempt /\ lease' \in {lease, None}
  <2>1. CASE Exit(a)
    BY <2>1, ReleasedIsLease DEF Exit, RecordInv, TypeOK, Statuses
  <2>2. ASSUME NEW p \in Process, Stop(p, a) PROVE <1>1!:
    BY <2>2 DEF Stop, Active, RecordInv, TypeOK, Statuses
  <2>3. ASSUME NEW p \in Process, Adjudicate(p, a) PROVE <1>1!:
    BY <2>3 DEF Adjudicate, Alive, RecordInv, TypeOK, RecordedIsSpawned, Statuses
  <2>4. QED
    BY <2>1, <2>2, <2>3
<1>2. TypeOK'
  BY <1>1 DEF RecordInv, TypeOK
<1>3. LaunchIsNew'
  BY <1>1 DEF RecordInv, LaunchIsNew
<1>4. (RecordedIsSpawned /\ EndedIsGone)'
  BY <1>1 DEF RecordInv, RecordedIsSpawned, EndedIsGone
<1>5. QED
  BY <1>1, <1>2, <1>3, <1>4 DEF RecordInv, FirstIsGone

LEMMA CrashKeepsRecords ==
    ASSUME RecordInv, NEW p \in Process, Crash(p) PROVE RecordInv'
<1>1. /\ up' \subseteq up /\ UNCHANGED <<meta, child, parent, seen, failed, lease>>
      /\ job' \in [Attempt -> Job \cup {None}]
      /\ \A b \in Attempt : job'[b] # None => job'[b] = job[b]
  BY DEF Crash, RecordInv, TypeOK
<1>2. TypeOK'
  BY <1>1 DEF RecordInv, TypeOK
<1>3. QED
  BY <1>1, <1>2 DEF RecordInv, LaunchIsNew, RecordedIsSpawned, EndedIsGone, FirstIsGone

LEMMA NextRecordInv == RecordInv /\ [Next]_vars => RecordInv'
<1> SUFFICES ASSUME RecordInv, [Next]_vars PROVE RecordInv'
  OBVIOUS
<1>1. CASE UNCHANGED vars
  BY <1>1 DEF vars, RecordInv, TypeOK, LaunchIsNew, RecordedIsSpawned, EndedIsGone, FirstIsGone
<1>2. ASSUME NEW p \in Process, FreshSpawn(p) \/ Crash(p)
      PROVE  RecordInv'
  BY <1>2, FreshSpawnKeepsRecords, CrashKeepsRecords
<1>3. ASSUME NEW p \in Process, NEW a \in Attempt, Stop(p, a) \/ Adjudicate(p, a)
      PROVE  RecordInv'
  BY <1>3, VerdictKeepsRecords
<1>4. ASSUME NEW p \in Process, NEW a \in Attempt, NEW r \in Attempt, Plan(p, a, r)
      PROVE  RecordInv'
  BY <1>4, PlanKeepsRecords
<1>5. ASSUME NEW a \in Attempt, Acquire(a) \/ Revalidate(a) \/ Refuse(a) PROVE RecordInv'
  BY <1>5, LaunchKeepsRecords
<1>6. ASSUME NEW a \in Attempt, Spawn(a) PROVE RecordInv'
  BY <1>6, SpawnKeepsRecords
<1>7. ASSUME NEW a \in Attempt, Publish(a) PROVE RecordInv'
  BY <1>7, PublishKeepsRecords
<1>8. ASSUME NEW a \in Attempt, PublishFails(a) PROVE RecordInv'
  BY <1>8, FailureKeepsRecords
<1>9. ASSUME NEW a \in Attempt, Discard(a) \/ ChildEnds(a) PROVE RecordInv'
  BY <1>9, GoneKeepsRecords
<1>10. ASSUME NEW a \in Attempt, Exit(a) PROVE RecordInv'
  BY <1>10, VerdictKeepsRecords
<1>11. QED
  BY <1>1, <1>2, <1>3, <1>4, <1>5, <1>6, <1>7, <1>8, <1>9, <1>10 DEF Next

\* Every file and process of a conversation stays within its declared range.
THEOREM TypeCorrect == Spec => []TypeOK
<1>1. RecordInv => TypeOK
  BY DEF RecordInv
<1>2. QED
  BY <1>1, InitRecordInv, NextRecordInv, PTL DEF Spec

\* No attempt is recorded as completed, failed or lost while its child lives, by its
\* parent, by a process that took over, or by one that recovered its log.
THEOREM EndsAreTrue == Spec => []EndedIsGone
<1>1. RecordInv => EndedIsGone
  BY DEF RecordInv
<1>2. QED
  BY <1>1, InitRecordInv, NextRecordInv, PTL DEF Spec

-----------------------------------------------------------------------------
(* The lease *)

\* A lease of a child that lives, or of a launch under way, is not reclaimable.
LEMMA CoveredIsKept ==
    ASSUME RecordInv, LeaseInv, NEW p \in Process, Reclaimable(p), NEW b \in Attempt \ {First}
    PROVE  /\ ~(Alive(b) /\ b \notin failed)
           /\ ~(job[b] # None /\ job[b].at \in {"leased", "admitted", "spawned"})
<1>1. ASSUME Alive(b), b \notin failed PROVE FALSE
  <2>1. lease = [process |-> parent[b], attempt |-> b]
    BY <1>1 DEF LeaseInv, LeaseCoversWriter
  <2>2. lease # None
    BY <2>1, <1>1, NoneAssumption DEF RecordInv, TypeOK, Alive, Lease
  <2>3. QED
    BY <1>1, <2>1, <2>2 DEF Reclaimable, RecordedWriter
<1>2. ASSUME job[b] # None, job[b].at \in {"leased", "admitted", "spawned"} PROVE FALSE
  <2>1. lease = [process |-> job[b].process, attempt |-> b]
    BY <1>2 DEF LeaseInv, LeaseCoversLaunch
  <2>2. lease # None
    BY <2>1, <1>2, NoneAssumption DEF RecordInv, TypeOK, Lease, Job
  <2>3. meta[b] = "none"
    BY <1>2 DEF RecordInv, LaunchIsNew
  <2>4. QED
    BY <2>1, <2>2, <2>3 DEF Reclaimable
<1>3. QED
  BY <1>1, <1>2

LEMMA InitLeaseInv == Init => LeaseInv
BY DEF Init, LeaseInv, LeaseCoversWriter, LeaseCoversLaunch, FailedIsUnrecorded, Alive

LEMMA PlansKeepLease ==
    ASSUME RecordInv, LeaseInv,
           NEW p \in Process, FreshSpawn(p) \/ \E a, r \in Attempt : Plan(p, a, r)
    PROVE  LeaseInv'
<1>1. CASE FreshSpawn(p)
  <2>1. /\ job' = [job EXCEPT ![First] = [process |-> p, prior |-> None, at |-> "spawned"]]
        /\ child' = [child EXCEPT ![First] = "alive"] /\ parent' = [parent EXCEPT ![First] = p]
        /\ child[First] = "none" /\ \A a \in Attempt : job[a] = None
        /\ UNCHANGED <<meta, failed, lease>>
    BY <1>1 DEF FreshSpawn
  <2>2. (LeaseCoversWriter /\ LeaseCoversLaunch)'
    BY <2>1 DEF RecordInv, TypeOK, LeaseInv, LeaseCoversWriter, LeaseCoversLaunch, Alive
  <2>3. First \notin failed /\ First \in Attempt
    BY <2>1, WritersAssumption DEF LeaseInv, FailedIsUnrecorded
  <2>4. FailedIsUnrecorded'
    BY <2>1, <2>3 DEF RecordInv, TypeOK, LeaseInv, FailedIsUnrecorded
  <2>5. QED
    BY <2>2, <2>4 DEF LeaseInv
<1>2. ASSUME NEW a \in Attempt, NEW r \in Attempt, Plan(p, a, r) PROVE LeaseInv'
  <2>1. /\ job' = [job EXCEPT ![a] = [process |-> p, prior |-> r, at |-> "planned"]]
        /\ child[a] = "none" /\ UNCHANGED <<meta, child, parent, failed, lease>>
    BY <1>2 DEF Plan
  <2>2. (LeaseCoversWriter /\ LeaseCoversLaunch)'
    BY <2>1 DEF RecordInv, TypeOK, LeaseInv, LeaseCoversWriter, LeaseCoversLaunch, Alive
  <2>3. a \notin failed
    BY <2>1 DEF LeaseInv, FailedIsUnrecorded
  <2>4. FailedIsUnrecorded'
    BY <2>1, <2>3 DEF RecordInv, TypeOK, LeaseInv, FailedIsUnrecorded
  <2>5. QED
    BY <2>2, <2>4 DEF LeaseInv
<1>3. QED
  BY <1>1, <1>2

LEMMA AcquireKeepsLease ==
    ASSUME RecordInv, LeaseInv, NEW a \in Attempt, Acquire(a) PROVE LeaseInv'
<1>1. /\ job[a] # None /\ job[a].at = "planned" /\ UNCHANGED <<meta, child, parent, failed>>
      /\ job[a].process \in Process
  BY DEF Acquire, Launching, RecordInv, TypeOK, Job
<1>2. child[a] = "none" /\ a # First /\ a \notin failed
  BY <1>1 DEF RecordInv, LaunchIsNew, LeaseInv, FailedIsUnrecorded
<1>3. CASE Reclaimable(job[a].process)
  <2>1. lease' = [process |-> job[a].process, attempt |-> a] /\ Moves(a, "leased")
    BY <1>3 DEF Acquire
  <2>2. /\ job'[a] # None /\ job'[a].process = job[a].process /\ job'[a].at = "leased"
        /\ \A b \in Attempt \ {a} : job'[b] = job[b]
    BY <1>1, <2>1, MovesOne DEF RecordInv
  <2>3. LeaseCoversWriter'
    BY <1>1, <1>3, CoveredIsKept DEF LeaseCoversWriter, Alive
  <2>4. LeaseCoversLaunch'
    BY <1>1, <1>3, <2>1, <2>2, CoveredIsKept DEF LeaseCoversLaunch
  <2>5. FailedIsUnrecorded'
    BY <1>1, <1>2, <2>2 DEF LeaseInv, FailedIsUnrecorded
  <2>6. QED
    BY <2>3, <2>4, <2>5 DEF LeaseInv
<1>4. CASE ~Reclaimable(job[a].process)
  <2>1. Ends(a) /\ UNCHANGED lease
    BY <1>4 DEF Acquire
  <2>2. job'[a] = None /\ \A b \in Attempt \ {a} : job'[b] = job[b]
    BY <2>1, EndsOne DEF RecordInv
  <2>3. QED
    BY <1>1, <1>2, <2>1, <2>2
    DEF LeaseInv, LeaseCoversWriter, LeaseCoversLaunch, FailedIsUnrecorded, Alive
<1>5. QED
  BY <1>3, <1>4

\* What drops the lease of an attempt without a child leaves every other covered.
LEMMA ReleaseKeepsOthers ==
    ASSUME RecordInv, LeaseInv, NEW p, NEW a \in Attempt, NEW b \in Attempt \ {First}, b # a
    PROVE  /\ Alive(b) /\ b \notin failed =>
                Released(p, a) = [process |-> parent[b], attempt |-> b]
           /\ job[b] # None /\ job[b].at \in {"leased", "admitted", "spawned"} =>
                Released(p, a) = [process |-> job[b].process, attempt |-> b]
<1>1. lease.attempt = b => Released(p, a) = lease
  BY DEF Released
<1>2. QED
  BY <1>1 DEF LeaseInv, LeaseCoversWriter, LeaseCoversLaunch

LEMMA LaunchKeepsLease ==
    ASSUME RecordInv, LeaseInv, NEW a \in Attempt, Revalidate(a) \/ Refuse(a) PROVE LeaseInv'
<1>1. /\ job[a] # None /\ job[a].at \in {"leased", "admitted"}
      /\ UNCHANGED <<meta, child, parent, failed>>
      /\ \/ Moves(a, "admitted") /\ UNCHANGED lease
         \/ Ends(a) /\ lease' = Released(job[a].process, a)
  BY DEF Revalidate, Refuse, Launching
<1>2. child[a] = "none" /\ a # First /\ a \notin failed
  BY <1>1 DEF RecordInv, LaunchIsNew, LeaseInv, FailedIsUnrecorded
<1>3. CASE Moves(a, "admitted") /\ UNCHANGED lease
  <2>1. /\ job'[a] # None /\ job'[a].process = job[a].process /\ job'[a].at = "admitted"
        /\ \A b \in Attempt \ {a} : job'[b] = job[b]
    BY <1>1, <1>3, MovesOne DEF RecordInv
  <2>2. QED
    BY <1>1, <1>2, <1>3, <2>1
    DEF LeaseInv, LeaseCoversWriter, LeaseCoversLaunch, FailedIsUnrecorded, Alive
<1>4. CASE Ends(a) /\ lease' = Released(job[a].process, a)
  <2>1. job'[a] = None /\ \A b \in Attempt \ {a} : job'[b] = job[b]
    BY <1>4, EndsOne DEF RecordInv
  <2>2. (LeaseCoversWriter /\ LeaseCoversLaunch)'
    BY <1>1, <1>2, <1>4, <2>1, ReleaseKeepsOthers DEF LeaseCoversWriter, LeaseCoversLaunch, Alive
  <2>3. FailedIsUnrecorded'
    BY <1>1, <2>1 DEF LeaseInv, FailedIsUnrecorded
  <2>4. QED
    BY <2>2, <2>3 DEF LeaseInv
<1>5. QED
  BY <1>1, <1>3, <1>4

LEMMA SpawnKeepsLease ==
    ASSUME RecordInv, LeaseInv, NEW a \in Attempt, Spawn(a) PROVE LeaseInv'
<1>1. /\ job[a] # None /\ job[a].at = "admitted" /\ Moves(a, "spawned")
      /\ child' = [child EXCEPT ![a] = "alive"] /\ parent' = [parent EXCEPT ![a] = job[a].process]
      /\ UNCHANGED <<meta, failed, lease>>
  BY DEF Spawn, Launching
<1>2. /\ job'[a] # None /\ job'[a].process = job[a].process /\ job'[a].at = "spawned"
      /\ \A b \in Attempt \ {a} : job'[b] = job[b]
  BY <1>1, MovesOne DEF RecordInv
<1>3. a # First /\ a \notin failed
  BY <1>1 DEF RecordInv, LaunchIsNew, LeaseInv, FailedIsUnrecorded
<1>4. lease = [process |-> job[a].process, attempt |-> a]
  BY <1>1, <1>3 DEF LeaseInv, LeaseCoversLaunch
<1>5. LeaseCoversWriter'
  BY <1>1, <1>4 DEF RecordInv, TypeOK, LeaseInv, LeaseCoversWriter, Alive
<1>6. LeaseCoversLaunch'
  BY <1>1, <1>2, <1>4 DEF LeaseInv, LeaseCoversLaunch
<1>7. FailedIsUnrecorded'
  BY <1>1, <1>2, <1>3 DEF RecordInv, TypeOK, LeaseInv, FailedIsUnrecorded
<1>8. QED
  BY <1>5, <1>6, <1>7 DEF LeaseInv

LEMMA PublishKeepsLease ==
    ASSUME RecordInv, LeaseInv, NEW a \in Attempt, Publish(a) PROVE LeaseInv'
<1>1. /\ job[a] # None /\ job[a].at = "spawned" /\ Ends(a)
      /\ meta' = [meta EXCEPT ![a] = "running"] /\ UNCHANGED <<child, parent, failed, lease>>
  BY DEF Publish, Launching
<1>2. job'[a] = None /\ \A b \in Attempt \ {a} : job'[b] = job[b]
  BY <1>1, EndsOne DEF RecordInv
<1>3. a \notin failed
  BY <1>1 DEF LeaseInv, FailedIsUnrecorded
<1>4. (LeaseCoversWriter /\ LeaseCoversLaunch)'
  BY <1>1, <1>2 DEF LeaseInv, LeaseCoversWriter, LeaseCoversLaunch, Alive
<1>5. FailedIsUnrecorded'
  BY <1>1, <1>2, <1>3 DEF RecordInv, TypeOK, LeaseInv, FailedIsUnrecorded
<1>6. QED
  BY <1>4, <1>5 DEF LeaseInv

LEMMA FailureKeepsLease ==
    ASSUME RecordInv, LeaseInv, NEW a \in Attempt, PublishFails(a) PROVE LeaseInv'
<1>1. /\ job[a] # None /\ job[a].at = "spawned" /\ Moves(a, "discarding")
      /\ failed' = failed \cup {a} /\ lease' = Released(job[a].process, a)
      /\ UNCHANGED <<meta, child, parent>>
  BY DEF PublishFails, Launching
<1>2. /\ job'[a] # None /\ job'[a].at = "discarding"
      /\ \A b \in Attempt \ {a} : job'[b] = job[b]
  BY <1>1, MovesOne DEF RecordInv
<1>3. meta[a] = "none" /\ child[a] # "none"
  BY <1>1, WritersAssumption DEF RecordInv, TypeOK, LaunchIsNew, Job
<1>4. (LeaseCoversWriter /\ LeaseCoversLaunch)'
  BY <1>1, <1>2, ReleaseKeepsOthers DEF LeaseCoversWriter, LeaseCoversLaunch, Alive
<1>5. FailedIsUnrecorded'
  BY <1>1, <1>2, <1>3 DEF LeaseInv, FailedIsUnrecorded
<1>6. QED
  BY <1>4, <1>5 DEF LeaseInv

LEMMA GoneKeepsLease ==
    ASSUME RecordInv, LeaseInv, NEW a \in Attempt, Discard(a) \/ ChildEnds(a) PROVE LeaseInv'
<1>1. /\ child' = [child EXCEPT ![a] = "gone"] /\ UNCHANGED <<meta, parent, failed, lease>>
      /\ \A b \in Attempt : job'[b] # None => job'[b] = job[b]
  <2>1. CASE Discard(a)
    BY <2>1, EndsOne DEF Discard, RecordInv
  <2>2. CASE ChildEnds(a)
    BY <2>2 DEF ChildEnds
  <2>3. QED
    BY <2>1, <2>2
<1>2. QED
  BY <1>1
  DEF RecordInv, TypeOK, LeaseInv, LeaseCoversWriter, LeaseCoversLaunch, FailedIsUnrecorded, Alive

LEMMA VerdictKeepsLease ==
    ASSUME RecordInv, LeaseInv, NEW a \in Attempt,
           Exit(a) \/ \E p \in Process : Stop(p, a) \/ Adjudicate(p, a)
    PROVE  LeaseInv'
<1>1. /\ UNCHANGED <<child, parent, failed, job>> /\ job[a] = None
      /\ \A b \in Attempt : meta[b] = "none" => meta'[b] = "none"
  <2>1. CASE Exit(a)
    BY <2>1 DEF Exit, RecordInv, TypeOK
  <2>2. ASSUME NEW p \in Process, Stop(p, a) \/ Adjudicate(p, a) PROVE <1>1!:
    BY <2>2 DEF Stop, Active, Adjudicate, RecordInv, TypeOK
  <2>3. QED
    BY <2>1, <2>2
<1>2. lease' = lease \/ (child[a] = "gone" /\ lease' = Released(parent[a], a))
  BY DEF Exit, Stop, Adjudicate
<1>3. (LeaseCoversWriter /\ LeaseCoversLaunch)'
  BY <1>1, <1>2, ReleaseKeepsOthers
  DEF LeaseInv, LeaseCoversWriter, LeaseCoversLaunch, Alive
<1>4. FailedIsUnrecorded'
  BY <1>1 DEF LeaseInv, FailedIsUnrecorded
<1>5. QED
  BY <1>3, <1>4 DEF LeaseInv

LEMMA CrashKeepsLease ==
    ASSUME RecordInv, LeaseInv, NEW p \in Process, Crash(p) PROVE LeaseInv'
<1>1. /\ UNCHANGED <<meta, child, parent, failed, lease>>
      /\ \A b \in Attempt : job'[b] # None => job'[b] = job[b]
  BY DEF Crash
<1>2. QED
  BY <1>1 DEF LeaseInv, LeaseCoversWriter, LeaseCoversLaunch, FailedIsUnrecorded, Alive

LEMMA NextLeaseInv == RecordInv /\ LeaseInv /\ [Next]_vars => LeaseInv'
<1> SUFFICES ASSUME RecordInv, LeaseInv, [Next]_vars PROVE LeaseInv'
  OBVIOUS
<1>1. CASE UNCHANGED vars
  BY <1>1 DEF vars, LeaseInv, LeaseCoversWriter, LeaseCoversLaunch, FailedIsUnrecorded, Alive
<1>2. ASSUME NEW p \in Process, FreshSpawn(p) \/ Crash(p) PROVE LeaseInv'
  BY <1>2, PlansKeepLease, CrashKeepsLease
<1>3. ASSUME NEW p \in Process, NEW a \in Attempt, Stop(p, a) \/ Adjudicate(p, a)
      PROVE  LeaseInv'
  BY <1>3, VerdictKeepsLease
<1>4. ASSUME NEW p \in Process, NEW a \in Attempt, NEW r \in Attempt, Plan(p, a, r)
      PROVE  LeaseInv'
  BY <1>4, PlansKeepLease
<1>5. ASSUME NEW a \in Attempt, Acquire(a) \/ Revalidate(a) \/ Refuse(a) PROVE LeaseInv'
  BY <1>5, AcquireKeepsLease, LaunchKeepsLease
<1>6. ASSUME NEW a \in Attempt, Spawn(a) \/ Publish(a) \/ PublishFails(a) PROVE LeaseInv'
  BY <1>6, SpawnKeepsLease, PublishKeepsLease, FailureKeepsLease
<1>7. ASSUME NEW a \in Attempt, Discard(a) \/ ChildEnds(a) PROVE LeaseInv'
  BY <1>7, GoneKeepsLease
<1>8. ASSUME NEW a \in Attempt, Exit(a) PROVE LeaseInv'
  BY <1>8, VerdictKeepsLease
<1>9. QED
  BY <1>1, <1>2, <1>3, <1>4, <1>5, <1>6, <1>7, <1>8 DEF Next

LEMMA InvHolds == Spec => [](RecordInv /\ LeaseInv)
  BY InitRecordInv, NextRecordInv, InitLeaseInv, NextLeaseInv, PTL DEF Spec

\* Whatever processes and attempts there are, the lease names the child that writes
\* for as long as it lives, and no record says a living child has ended.
THEOREM FilesStayTrue == Spec => []FilesAreTrue
<1>1. RecordInv /\ LeaseInv => FilesAreTrue
  BY DEF RecordInv, LeaseInv, FilesAreTrue
<1>2. QED
  BY <1>1, InvHolds, PTL

-----------------------------------------------------------------------------
(* One writer *)

\* A covered child is the only writer, and no first child writes beside it.
LEMMA OneCovered ==
    ASSUME RecordInv, LeaseInv, NEW a \in Attempt, NEW b \in Attempt,
           Alive(a), a \notin failed, Alive(b), b \notin failed
    PROVE  a = b
<1>1. CASE a # First /\ b # First
  BY <1>1 DEF LeaseInv, LeaseCoversWriter
<1>2. CASE a = First \/ b = First
  BY <1>2 DEF RecordInv, FirstIsGone, Alive
<1>3. QED
  BY <1>1, <1>2

\* The writers and the attempts used, as OneWriter sees them.
Living == {a \in Attempt : Alive(a) /\ a \notin failed}
Used == {a \in Attempt : child[a] # "none"}

LEMMA FreshFindsNobody ==
    ASSUME RecordInv, child[First] = "none" PROVE Living = {}
BY DEF RecordInv, FirstIsGone, Living, Alive

LEMMA LaunchFindsNobody ==
    ASSUME RecordInv, LeaseInv, NEW a \in Attempt, Launching(a, "admitted")
    PROVE  Living = {}
<1>1. a # First /\ child[a] = "none" /\ child[First] = "gone"
  BY WritersAssumption DEF RecordInv, LaunchIsNew, FirstIsGone, Launching
<1>2. lease = [process |-> job[a].process, attempt |-> a]
  BY <1>1 DEF LeaseInv, LeaseCoversLaunch, Launching
<1>3. ASSUME NEW b \in Attempt, Alive(b), b \notin failed PROVE FALSE
  BY <1>1, <1>2, <1>3 DEF LeaseInv, LeaseCoversWriter, Alive
<1>4. QED
  BY <1>3 DEF Living

\* The child that is created finds nobody writing.
LEMMA SpawnStarts ==
    ASSUME RecordInv, LeaseInv, NEW a \in Attempt, child[a] = "none", Living = {},
           child' = [child EXCEPT ![a] = "alive"], failed' = failed
    PROVE  Writers!Start(First, a)
<1>1. a \notin failed
  BY DEF LeaseInv, FailedIsUnrecorded
<1>2. Living' = {a}
  BY <1>1 DEF RecordInv, TypeOK, Alive, Living
<1>3. a \notin Used /\ Used' = Used \cup {a}
  BY DEF RecordInv, TypeOK, Used
<1>4. QED
  BY <1>2, <1>3 DEF Writers!Start, Conversation, Living, Used

\* When a child ends or its launch fails, nobody writes any more, or nothing changed.
LEMMA LessIsStop ==
    ASSUME RecordInv, LeaseInv, Living' \subseteq Living, Used' = Used
    PROVE  [Writers!Next]_(Writers!vars)
<1>1. Living' = Living \/ (Living # {} /\ Living' = {})
  BY OneCovered DEF Living
<1>2. CASE Living' = Living
  BY <1>2 DEF Writers!vars, Conversation, Living, Used
<1>3. CASE Living # {} /\ Living' = {}
  BY <1>3 DEF Writers!Next, Writers!Stop, Conversation, Living, Used
<1>4. QED
  BY <1>1, <1>2, <1>3

LEMMA InitWriters == Init => Writers!Init
BY DEF Init, Writers!Init, Conversation, Alive

LEMMA NextWriters == RecordInv /\ LeaseInv /\ [Next]_vars => [Writers!Next]_(Writers!vars)
<1> SUFFICES ASSUME RecordInv, LeaseInv, [Next]_vars PROVE [Writers!Next]_(Writers!vars)
  OBVIOUS
<1>1. ASSUME NEW p \in Process, FreshSpawn(p) PROVE [Writers!Next]_(Writers!vars)
  <2>1. Writers!Start(First, First)
    BY <1>1, FreshFindsNobody, SpawnStarts, WritersAssumption DEF FreshSpawn
  <2>2. QED
    BY <2>1, WritersAssumption DEF Writers!Next, Conversation
<1>2. ASSUME NEW a \in Attempt, Spawn(a) PROVE [Writers!Next]_(Writers!vars)
  <2>1. child[a] = "none"
    BY <1>2 DEF RecordInv, LaunchIsNew, Spawn, Launching
  <2>2. Writers!Start(First, a)
    BY <1>2, <2>1, LaunchFindsNobody, SpawnStarts DEF Spawn
  <2>3. QED
    BY <2>2 DEF Writers!Next, Conversation
<1>3. ASSUME NEW a \in Attempt, Discard(a) \/ ChildEnds(a) PROVE [Writers!Next]_(Writers!vars)
  <2>1. child[a] # "none"
    <3>1. CASE Discard(a)
      BY <3>1, WritersAssumption DEF Discard, Launching, RecordInv, TypeOK, LaunchIsNew, Job
    <3>2. CASE ChildEnds(a)
      BY <3>2 DEF ChildEnds, Alive
    <3>3. QED
      BY <1>3, <3>1, <3>2
  <2>2. child' = [child EXCEPT ![a] = "gone"] /\ failed' = failed
    BY <1>3 DEF Discard, ChildEnds
  <2>3. Living' \subseteq Living /\ Used' = Used
    BY <2>1, <2>2 DEF RecordInv, TypeOK, Living, Used, Alive
  <2>4. QED
    BY <2>3, LessIsStop
<1>4. ASSUME NEW a \in Attempt, PublishFails(a) PROVE [Writers!Next]_(Writers!vars)
  <2>1. Living' \subseteq Living /\ Used' = Used
    BY <1>4 DEF PublishFails, Living, Used, Alive
  <2>2. QED
    BY <2>1, LessIsStop
<1>5. CASE UNCHANGED <<child, failed>>
  BY <1>5, LessIsStop DEF Living, Used, Alive
<1>6. QED
  BY <1>1, <1>2, <1>3, <1>4, <1>5
  DEF Next, Plan, Acquire, Revalidate, Refuse, Publish, Exit, Stop, Adjudicate, Crash, vars

\* The launches of a conversation implement OneWriter: no order of plans, leases,
\* reclaims, stops, deaths of processes and adjudications starts a child while
\* another writes, or uses an attempt twice.
THEOREM LaunchesImplementOneWriter == Spec => ImplementsOneWriter
  BY InitWriters, NextWriters, InvHolds, PTL DEF Spec, ImplementsOneWriter, Writers!Spec

-----------------------------------------------------------------------------
(* The capacity gate: the ledger and what it promises, for any number of     *)
(* calls, jobs and caps. The calls need not be finitely many: those in       *)
(* progress are.                                                             *)

-----------------------------------------------------------------------------
(* Counting the slots and the children of a table of calls *)

Calls == [Call -> Progress \cup {NoCall}]
SlotsOf(f) == {s \in Call \X (1 .. MaxJobs) : f[s[1]] # NoCall /\ s[2] <= f[s[1]].held}
StartedIn(f) == {c \in Call : f[c] # NoCall /\ f[c].at = "commit"}
HeldBy(q) == IF q = NoCall THEN 0 ELSE q.held

LEMMA HeldByType == ASSUME NEW q \in Progress \cup {NoCall} PROVE HeldBy(q) \in 0 .. MaxJobs
  BY CapacityAssumption DEF HeldBy, Progress

LEMMA OwnSlots ==
    ASSUME NEW c, NEW h \in Nat
    PROVE  IsFiniteSet({c} \X (1 .. h)) /\ Cardinality({c} \X (1 .. h)) = h
<1> DEFINE f == [i \in 1 .. h |-> <<c, i>>]
           S == {c} \X (1 .. h)
<1>1. IsFiniteSet(1 .. h) /\ Cardinality(1 .. h) = h
  BY FS_Interval
<1>2. f \in Bijection(1 .. h, S)
  <2>1. f \in [1 .. h -> S] /\ \A i \in 1 .. h : f[i] = <<c, i>>
    OBVIOUS
  <2>2. \A i, j \in 1 .. h : f[i] = f[j] => i = j
    BY <2>1
  <2>3. \A s \in S : \E i \in 1 .. h : f[i] = s
    BY <2>1
  <2> HIDE DEF f, S
  <2>4. QED
    BY <2>1, <2>2, <2>3 DEF Bijection, Injection, Surjection, IsInjective
<1>3. ExistsBijection(1 .. h, S)
  BY <1>2 DEF ExistsBijection
<1>4. QED
  BY <1>1, <1>3, FS_Bijection

LEMMA DisjointUnion ==
    ASSUME NEW S, NEW T, IsFiniteSet(S), IsFiniteSet(T), S \cap T = {}
    PROVE  IsFiniteSet(S \cup T) /\ Cardinality(S \cup T) = Cardinality(S) + Cardinality(T)
<1>1. Cardinality(S) \in Nat /\ Cardinality(T) \in Nat
  BY FS_CardinalityType
<1>2. Cardinality(S \cap T) = 0
  BY FS_EmptySet
<1>3. /\ IsFiniteSet(S \cup T)
      /\ Cardinality(S \cup T) = Cardinality(S) + Cardinality(T) - Cardinality(S \cap T)
  BY FS_Union
<1>4. QED
  BY <1>1, <1>2, <1>3

\* The slots of a table are those of one call and those of the others.
LEMMA SlotsSplit ==
    ASSUME NEW f \in Calls, NEW c \in Call
    PROVE  LET rest == {s \in SlotsOf(f) : s[1] # c}
               own  == {c} \X (1 .. HeldBy(f[c]))
           IN  SlotsOf(f) = rest \cup own /\ rest \cap own = {}
<1>1. f[c] \in Progress \cup {NoCall} /\ HeldBy(f[c]) \in 0 .. MaxJobs
  BY HeldByType DEF Calls
<1>2. \A i \in 1 .. MaxJobs : <<c, i>> \in SlotsOf(f) <=> i \in 1 .. HeldBy(f[c])
  BY <1>1, CapacityAssumption DEF SlotsOf, HeldBy, Progress
<1>3. QED
  BY <1>1, <1>2, CapacityAssumption DEF SlotsOf

\* When one call changes, the ledger changes by what it holds.
LEMMA SlotsChange ==
    ASSUME NEW f \in Calls, IsFiniteSet(SlotsOf(f)), NEW c \in Call,
           NEW q \in Progress \cup {NoCall}
    PROVE  LET g == [f EXCEPT ![c] = q] IN
           /\ g \in Calls
           /\ IsFiniteSet(SlotsOf(g))
           /\ Cardinality(SlotsOf(f)) \in Nat
           /\ Cardinality(SlotsOf(g)) \in Nat
           /\ HeldBy(f[c]) \in 0 .. MaxJobs /\ HeldBy(q) \in 0 .. MaxJobs
           /\ Cardinality(SlotsOf(g)) = Cardinality(SlotsOf(f)) - HeldBy(f[c]) + HeldBy(q)
<1> DEFINE g == [f EXCEPT ![c] = q]
           rest == {s \in SlotsOf(f) : s[1] # c}
           restG == {s \in SlotsOf(g) : s[1] # c}
<1>1. g \in Calls /\ g[c] = q /\ f[c] \in Progress \cup {NoCall}
  BY DEF Calls
<1>2. HeldBy(f[c]) \in 0 .. MaxJobs /\ HeldBy(q) \in 0 .. MaxJobs
  BY <1>1, HeldByType
<1>3. rest = restG
  BY DEF SlotsOf, Calls
<1>4. IsFiniteSet(rest) /\ Cardinality(rest) \in Nat
  BY FS_Subset, FS_CardinalityType
<1> HIDE DEF g
<1>5. Cardinality(SlotsOf(f)) = Cardinality(rest) + HeldBy(f[c])
  <2> DEFINE own == {c} \X (1 .. HeldBy(f[c]))
  <2>1. SlotsOf(f) = rest \cup own /\ rest \cap own = {}
    BY SlotsSplit
  <2>2. HeldBy(f[c]) \in Nat
    BY <1>2, CapacityAssumption
  <2>3. IsFiniteSet(own) /\ Cardinality(own) = HeldBy(f[c])
    BY <2>2, OwnSlots
  <2> HIDE DEF rest, own
  <2>4. QED
    BY <1>4, <2>1, <2>3, DisjointUnion
<1>6. /\ IsFiniteSet(SlotsOf(g))
      /\ Cardinality(SlotsOf(g)) = Cardinality(rest) + HeldBy(q)
  <2> DEFINE own == {c} \X (1 .. HeldBy(g[c]))
  <2>1. SlotsOf(g) = restG \cup own /\ restG \cap own = {}
    BY <1>1, SlotsSplit
  <2>2. HeldBy(q) \in Nat
    BY <1>2, CapacityAssumption
  <2>3. IsFiniteSet(own) /\ Cardinality(own) = HeldBy(q)
    BY <1>1, <2>2, OwnSlots
  <2> HIDE DEF rest, restG, own
  <2>4. QED
    BY <1>3, <1>4, <2>1, <2>3, DisjointUnion
<1>7. QED
  BY <1>1, <1>2, <1>4, <1>5, <1>6, CapacityAssumption DEF g

\* Each child that was created and not committed has a slot; so has one more call that
\* holds some.
LEMMA StartedHaveSlots ==
    ASSUME NEW f \in Calls, IsFiniteSet(SlotsOf(f)), NEW C \in SUBSET Call,
           \A c \in C : f[c] # NoCall /\ f[c].held >= 1
    PROVE  IsFiniteSet(C) /\ Cardinality(C) <= Cardinality(SlotsOf(f))
<1> DEFINE i == [c \in C |-> <<c, 1>>]
<1>1. \A c \in C : <<c, 1>> \in SlotsOf(f)
  BY CapacityAssumption DEF SlotsOf
<1>2. i \in [C -> SlotsOf(f)] /\ \A c, d \in C : i[c] = i[d] => c = d
  BY <1>1
<1> HIDE DEF i
<1>3. i \in Injection(C, SlotsOf(f))
  BY <1>2 DEF Injection, IsInjective
<1>4. QED
  BY <1>3, FS_Injection

-----------------------------------------------------------------------------
(* The inductive invariant *)

\* What a call holds follows from how far it is. Only a launch-available batch is
\* without a slot, between two jobs.
CallsAgree ==
    \A c \in Call : call[c] # NoCall =>
        /\ call[c].held = 0 <=> call[c].at = "slot"
        /\ call[c].mode = "available" => call[c].held <= 1
        /\ call[c].mode # "available" => call[c].held = call[c].left
        /\ call[c].mode = "one" => call[c].left = 1

LedgerInv == CapacityTypeOK /\ CallsAgree /\ IsFiniteSet(Slots) /\ LedgerIsExact

LEMMA HoldsOne ==
    ASSUME NEW r \in Progress
    PROVE  LET q == [r EXCEPT !.held = 1, !.at = "prepare"]
           IN  q \in Progress /\ q.mode = r.mode /\ q.held = 1 /\ q.at = "prepare"
<1> DEFINE m == [r EXCEPT !.held = 1]
<1>1. m \in Progress /\ m.mode = r.mode /\ m.held = 1
  BY CapacityAssumption DEF Progress
<1> HIDE DEF m
<1>2. /\ [m EXCEPT !.at = "prepare"] \in Progress /\ [m EXCEPT !.at = "prepare"].mode = m.mode
      /\ [m EXCEPT !.at = "prepare"].held = m.held /\ [m EXCEPT !.at = "prepare"].at = "prepare"
  BY <1>1 DEF Progress
<1>3. [r EXCEPT !.held = 1, !.at = "prepare"] = [m EXCEPT !.at = "prepare"]
  BY DEF m
<1>4. QED
  BY <1>1, <1>2, <1>3

LEMMA InitLedger == CapacityInit => LedgerInv
<1> SUFFICES ASSUME CapacityInit PROVE LedgerInv
  OBVIOUS
<1>1. Slots = {}
  BY DEF CapacityInit, Slots
<1>2. QED
  BY <1>1, FS_EmptySet DEF CapacityInit, LedgerInv, CapacityTypeOK, CallsAgree, LedgerIsExact

\* One call goes on, and the ledger changes with what it holds.
LEMMA CallGoesOn ==
    ASSUME LedgerInv, NEW c \in Call, NEW q \in Progress \cup {NoCall}, Becomes(c, q),
           q # NoCall => /\ q.held = 0 <=> q.at = "slot"
                         /\ q.mode = "available" => q.held <= 1
                         /\ q.mode # "available" => q.held = q.left
                         /\ q.mode = "one" => q.left = 1,
           pending' = pending - HeldBy(call[c]) + HeldBy(q),
           cap' \in Caps, running' \in Nat
    PROVE  LedgerInv'
<1>1. call \in Calls /\ IsFiniteSet(SlotsOf(call)) /\ pending = Cardinality(SlotsOf(call))
  BY DEF LedgerInv, CapacityTypeOK, Calls, LedgerIsExact, Slots, SlotsOf
<1>2. call' = [call EXCEPT ![c] = q]
  BY DEF Becomes
<1>3. /\ call' \in Calls /\ IsFiniteSet(SlotsOf(call')) /\ pending' \in Nat
      /\ Cardinality(SlotsOf(call')) = pending'
  BY <1>1, <1>2, SlotsChange
<1>4. CallsAgree'
  BY <1>2 DEF LedgerInv, CallsAgree, CapacityTypeOK
<1>5. QED
  BY <1>3, <1>4 DEF LedgerInv, CapacityTypeOK, Calls, LedgerIsExact, Slots, SlotsOf

LEMMA NextLedger == LedgerInv /\ [CapacityNext]_capacityVars => LedgerInv'
<1> SUFFICES ASSUME LedgerInv, [CapacityNext]_capacityVars PROVE LedgerInv'
  OBVIOUS
<1> USE CapacityAssumption, NoCallAssumption
<1>0. /\ cap \in Caps /\ pending \in Nat /\ running \in Nat /\ Caps \subseteq Nat
      /\ \A c \in Call : call[c] # NoCall => call[c] \in Progress
  BY DEF LedgerInv, CapacityTypeOK
<1>1. ASSUME NEW c \in Call, SpawnOne(c) PROVE LedgerInv'
  <2> DEFINE q == [mode |-> "one", left |-> 1, held |-> 1, at |-> "prepare"]
  <2>1. q \in Progress /\ HeldBy(q) = 1 /\ HeldBy(call[c]) = 0
    BY <1>1 DEF Progress, Mode, HeldBy, SpawnOne
  <2>2. QED
    BY <1>0, <1>1, <2>1, CallGoesOn DEF SpawnOne, TryReserve
<1>2. ASSUME NEW c \in Call, Slot(c) PROVE LedgerInv'
  <2>1. /\ call[c] \in Progress /\ call[c].at = "slot" /\ HeldBy(call[c]) = 0
        /\ call[c].mode = "available"
    BY <1>0, <1>2 DEF Slot, At, HeldBy, LedgerInv, CallsAgree, Progress
  <2> DEFINE q == [call[c] EXCEPT !.held = 1, !.at = "prepare"]
  <2>2. q \in Progress /\ q.mode = "available" /\ q.held = 1 /\ q.at = "prepare"
    BY <2>1, HoldsOne
  <2>3. CASE TryReserve(1) /\ Becomes(c, q)
    <3> HIDE DEF q
    <3>1. q # NoCall /\ HeldBy(q) = 1
      BY <2>2 DEF HeldBy
    <3>2. pending' = pending - HeldBy(call[c]) + HeldBy(q) /\ cap' \in Caps /\ running' \in Nat
      BY <1>0, <1>2, <2>1, <2>3, <3>1 DEF Slot, TryReserve
    <3>3. QED
      BY <2>2, <2>3, <3>2, CallGoesOn
  <2>4. CASE Returns(c) /\ UNCHANGED pending
    BY <1>0, <1>2, <2>1, <2>4, CallGoesOn DEF Slot, Returns, HeldBy
  <2>5. QED
    BY <1>2, <2>3, <2>4 DEF Slot
<1>3. ASSUME NEW c \in Call, Check(c) \/ Create(c) PROVE LedgerInv'
  <2>1. /\ call[c] \in Progress /\ call[c].at \in {"prepare", "start"}
        /\ \E at \in {"start", "commit"} : Becomes(c, [call[c] EXCEPT !.at = at])
        /\ UNCHANGED <<cap, pending>> /\ running' \in Nat
    BY <1>0, <1>3 DEF Check, Create, At
  <2>2. PICK at \in {"start", "commit"} : Becomes(c, [call[c] EXCEPT !.at = at])
    BY <2>1
  <2> DEFINE q == [call[c] EXCEPT !.at = at]
  <2>3. /\ q \in Progress /\ HeldBy(q) = HeldBy(call[c]) /\ HeldBy(q) \in Nat
        /\ q.held = call[c].held /\ q.mode = call[c].mode /\ q.left = call[c].left /\ q.at = at
    BY <2>1 DEF Progress, Mode, HeldBy
  <2>4. /\ call[c].held # 0
        /\ call[c].mode = "available" => call[c].held <= 1
        /\ call[c].mode # "available" => call[c].held = call[c].left
        /\ call[c].mode = "one" => call[c].left = 1
    BY <2>1 DEF LedgerInv, CallsAgree
  <2>5. Becomes(c, q)
    BY <2>2
  <2>6. pending' = pending - HeldBy(call[c]) + HeldBy(q) /\ cap' \in Caps
    BY <1>0, <2>1, <2>3
  <2> HIDE DEF q
  <2>7. QED
    BY <2>1, <2>3, <2>4, <2>5, <2>6, CallGoesOn
<1>4. ASSUME NEW c \in Call, NEW held \in 0 .. MaxJobs, Continues(c, held),
             call[c] # NoCall,
             pending' = pending - call[c].held + (IF call[c].left = 1 THEN 0 ELSE held),
             UNCHANGED <<cap, running>>,
             IF call[c].mode = "available" THEN held = 0 ELSE held = call[c].left - 1
      PROVE LedgerInv'
  <2> DEFINE q == [mode |-> call[c].mode, left |-> call[c].left - 1, held |-> held,
                   at |-> IF call[c].mode = "available" THEN "slot" ELSE "prepare"]
  <2>1. call[c] \in Progress /\ call[c].left \in 1 .. MaxJobs /\ HeldBy(call[c]) = call[c].held
    BY <1>0, <1>4 DEF Progress, Mode, HeldBy
  <2>2. CASE call[c].left = 1
    BY <1>0, <1>4, <2>1, <2>2, CallGoesOn DEF Continues, Returns, HeldBy
  <2>3. CASE call[c].left # 1
    <3>1. q \in Progress /\ HeldBy(q) = held
      BY <2>1, <2>3 DEF Progress, Mode, HeldBy
    <3>2. Becomes(c, q)
      BY <1>4, <2>1, <2>3 DEF Continues
    <3>3. call[c].mode # "one"
      BY <1>4, <2>3 DEF LedgerInv, CallsAgree
    <3>4. QED
      BY <1>0, <1>4, <2>1, <2>3, <3>1, <3>2, <3>3, CallGoesOn
  <2>4. QED
    BY <2>2, <2>3
<1>5. ASSUME NEW c \in Call, Commit(c) PROVE LedgerInv'
  <2>1. /\ call[c] \in Progress /\ call[c] # NoCall /\ call[c].held # 0
        /\ call[c].mode = "available" => call[c].held <= 1
        /\ call[c].mode # "available" => call[c].held = call[c].left
    BY <1>0, <1>5 DEF Commit, At, LedgerInv, CallsAgree
  <2>2. call[c].held \in 1 .. MaxJobs /\ call[c].left \in 1 .. MaxJobs
    BY <2>1 DEF Progress
  <2>3. QED
    BY <1>0, <1>4, <1>5, <2>1, <2>2 DEF Commit
<1>6. ASSUME NEW c \in Call, Fail(c) PROVE LedgerInv'
  <2>1. /\ call[c] \in Progress /\ call[c] # NoCall
        /\ call[c].held \in 0 .. MaxJobs /\ call[c].left \in 1 .. MaxJobs
    BY <1>0, <1>6 DEF Fail, At, Progress
  <2>2. CASE call[c].mode = "available"
    BY <1>0, <1>4, <1>6, <2>1, <2>2 DEF Fail
  <2>3. CASE call[c].mode # "available"
    BY <1>0, <1>6, <2>1, <2>3, CallGoesOn DEF Fail, Returns, HeldBy
  <2>4. QED
    BY <2>2, <2>3
<1>7. ASSUME NEW c \in Call, NEW n \in 2 .. MaxJobs, Split(c, n) PROVE LedgerInv'
  <2> DEFINE q == [mode |-> "split", left |-> n, held |-> n, at |-> "prepare"]
  <2>1. q \in Progress /\ HeldBy(q) = n
    BY DEF Progress, Mode, HeldBy
  <2>2. call[c].held = 1 /\ HeldBy(call[c]) = 1
    BY <1>7 DEF Split, At, LedgerInv, CallsAgree, HeldBy
  <2>3. CASE TryReserve(n - 1) /\ Becomes(c, q)
    BY <1>0, <1>7, <2>1, <2>2, <2>3, CallGoesOn DEF Split, TryReserve
  <2>4. CASE pending' = pending - 1 /\ Returns(c)
    BY <1>0, <1>7, <2>2, <2>4, CallGoesOn DEF Split, Returns, HeldBy
  <2>5. QED
    BY <1>7, <2>3, <2>4 DEF Split
<1>8. ASSUME NEW c \in Call, NEW n \in 1 .. MaxJobs, Batch(c, n) \/ BatchAvailable(c, n)
      PROVE LedgerInv'
  <2> DEFINE q == [mode |-> "reject", left |-> n, held |-> n, at |-> "prepare"]
             r == [mode |-> "available", left |-> n, held |-> 0, at |-> "slot"]
  <2>1. q \in Progress /\ HeldBy(q) = n /\ r \in Progress /\ HeldBy(r) = 0
    BY DEF Progress, Mode, HeldBy
  <2>2. HeldBy(call[c]) = 0
    BY <1>8 DEF Batch, BatchAvailable, HeldBy
  <2>3. CASE Batch(c, n)
    BY <1>0, <2>1, <2>2, <2>3, CallGoesOn DEF Batch, TryReserve
  <2>4. CASE BatchAvailable(c, n)
    BY <1>0, <2>1, <2>2, <2>4, CallGoesOn DEF BatchAvailable
  <2>5. QED
    BY <1>8, <2>3, <2>4
<1>9. CASE UNCHANGED <<pending, call>> /\ cap' \in Caps /\ running' \in Nat
  BY <1>9 DEF LedgerInv, CapacityTypeOK, CallsAgree, LedgerIsExact, Slots
<1>10. QED
  BY <1>0, <1>1, <1>2, <1>3, <1>5, <1>6, <1>7, <1>8, <1>9 DEF CapacityNext, RunEnds, SetCap, capacityVars

\* The cap, the counters and the calls keep their ranges; the counters never go below 0.
THEOREM CapacityTypeCorrect == CapacitySpec => []CapacityTypeOK
<1>1. LedgerInv => CapacityTypeOK
  BY DEF LedgerInv
<1>2. QED
  BY <1>1, InitLedger, NextLedger, PTL DEF CapacitySpec

\* What is pending is what the calls in progress hold, whatever fails, for any number of
\* calls and of slots (createCapacityGate, and the callers that give back).
THEOREM LedgerStaysExact == CapacitySpec => []LedgerIsExact
<1>1. LedgerInv => LedgerIsExact
  BY DEF LedgerInv
<1>2. QED
  BY <1>1, InitLedger, NextLedger, PTL DEF CapacitySpec

-----------------------------------------------------------------------------
(* What is promised *)

\* A call that holds a slot before its child is created is promised a run besides those
\* whose child exists already.
LEMMA HoldersAreCounted ==
    ASSUME LedgerInv
    PROVE  /\ IsFiniteSet(Started) /\ Cardinality(Started) \in Nat
           /\ Cardinality(Started) <= pending
           /\ \A c \in Call : At(c, "prepare") => Cardinality(Started) + 1 <= pending
<1>1. call \in Calls /\ IsFiniteSet(SlotsOf(call)) /\ pending = Cardinality(SlotsOf(call))
  BY DEF LedgerInv, CapacityTypeOK, Calls, LedgerIsExact, Slots, SlotsOf
<1>2. \A c \in Call : call[c] # NoCall /\ call[c].at # "slot" => call[c].held >= 1
  BY <1>1, CapacityAssumption DEF LedgerInv, CallsAgree, Calls, Progress
<1>3. IsFiniteSet(Started) /\ Cardinality(Started) <= pending
  <2>1. Started \in SUBSET Call /\ \A c \in Started : call[c] # NoCall /\ call[c].held >= 1
    BY <1>2 DEF Started, At
  <2>2. QED
    BY <1>1, <2>1, StartedHaveSlots
<1>4. Cardinality(Started) \in Nat
  BY <1>3, FS_CardinalityType
<1>5. ASSUME NEW c \in Call, At(c, "prepare") PROVE Cardinality(Started) + 1 <= pending
  <2> DEFINE C == Started \cup {c}
  <2>1. C \in SUBSET Call /\ \A d \in C : call[d] # NoCall /\ call[d].held >= 1
    BY <1>2, <1>5 DEF Started, At
  <2>2. Cardinality(C) <= pending
    BY <1>1, <2>1, StartedHaveSlots
  <2>3. c \notin Started
    BY <1>5 DEF Started, At
  <2>4. Cardinality(C) = Cardinality(Started) + 1
    BY <1>3, <2>3, FS_AddElement
  <2>5. QED
    BY <2>2, <2>4
<1>6. QED
  BY <1>3, <1>4, <1>5

LEMMA PromisedStarts == LedgerInv => AdmittedStarts
<1> SUFFICES ASSUME LedgerInv, NEW c \in Call, At(c, "prepare"), Committed <= cap
             PROVE  running < cap
  BY DEF AdmittedStarts
<1>1. Cardinality(Started) + 1 <= pending /\ Cardinality(Started) \in Nat
  BY HoldersAreCounted
<1>2. running \in Nat /\ pending \in Nat /\ cap \in Nat
  BY CapacityAssumption DEF LedgerInv, CapacityTypeOK
<1>3. QED
  BY <1>1, <1>2 DEF Committed

\* A step in which nobody reserves promises nothing more.
LEMMA NextPromises ==
    LedgerInv /\ LedgerInv' /\ [CapacityNext]_capacityVars => (Committed' > Committed => Committed' <= cap)
<1> SUFFICES ASSUME LedgerInv, LedgerInv', [CapacityNext]_capacityVars
             PROVE  Committed' > Committed => Committed' <= cap
  OBVIOUS
<1>0. /\ running \in Nat /\ pending \in Nat /\ cap \in Nat
      /\ running' \in Nat /\ pending' \in Nat /\ cap' \in Nat
      /\ \A c \in Call : call[c] # NoCall => call[c] \in Progress
  BY CapacityAssumption DEF LedgerInv, CapacityTypeOK
<1>1. IsFiniteSet(Started) /\ Cardinality(Started) \in Nat
  BY HoldersAreCounted
<1>2. ASSUME NEW c \in Call, call[c] = NoCall \/ call[c].at # "commit", NEW q, Becomes(c, q),
             q = NoCall \/ q.at # "commit"
      PROVE Started' = Started
  BY <1>2 DEF Becomes, Started, At, LedgerInv, CapacityTypeOK
<1>3. CASE /\ Started' = Started
           /\ \/ pending' <= pending /\ running' <= running
              \/ running' = running /\ \E k \in Nat : k <= Available /\ pending' = pending + k
  <2>1. Cardinality(Started)' = Cardinality(Started)
    BY <1>3
  <2>2. QED
    BY <1>0, <1>1, <1>3, <2>1 DEF Committed, Available
<1>4. ASSUME NEW c \in Call, Create(c) PROVE Committed' = Committed
  <2> DEFINE q == [call[c] EXCEPT !.at = "commit"]
  <2>0. q # NoCall /\ q.at = "commit" /\ Becomes(c, q) /\ call[c].at = "start"
    BY <1>0, <1>4, NoCallAssumption DEF Create, At, Progress
  <2> HIDE DEF q
  <2>1. Started' = Started \cup {c} /\ c \notin Started
    BY <2>0 DEF At, Becomes, Started, LedgerInv, CapacityTypeOK
  <2>2. Cardinality(Started \cup {c}) = Cardinality(Started) + 1
    BY <1>1, <2>1, FS_AddElement
  <2>3. QED
    BY <1>0, <1>1, <1>4, <2>1, <2>2 DEF Create, Committed
<1>5. ASSUME NEW c \in Call, Commit(c) PROVE Committed' = Committed
  <2>1. Started' = Started \ {c} /\ c \in Started
    BY <1>0, <1>5 DEF Commit, Continues, At, Becomes, Returns, Started, LedgerInv, CapacityTypeOK
  <2>2. Cardinality(Started \ {c}) = Cardinality(Started) - 1
    BY <1>1, <2>1, FS_RemoveElement
  <2>3. QED
    BY <1>0, <1>1, <1>5, <2>1, <2>2 DEF Commit, Committed
<1>6. ASSUME NEW c \in Call, SpawnOne(c) PROVE Committed' > Committed => Committed' <= cap
  <2>1. Started' = Started
    BY <1>2, <1>6 DEF SpawnOne
  <2>2. QED
    BY <1>3, <1>6, <2>1 DEF SpawnOne, TryReserve
<1>7. ASSUME NEW c \in Call, NEW n \in 1 .. MaxJobs, Batch(c, n) \/ BatchAvailable(c, n)
      PROVE Committed' > Committed => Committed' <= cap
  <2>1. Started' = Started
    BY <1>2, <1>7 DEF Batch, BatchAvailable
  <2>2. QED
    BY <1>0, <1>3, <1>7, <2>1 DEF Batch, BatchAvailable, TryReserve
<1>8. ASSUME NEW c \in Call, NEW n \in 2 .. MaxJobs, Split(c, n)
      PROVE Committed' > Committed => Committed' <= cap
  <2>1. Started' = Started
    BY <1>2, <1>8 DEF Split, At, Returns
  <2>2. n - 1 \in Nat
    OBVIOUS
  <2>3. QED
    BY <1>0, <1>3, <1>8, <2>1, <2>2 DEF Split, TryReserve
<1>9. ASSUME NEW c \in Call, Slot(c) PROVE Committed' > Committed => Committed' <= cap
  <2>1. Started' = Started
    <3>1. CASE Returns(c)
      BY <1>2, <1>9, <3>1 DEF Slot, At, Returns
    <3>2. CASE Becomes(c, [call[c] EXCEPT !.held = 1, !.at = "prepare"])
      <4>1. [call[c] EXCEPT !.held = 1, !.at = "prepare"].at = "prepare"
        BY <1>0, <1>9 DEF Slot, At, Progress
      <4>2. QED
        BY <1>2, <1>9, <3>2, <4>1 DEF Slot, At
    <3>3. QED
      BY <1>9, <3>1, <3>2 DEF Slot
  <2>2. QED
    BY <1>0, <1>3, <1>9, <2>1 DEF Slot, TryReserve
<1>10. ASSUME NEW c \in Call, Check(c) PROVE Committed' > Committed => Committed' <= cap
  <2>1. [call[c] EXCEPT !.at = "start"].at = "start"
    BY <1>0, <1>10 DEF Check, At, Progress
  <2>2. Started' = Started
    BY <1>2, <1>10, <2>1 DEF Check, At
  <2>3. QED
    BY <1>0, <1>3, <1>10, <2>2 DEF Check
<1>11. ASSUME NEW c \in Call, Fail(c) PROVE Committed' > Committed => Committed' <= cap
  <2>1. call[c] # NoCall /\ call[c].at # "commit" /\ call[c].held \in Nat
    BY <1>0, <1>11, CapacityAssumption DEF Fail, At, Progress
  <2>2. Returns(c) \/ Continues(c, 0)
    BY <1>11 DEF Fail
  <2>3. Started' = Started
    BY <1>2, <2>1, <2>2 DEF Continues, Returns
  <2>4. QED
    BY <1>0, <1>3, <1>11, <2>1, <2>3 DEF Fail
<1>12. CASE RunEnds \/ (\E n \in Caps : SetCap(n)) \/ UNCHANGED capacityVars
  <2>1. Started' = Started /\ pending' = pending /\ running' <= running
    BY <1>0, <1>12 DEF RunEnds, SetCap, capacityVars, Started, At
  <2>2. QED
    BY <1>0, <1>3, <2>1
<1>13. QED
  BY <1>0, <1>1, <1>4, <1>5, <1>6, <1>7, <1>8, <1>9, <1>10, <1>11, <1>12 DEF CapacityNext, Committed

\* Reservations never go above the cap of their moment, and a job that holds one is not
\* refused by the live check unless the cap was lowered since.
THEOREM PromisesStayKept == CapacitySpec => PromisesAreKept
<1>1. CapacitySpec => []LedgerInv
  BY InitLedger, NextLedger, PTL DEF CapacitySpec
<1>2. LedgerInv /\ LedgerInv' /\ [CapacityNext]_capacityVars => [Committed' > Committed => Committed' <= cap]_capacityVars
  BY NextPromises
<1>3. CapacitySpec => NoOversubscription
  BY <1>1, <1>2, PTL DEF CapacitySpec, NoOversubscription
<1>4. CapacitySpec => []AdmittedStarts
  BY <1>1, PromisedStarts, PTL
<1>5. QED
  BY <1>3, <1>4, PTL DEF PromisesAreKept
=============================================================================
