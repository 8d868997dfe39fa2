------------------------- MODULE ConversationWriters -------------------------
(***************************************************************************)
(* Who may write the saved history of one worker conversation              *)
(* (continuation.ts, and the launch path of pi-better-subagents/index.ts). *)
(* The first attempt opens a new history and takes no lease. Every later   *)
(* attempt is planned from an ended one, takes the lease of the            *)
(* conversation, and is a detached child that outlives the process that    *)
(* launched it and holds its lease.                                        *)
(*                                                                         *)
(* Steps that one process takes without an await are steps to the other    *)
(* processes. Process identities are distinct, as the recorded start       *)
(* tokens make them; a worker's own descendants do not write the history.  *)
(***************************************************************************)
CONSTANTS
    Process, Attempt,
    First,       \* the attempt that opens the conversation
    None

ASSUME WritersAssumption ==
    /\ First \in Attempt
    /\ None \notin Process \cup Attempt

Statuses == {"none", "running", "completed", "failed", "killed", "lost"}
Lease == [process : Process, attempt : Attempt]
Job == [process : Process, prior : Attempt \cup {None},
        at : {"planned", "leased", "admitted", "spawned", "discarding"}]

ASSUME NoneAssumption == None \notin Lease \cup Job

VARIABLES
    up,       \* the processes that run
    meta,     \* the recorded status of each attempt
    child,    \* its child process
    parent,   \* the process that spawned it and watches for its exit
    seen,     \* the attempts whose exit was observed
    failed,   \* history: the attempts whose record could not be written
    lease,    \* the lease file
    job       \* the launch of each attempt, while it is under way

vars == <<up, meta, child, parent, seen, failed, lease, job>>

Init ==
    /\ up = Process
    /\ meta = [a \in Attempt |-> "none"]
    /\ child = [a \in Attempt |-> "none"]
    /\ parent = [a \in Attempt |-> None]
    /\ seen = {} /\ failed = {}
    /\ lease = None
    /\ job = [a \in Attempt |-> None]

Alive(a) == child[a] = "alive"

\* effectiveAttemptStatus: a record of a process that is gone is not running.
Active(a) == meta[a] = "running" /\ Alive(a)

\* mutant: a stopped attempt is taken to have exited
KilledIsGone(a) == meta[a] \notin {"none", "killed"} /\ Alive(a)

\* recordedWriterLive
RecordedWriter(a) == meta[a] # "none" /\ Alive(a)

\* planContinuation: r has ended in a way that can be continued and nobody is
\* known to write.
Continuable(r, a) ==
    /\ meta[r] \in {"completed", "killed"}
    /\ \A b \in Attempt \ {r, a} : ~Active(b)
    /\ ~RecordedWriter(r)
    /\ \A b \in Attempt \ {r, a} :
          meta[b] \notin {"completed", "failed"} => ~RecordedWriter(b)

\* mutant: the holder's death is taken for the end of its writer
HolderGone(p) ==
    \/ lease = None
    \/ lease.process = p /\ meta[lease.attempt] \in Statuses \ {"none", "running"}
                         /\ ~RecordedWriter(lease.attempt)
    \/ lease.process # p /\ lease.process \notin up /\ meta[lease.attempt] # "none"

\* leaseReclaimable: p may replace what the lease file holds. A lease without a
\* record of its attempt is kept: that child may be alive.
Reclaimable(p) ==
    \/ lease = None
    \/ /\ meta[lease.attempt] # "none"
       /\ ~RecordedWriter(lease.attempt)
       /\ \/ lease.process \notin up
          \/ lease.process = p /\ meta[lease.attempt] # "running"

\* releaseLeaseUnlocked: only the very lease that was published.
Released(p, a) == IF lease = [process |-> p, attempt |-> a] THEN None ELSE lease

Launching(a, at) == job[a] # None /\ job[a].at = at

\* Within a process nothing else runs between two steps of one synchronous stretch.
Synchronous == {"leased", "spawned", "discarding"}
Turn(p, a) ==
    /\ p \in up
    /\ \A b \in Attempt \ {a} :
          job[b] # None /\ job[b].process = p => job[b].at \notin Synchronous

Moves(a, at) == job' = [job EXCEPT ![a].at = at]
Ends(a) == job' = [job EXCEPT ![a] = None]

-----------------------------------------------------------------------------
(* Launches *)

\* subagent_spawn without a conversation
FreshSpawn(p) ==
    /\ Turn(p, First)
    /\ meta = [a \in Attempt |-> "none"] /\ child[First] = "none"
    /\ job = [a \in Attempt |-> None]
    /\ job' = [job EXCEPT ![First] = [process |-> p, prior |-> None, at |-> "spawned"]]
    /\ child' = [child EXCEPT ![First] = "alive"]
    /\ parent' = [parent EXCEPT ![First] = p]
    /\ UNCHANGED <<up, meta, seen, failed, lease>>

\* A continuation by hand, or the resume of a parked assignment, is planned from r.
Plan(p, a, r) ==
    /\ Turn(p, a)
    /\ a # First /\ a # r
    /\ job[a] = None /\ meta[a] = "none" /\ child[a] = "none"
    /\ Continuable(r, a)
    /\ job' = [job EXCEPT ![a] = [process |-> p, prior |-> r, at |-> "planned"]]
    /\ UNCHANGED <<up, meta, child, parent, seen, failed, lease>>

\* acquireConversationLease: one transaction; refused when the lease is not reclaimable.
Acquire(a) ==
    /\ Launching(a, "planned")
    /\ Turn(job[a].process, a)
    /\ IF Reclaimable(job[a].process)
       THEN lease' = [process |-> job[a].process, attempt |-> a] /\ Moves(a, "leased")
       ELSE Ends(a) /\ UNCHANGED lease
    /\ UNCHANGED <<up, meta, child, parent, seen, failed>>

\* revalidateContinuationUnderLease
Revalidate(a) ==
    /\ Launching(a, "leased")
    /\ IF Continuable(job[a].prior, a)
       THEN Moves(a, "admitted") /\ UNCHANGED lease
       ELSE Ends(a) /\ lease' = Released(job[a].process, a)
    /\ UNCHANGED <<up, meta, child, parent, seen, failed>>

\* The bridge, the dispatch fence or another step before the spawn refuses.
Refuse(a) ==
    /\ Launching(a, "admitted")
    /\ Turn(job[a].process, a)
    /\ Ends(a) /\ lease' = Released(job[a].process, a)
    /\ UNCHANGED <<up, meta, child, parent, seen, failed>>

\* mutant: nobody watches for the exit of the child
SpawnUnwatched(a) ==
    /\ Launching(a, "admitted")
    /\ Turn(job[a].process, a)
    /\ Moves(a, "spawned")
    /\ child' = [child EXCEPT ![a] = "alive"]
    /\ UNCHANGED <<up, meta, parent, seen, failed, lease>>

\* releaseChild
Spawn(a) ==
    /\ Launching(a, "admitted")
    /\ Turn(job[a].process, a)
    /\ Moves(a, "spawned")
    /\ child' = [child EXCEPT ![a] = "alive"]
    /\ parent' = [parent EXCEPT ![a] = job[a].process]
    /\ UNCHANGED <<up, meta, seen, failed, lease>>

\* writeMeta: only now is the attempt known to anyone else.
Publish(a) ==
    /\ Launching(a, "spawned")
    /\ Ends(a)
    /\ meta' = [meta EXCEPT ![a] = "running"]
    /\ UNCHANGED <<up, child, parent, seen, failed, lease>>

\* The launch is abandoned uncommitted: the lease goes first, then the child.
PublishFails(a) ==
    /\ Launching(a, "spawned")
    /\ Moves(a, "discarding")
    /\ failed' = failed \cup {a}
    /\ lease' = Released(job[a].process, a)
    /\ UNCHANGED <<up, meta, child, parent, seen>>

Discard(a) ==
    /\ Launching(a, "discarding")
    /\ Ends(a)
    /\ child' = [child EXCEPT ![a] = "gone"]
    /\ UNCHANGED <<up, meta, parent, seen, failed, lease>>

-----------------------------------------------------------------------------
(* Ends *)

\* The child finishes, fails, or obeys a signal.
ChildEnds(a) ==
    /\ Alive(a)
    /\ child' = [child EXCEPT ![a] = "gone"]
    /\ UNCHANGED <<up, meta, parent, seen, failed, lease, job>>

\* The exit event: finalizeRun, and the release of the lease, which another
\* process inside the conversation's lock may make fail.
Exit(a) ==
    /\ child[a] = "gone" /\ a \notin seen
    /\ parent[a] \in up /\ Turn(parent[a], a) /\ job[a] = None
    /\ seen' = seen \cup {a}
    /\ IF meta[a] \in {"running", "lost"}
       THEN \E s \in {"completed", "failed"} : meta' = [meta EXCEPT ![a] = s]
       ELSE UNCHANGED meta
    /\ lease' \in {lease, Released(parent[a], a)}
    /\ UNCHANGED <<up, child, parent, failed, job>>

\* stopRun: the record says killed as soon as the signal is sent.
Stop(p, a) ==
    /\ Turn(p, a) /\ job[a] = None
    /\ Active(a)
    /\ meta' = [meta EXCEPT ![a] = "killed"]
    /\ UNCHANGED <<up, child, parent, seen, failed, lease, job>>

\* mutant: silence is taken for the end of the child
AdjudicatesSilent(p, a) ==
    /\ Turn(p, a) /\ job[a] = None
    /\ meta[a] = "running"
    /\ parent[a] = p \/ parent[a] \notin up
    /\ \E s \in {"lost", "completed", "failed"} : meta' = [meta EXCEPT ![a] = s]
    /\ UNCHANGED <<up, child, parent, seen, failed, lease, job>>

\* Health reconciliation, and the recovery of an interrupted run from its log, by
\* the parent or, after its death, by anyone.
Adjudicate(p, a) ==
    /\ Turn(p, a) /\ job[a] = None
    /\ meta[a] = "running" /\ ~Alive(a)
    /\ parent[a] = p \/ parent[a] \notin up
    /\ \E s \in {"lost", "completed", "failed"} : meta' = [meta EXCEPT ![a] = s]
    /\ UNCHANGED <<up, child, parent, seen, failed, lease, job>>

\* A process dies at any point, its launches with it. Its children live on.
Crash(p) ==
    /\ p \in up
    /\ up' = up \ {p}
    /\ job' = [a \in Attempt |-> IF job[a] # None /\ job[a].process = p THEN None ELSE job[a]]
    /\ UNCHANGED <<meta, child, parent, seen, failed, lease>>

Next ==
    \/ \E p \in Process :
          \/ FreshSpawn(p) \/ Crash(p)
          \/ \E a \in Attempt : Stop(p, a) \/ Adjudicate(p, a) \/ \E r \in Attempt : Plan(p, a, r)
    \/ \E a \in Attempt :
          \/ Acquire(a) \/ Revalidate(a) \/ Refuse(a) \/ Spawn(a) \/ Publish(a)
          \/ PublishFails(a) \/ Discard(a) \/ ChildEnds(a) \/ Exit(a)

Spec == Init /\ [][Next]_vars

-----------------------------------------------------------------------------

\* The files and processes keep their ranges; only a spawned child has a parent.
TypeOK ==
    /\ up \subseteq Process
    /\ meta \in [Attempt -> Statuses]
    /\ child \in [Attempt -> {"none", "alive", "gone"}]
    /\ parent \in [Attempt -> Process \cup {None}]
    /\ seen \subseteq Attempt /\ failed \subseteq Attempt
    /\ lease \in Lease \cup {None}
    /\ job \in [Attempt -> Job \cup {None}]
    /\ \A a \in Attempt : child[a] = "none" <=> parent[a] = None

\* The lease of a continuation names its child for as long as the child lives,
\* through stops, crashes of its parent, reclaims and launches of others; but for
\* a child whose record could not be written, which PublishFails leaves uncovered.
LeaseCoversWriter ==
    \A a \in Attempt \ {First} :
        Alive(a) /\ a \notin failed => lease = [process |-> parent[a], attempt |-> a]

\* A terminal record, other than of a stop, tells the truth about the child.
EndedIsGone ==
    \A a \in Attempt : meta[a] \in {"completed", "failed", "lost"} => child[a] = "gone"

\* The files agree with the children that live: the lease with the writer, and the
\* records with those that ended.
FilesAreTrue == LeaseCoversWriter /\ EndedIsGone

Conversation == {First}
Writers == INSTANCE OneWriter WITH
    writer <- [k \in Conversation |-> {a \in Attempt : Alive(a) /\ a \notin failed}],
    used <- {a \in Attempt : child[a] # "none"},
    closed <- {}

\* The launches of a conversation promise what the resume claims of the store
\* promise, one writer at a time and each of them new, as long as the records of
\* the launches can be written.
ImplementsOneWriter == Writers!Spec
==============================================================================
