---- MODULE SessionMove ----
(***************************************************************************)
(* One logical session that is handed from machine to machine: the daemons *)
(* of pi-better-server (core/ownership.ts, core/move-host.ts, registry.ts, *)
(* move/pi-adapter.ts), the user's own machine (detach/), and one          *)
(* `moveSession` (move/orchestrate.ts) per hand-over that drives both ends. *)
(*                                                                         *)
(* own    the persisted ownership record of each host, None: no record,    *)
(*        which the code reads as owned at epoch 0                         *)
(* index  the entry of the session in a host's memory: its status and the  *)
(*        version of the transcript it names; disk is the copy a restart   *)
(*        reads; a Home entry stands for the local transcript              *)
(* live   the session is hosted by the daemon                              *)
(* newest the version of the transcript the last turn wrote                *)
(* mv     per move: its ends, where the orchestrating process stands, its  *)
(*        two connections, the commit request or its answer under way      *)
(*        (wire), the inbound transfer in the target's memory, the bundle, *)
(*        what the user was told, and what a failed import restores        *)
(* seen   what an operator saw in the list of a move's target before       *)
(*        recovering the host                                              *)
(***************************************************************************)
EXTENDS Naturals, FiniteSets

CONSTANTS Daemons,    \* hosts that run pi-better-server
          Home,       \* the user's machine
          MaxMoves,   \* bound on the moves, which are numbered as they begin
          MaxTurns,   \* bound on the turns taken
          Scenarios,  \* what may happen, see Scenario
          None

Hosts == Daemons \cup {Home}
Moves == 1..MaxMoves

\* A behaviour stays in one scenario: the hosts that take part and the one that has the
\* session at the start; how many moves and turns there are; the faults that happen; and
\* whether the operator recovers a host never, as the printed message says ("told"), or
\* whenever it is fenced ("any").
Faults == {"lose", "late", "fail", "dirty", "die", "crash"}
Scenario == [hosts : SUBSET Hosts, first : Hosts, moves : 0..MaxMoves, turns : 0..MaxTurns,
             faults : SUBSET Faults, recover : {"never", "told", "any"}]

ASSUME MoveAssumption ==
  /\ MaxMoves \in Nat /\ MaxTurns \in Nat
  /\ None \notin Hosts \cup Moves
  /\ Home \notin Daemons
  /\ \A s \in Scenarios : s \in Scenario /\ s.first \in s.hosts

VARIABLES scenario, own, index, disk, live, newest, mv, seen
moving == <<own, index, disk, live, newest, mv, seen>>
vars == <<scenario, moving>>

Records == [state : {"owned", "fenced", "moved"}, epoch : Nat,
            move : Moves \cup {None}, to : Hosts \cup {None}]
Entries == [status : {"running", "closed"}, text : 0..MaxTurns]
Idle == [from |-> None, to |-> None, copy |-> FALSE, cli |-> "idle", source |-> TRUE, target |-> TRUE,
         wire |-> "quiet", inbound |-> "none", aborted |-> FALSE, bundle |-> None, undo |-> None, told |-> "nothing"]

Bundles == [epoch : Nat, text : 0..MaxTurns]
Restored == [own : Records \cup {None}, index : Entries \cup {None}]
Stages == {"idle", "fenced", "bundled", "begun", "committing", "catch", "retry", "undo", "finish", "closing", "done", "dead"}
Receptions == {"none", "open", "importing", "acked", "failed", "stranger"}
Words == {"nothing", "failed", "moved", "copied", "unchanged", "partial", "stuck", "committed", "unknown", "retire"}
Transfers ==
  [from : Hosts \cup {None}, to : Hosts \cup {None}, copy : BOOLEAN, cli : Stages,
   source : BOOLEAN, target : BOOLEAN, wire : {"quiet", "commit", "ack", "error"}, inbound : Receptions,
   aborted : BOOLEAN, bundle : Bundles \cup {None}, undo : Restored \cup {None}, told : Words]
Sights == [move : Moves, holds : BOOLEAN]

ASSUME NoneAssumption == None \notin Records \cup Entries \cup Bundles \cup Restored \cup Sights

TypeOK ==
  /\ scenario \in Scenarios
  /\ own \in [Hosts -> Records \cup {None}]
  /\ index \in [Hosts -> Entries \cup {None}] /\ disk \in [Hosts -> Entries \cup {None}]
  /\ live \in [Hosts -> BOOLEAN]
  /\ newest \in 0..MaxTurns
  /\ seen \in [Hosts -> Sights \cup {None}]
  /\ mv \in [Moves -> Transfers]

\* OwnershipStore.get: a session without a record is owned at epoch 0
Epoch(h) == IF own[h] = None THEN 0 ELSE own[h].epoch
\* mutant: blockedReason knows tombstones only
UnblockedFenced(h) == own[h] # None => own[h].state # "moved"
\* blockedReason is undefined
Unblocked(h) == own[h] # None => own[h].state = "owned"
FencedBy(h, m) == own[h] # None /\ own[h].state = "fenced" /\ own[h].move = m

\* Commands reach a hosted, unblocked session; at Home the gates read the record alone
Writable(h) == index[h] # None /\ Unblocked(h) /\ (h \in Daemons => live[h])

\* what `pi-remote ls` shows as held: listed without an ownership mark
Holds(h) == index[h] # None /\ Unblocked(h)

Init ==
  /\ scenario \in Scenarios
  /\ own = [h \in Hosts |-> None]
  /\ index = [h \in Hosts |-> IF h = scenario.first THEN [status |-> "running", text |-> 0] ELSE None]
  /\ disk = index
  /\ live = [h \in Hosts |-> h = scenario.first /\ h \in Daemons]
  /\ newest = 0
  /\ mv = [m \in Moves |-> Idle]
  /\ seen = [h \in Hosts |-> None]

---------------------------------------------------------------------------
(* The commands of a host. Each names the next own, index, disk and live.  *)

\* an import into the host has acquired the session and is not done
Importing(h) == \E m \in Moves : mv[m].to = h /\ ~mv[m].copy /\ mv[m].inbound = "importing"

\* resume: a session the index marks running is hosted again
Resumed(h) == index[h] # None /\ index[h].status = "running"

\* mutant: the session is resumed before its record is unfenced, and refused
UnfenceLate(h) == UNCHANGED <<own, index, disk, live>>
\* OwnershipStore.unfence and the resume that follows; the local source keeps its epoch too
Unfence(h) ==
  /\ own' = [own EXCEPT ![h] = [@ EXCEPT !.state = "owned", !.move = None]]
  /\ live' = [live EXCEPT ![h] = @ \/ (h \in Daemons /\ Resumed(h))]
  /\ disk' = [disk EXCEPT ![h] = IF Resumed(h) THEN index[h] ELSE @]
  /\ UNCHANGED index

\* assertCanImport: no entry, or a closed tombstone; the local record must be absent or moved
CanImport(h) ==
  IF h \in Daemons
  THEN index[h] # None => index[h].status = "closed" /\ ~live[h] /\ own[h] # None /\ own[h].state = "moved"
  ELSE index[h] # None => own[h] # None /\ own[h].state = "moved"

\* a tombstone takes the session back from the host it names only, at a newer epoch
Stranger(m) ==
  LET t == own[mv[m].to] IN
  t # None /\ t.state = "moved" /\ (t.to # mv[m].from \/ mv[m].bundle.epoch <= t.epoch)

\* OwnershipStore.acquire
CanAcquire(h) == own[h] # None => own[h].state = "moved"
\* mutant: the epoch is the source's
AcquiredSame(m) == [state |-> "owned", move |-> m, to |-> None, epoch |-> mv[m].bundle.epoch]
\* the record that OwnershipStore.acquire writes
Acquired(m) ==
  LET h == mv[m].to IN
  [state |-> "owned", move |-> m, to |-> None,
   epoch |-> IF own[h] # None /\ own[h].epoch > mv[m].bundle.epoch THEN own[h].epoch + 1 ELSE mv[m].bundle.epoch + 1]

---------------------------------------------------------------------------
(* The orchestrating process: moveSession.                                 *)

Step(m, next) == mv' = [mv EXCEPT ![m] = next]
Tell(m, word) == Step(m, [mv[m] EXCEPT !.cli = "done", !.told = word])

\* move_fence: at a safe boundary the record is fenced and the session released; a lost
\* reply makes the call throw before the try block of moveSession is entered; an import that
\* is not done is waited for before the fence is answered
Fence(m, s, t, c, heard) ==
  /\ mv[m].cli = "idle" /\ s # t
  /\ index[s] # None /\ Unblocked(s)
  /\ ~heard => s \in Daemons /\ "lose" \in scenario.faults
  /\ own' = [own EXCEPT ![s] = [state |-> "fenced", epoch |-> Epoch(s), move |-> m, to |-> None]]
  /\ live' = [live EXCEPT ![s] = FALSE]
  /\ Step(m, [mv[m] EXCEPT !.from = s, !.to = t, !.copy = c, !.source = heard,
              !.cli = IF heard THEN "fenced" ELSE "done", !.told = IF heard THEN "nothing" ELSE "failed"])
  /\ UNCHANGED <<index, disk, newest, seen>>

\* adapter.stop failed: the fence is taken back and the session resumed
FenceFails(m, s, t) ==
  /\ "fail" \in scenario.faults
  /\ mv[m].cli = "idle" /\ s \in Daemons /\ s # t
  /\ index[s] # None /\ Unblocked(s) /\ ~Importing(s)
  /\ own' = [own EXCEPT ![s] = [state |-> "owned", epoch |-> Epoch(s), move |-> None, to |-> None]]
  /\ live' = [live EXCEPT ![s] = Resumed(s)]
  /\ Step(m, [mv[m] EXCEPT !.from = s, !.to = t, !.cli = "done", !.told = "failed"])
  /\ UNCHANGED <<index, disk, newest, seen>>

\* move_export
Export(m) ==
  /\ mv[m].cli = "fenced" /\ mv[m].source
  /\ FencedBy(mv[m].from, m) /\ index[mv[m].from] # None /\ ~Importing(mv[m].from)
  /\ Step(m, [mv[m] EXCEPT !.cli = "bundled", !.bundle = [epoch |-> Epoch(mv[m].from), text |-> index[mv[m].from].text]])
  /\ UNCHANGED <<own, index, disk, live, newest, seen>>

\* a copy lands under a new identifier, which no host has
CanBegin(m) ==
  /\ mv[m].target /\ ~mv[m].aborted
  /\ ~mv[m].copy =>   /\ CanImport(mv[m].to)
                     /\ \A n \in Moves : mv[n].to = mv[m].to /\ ~mv[n].copy => mv[n].inbound \in {"none", "acked"}

\* move_begin
Begin(m) ==
  /\ mv[m].cli = "bundled" /\ CanBegin(m)
  /\ Step(m, [mv[m] EXCEPT !.cli = "begun", !.inbound = "open"])
  /\ UNCHANGED <<own, index, disk, live, newest, seen>>

\* the chunks are read and written, then move_commit is sent
SendCommit(m) ==
  /\ mv[m].cli = "begun" /\ mv[m].source /\ mv[m].target
  /\ FencedBy(mv[m].from, m)
  /\ mv[m].inbound = "open"
  /\ Step(m, [mv[m] EXCEPT !.cli = "committing", !.wire = "commit"])
  /\ UNCHANGED <<own, index, disk, live, newest, seen>>

\* mutant: a commit whose connection closes is waited for
ThrowsOpen(m) ==
  CASE mv[m].cli = "fenced" -> ~(mv[m].source /\ FencedBy(mv[m].from, m) /\ index[mv[m].from] # None)
    [] mv[m].cli = "bundled" -> ~CanBegin(m)
    [] mv[m].cli = "begun" -> ~(mv[m].source /\ mv[m].target /\ FencedBy(mv[m].from, m))
    [] mv[m].cli = "committing" -> mv[m].wire = "error"
    [] OTHER -> FALSE
\* a call of the try block was refused or found its connection closed
Throws(m) ==
  CASE mv[m].cli = "fenced" -> ~(mv[m].source /\ FencedBy(mv[m].from, m) /\ index[mv[m].from] # None)
    [] mv[m].cli = "bundled" -> ~CanBegin(m)
    [] mv[m].cli = "begun" -> ~(mv[m].source /\ mv[m].target /\ FencedBy(mv[m].from, m))
    [] mv[m].cli = "committing" -> ~mv[m].target \/ mv[m].wire = "error"
    [] OTHER -> FALSE
Break(m) ==
  /\ mv[m].cli = "fenced" /\ Importing(mv[m].from) => ~mv[m].source
  /\ Throws(m) \/ (mv[m].cli \in {"fenced", "bundled", "begun"} /\ "fail" \in scenario.faults)
  /\ Step(m, [mv[m] EXCEPT !.cli = "catch"])
  /\ UNCHANGED <<own, index, disk, live, newest, seen>>

\* the connection to an end closes; a request already in the tunnel may still arrive
LoseSource(m) ==
  /\ "lose" \in scenario.faults
  /\ mv[m].cli \in {"fenced", "bundled", "begun", "committing", "catch", "retry", "undo", "finish"}
  /\ mv[m].from \in Daemons /\ mv[m].source
  /\ Step(m, [mv[m] EXCEPT !.source = FALSE])
  /\ UNCHANGED <<own, index, disk, live, newest, seen>>
LoseTarget(m, arrives) ==
  /\ "lose" \in scenario.faults
  /\ mv[m].cli \in {"fenced", "bundled", "begun", "committing", "catch", "retry"}
  /\ mv[m].to \in Daemons /\ mv[m].target
  /\ arrives => mv[m].wire = "commit" /\ "late" \in scenario.faults
  /\ Step(m, [mv[m] EXCEPT !.target = FALSE, !.wire = IF arrives THEN "commit" ELSE "quiet"])
  /\ UNCHANGED <<own, index, disk, live, newest, seen>>

\* the process is killed; a local sink or source goes with it
Die(m, arrives) ==
  /\ "die" \in scenario.faults
  /\ mv[m].cli \notin {"idle", "closing", "done", "dead"}
  /\ arrives => mv[m].wire = "commit" /\ "late" \in scenario.faults /\ mv[m].to \in Daemons
  /\ Step(m, [mv[m] EXCEPT !.cli = "dead", !.source = FALSE, !.target = FALSE,
              !.wire = IF arrives THEN "commit" ELSE "quiet",
              !.inbound = IF mv[m].to \in Daemons THEN mv[m].inbound ELSE "none"])
  /\ UNCHANGED <<own, index, disk, live, newest, seen>>

\* mutant: whatever the target answers counts as its acknowledgement
HearAny(m) ==
  /\ mv[m].cli = "committing" /\ mv[m].wire \in {"ack", "error"}
  /\ Step(m, [mv[m] EXCEPT !.cli = "finish", !.wire = "quiet"])
  /\ UNCHANGED <<own, index, disk, live, newest, seen>>
\* the answer to move_commit
HearAck(m) ==
  /\ mv[m].cli = "committing" /\ mv[m].wire = "ack"
  /\ Step(m, [mv[m] EXCEPT !.cli = "finish", !.wire = "quiet"])
  /\ UNCHANGED <<own, index, disk, live, newest, seen>>

\* mutant: a commit that answered with an error did not commit
CommittedNever(m) == FALSE
\* move_abort: a transfer that committed is reported, not undone; the record of the daemon
\* counts as a commit, a local sink trusts its own acknowledgement alone
Committed(m) ==
  \/ mv[m].inbound = "acked"
  \/ /\ mv[m].to \in Daemons /\ ~mv[m].copy
     /\ own[mv[m].to] # None /\ own[mv[m].to].state = "owned" /\ own[mv[m].to].move = m
\* the outcome is unknown: a handoff stays fenced, a copy gives the source back
Unknown(n) == [n EXCEPT !.target = FALSE, !.cli = IF n.copy THEN "undo" ELSE "done",
                        !.told = IF n.copy THEN "partial" ELSE "unknown"]
\* a transfer that did not commit is closed for good
Aborted(m) == [mv[m] EXCEPT !.aborted = TRUE, !.inbound = "none", !.wire = "quiet"]
\* move_abort awaits the import first
Answers(m) == mv[m].target /\ mv[m].inbound # "importing"
Abort(m, heard) ==
  /\ mv[m].cli = "catch" /\ Answers(m)
  /\ ~heard => "lose" \in scenario.faults /\ mv[m].to \in Daemons
  /\ Step(m, IF Committed(m)
             THEN IF heard THEN [mv[m] EXCEPT !.cli = "retry", !.wire = "quiet"] ELSE Unknown(mv[m])
             ELSE IF heard THEN [Aborted(m) EXCEPT !.cli = "undo", !.told = "unchanged"]
             ELSE Unknown(Aborted(m)))
  /\ UNCHANGED <<own, index, disk, live, newest, seen>>
\* mutant: a target that cannot be asked counts as one that did not commit
AbortFailsUndoes(m) ==
  /\ mv[m].cli = "catch" /\ ~mv[m].target
  /\ Step(m, [mv[m] EXCEPT !.cli = "undo", !.told = "unchanged"])
  /\ UNCHANGED <<own, index, disk, live, newest, seen>>
\* the target cannot be asked
AbortFails(m) ==
  /\ mv[m].cli = "catch" /\ ~mv[m].target
  /\ Step(m, Unknown(mv[m]))
  /\ UNCHANGED <<own, index, disk, live, newest, seen>>

\* mutant: the answer to the second move_commit is not looked at
RetryBlind(m) ==
  /\ mv[m].cli = "retry"
  /\ Step(m, [mv[m] EXCEPT !.cli = "finish"])
  /\ UNCHANGED <<own, index, disk, live, newest, seen>>
\* move_commit once more, for the acknowledgement of a transfer that did commit
Retry(m) ==
  /\ mv[m].cli = "retry"
  /\ Step(m, IF mv[m].target /\ mv[m].inbound = "acked" THEN [mv[m] EXCEPT !.cli = "finish"]
             ELSE IF mv[m].copy THEN [mv[m] EXCEPT !.cli = "undo", !.told = "partial"]
             ELSE [mv[m] EXCEPT !.cli = "done", !.told = "committed"])
  /\ UNCHANGED <<own, index, disk, live, newest, seen>>

\* move_unfence, after a failure or at the end of a copy
Undo(m) ==
  /\ mv[m].cli = "undo" \/ (mv[m].cli = "finish" /\ mv[m].copy)
  /\ IF mv[m].source /\ FencedBy(mv[m].from, m)
     THEN /\ Unfence(mv[m].from)
          /\ Step(m, [mv[m] EXCEPT !.cli = "done", !.told = IF mv[m].cli = "finish" THEN "copied" ELSE mv[m].told])
     ELSE Tell(m, "stuck") /\ UNCHANGED <<own, index, disk, live>>
  /\ UNCHANGED <<newest, seen>>

\* mutant: moveId and movedTo in the wrong order
TombstoneSwapped(m) == [own[mv[m].from] EXCEPT !.state = "moved", !.to = m, !.move = mv[m].to]
\* OwnershipStore.retire
Tombstone(m) == [own[mv[m].from] EXCEPT !.state = "moved", !.to = mv[m].to]
\* move_retire: the record becomes a tombstone, then the registry closes the entry
Finish(m) ==
  /\ mv[m].cli = "finish" /\ ~mv[m].copy
  /\ IF mv[m].source /\ FencedBy(mv[m].from, m)
     THEN /\ own' = [own EXCEPT ![mv[m].from] = Tombstone(m)]
          /\ Step(m, [mv[m] EXCEPT !.cli = "closing"])
     ELSE Tell(m, "retire") /\ UNCHANGED own
  /\ UNCHANGED <<index, disk, live, newest, seen>>
\* registry.retire and close
Close(h) ==
  /\ live' = [live EXCEPT ![h] = FALSE]
  /\ index' = [index EXCEPT ![h] = IF @ = None THEN None ELSE [@ EXCEPT !.status = "closed"]]
  /\ disk' = [disk EXCEPT ![h] = index'[h]]
CloseRetired(m, heard) ==
  /\ mv[m].cli = "closing"
  /\ ~heard => "lose" \in scenario.faults /\ mv[m].from \in Daemons
  /\ IF mv[m].from \in Daemons THEN Close(mv[m].from) ELSE UNCHANGED <<index, disk, live>>
  /\ Tell(m, IF heard THEN "moved" ELSE "retire")
  /\ UNCHANGED <<own, newest, seen>>

---------------------------------------------------------------------------
(* The target: commitOnce.                                                 *)

CanStartImport(m) == /\ mv[m].wire = "commit" /\ mv[m].inbound = "open"
                     /\ ~mv[m].copy => CanImport(mv[m].to) /\ CanAcquire(mv[m].to) /\ ~Stranger(m)

\* mutant: an entry the host still has is kept
ImportedKept(m) ==
  LET t == mv[m].to IN
  [status |-> "running", text |-> IF index[t] = None THEN mv[m].bundle.text ELSE index[t].text]
\* the entry of the imported session names the transcript of the bundle
Imported(m) == [status |-> "running", text |-> mv[m].bundle.text]

\* the checks pass, the session is acquired and its entry made; hosting it takes longer
StartImport(m) ==
  /\ CanStartImport(m) /\ mv[m].to \in Daemons
  /\ Step(m, [mv[m] EXCEPT !.inbound = "importing", !.wire = "quiet", !.undo = [own |-> own[mv[m].to], index |-> index[mv[m].to]]])
  /\ IF mv[m].copy THEN UNCHANGED <<own, index>>
     ELSE /\ own' = [own EXCEPT ![mv[m].to] = Acquired(m)]
          /\ index' = [index EXCEPT ![mv[m].to] = Imported(m)]
  /\ UNCHANGED <<disk, live, newest, seen>>

\* the local sink writes the transcript and its record in one go, unless the transcript
\* it has is not a part of the one that comes
LocalImport(m) ==
  /\ CanStartImport(m) /\ mv[m].to \notin Daemons
  /\ ~mv[m].copy /\ index[mv[m].to] # None => index[mv[m].to].text <= mv[m].bundle.text
  /\ Step(m, [mv[m] EXCEPT !.inbound = "acked", !.wire = "ack"])
  /\ IF mv[m].copy THEN UNCHANGED <<own, index, disk>>
     ELSE /\ own' = [own EXCEPT ![mv[m].to] = Acquired(m)]
          /\ index' = [index EXCEPT ![mv[m].to] = Imported(m)]
          /\ disk' = [disk EXCEPT ![mv[m].to] = Imported(m)]
  /\ UNCHANGED <<live, newest, seen>>

\* the commit is refused before anything is acquired, or never reached a transfer
Answer(m, word) == IF mv[m].target THEN word ELSE "quiet"
RefuseCommit(m) ==
  /\ mv[m].wire = "commit"
  /\ \/ ~CanStartImport(m)
     \/ "fail" \in scenario.faults
     \/ mv[m].to = Home /\ index[Home] # None /\ ~mv[m].copy /\ index[Home].text > mv[m].bundle.text
  /\ Step(m, [mv[m] EXCEPT !.wire = Answer(m, "error"),
              !.inbound = IF mv[m].inbound # "open" THEN mv[m].inbound
                          ELSE IF ~mv[m].copy /\ Stranger(m) THEN "stranger" ELSE "failed"])
  /\ UNCHANGED <<own, index, disk, live, newest, seen>>

\* mutant: the entry of the hosted session is not saved
ImportDoneUnsaved(m, word) ==
  /\ mv[m].inbound = "importing"
  /\ word \in {"ack"} \cup IF "fail" \in scenario.faults THEN {"error"} ELSE {}
  /\ Step(m, [mv[m] EXCEPT !.inbound = "acked", !.wire = Answer(m, word), !.undo = None])
  /\ live' = IF mv[m].copy THEN live ELSE [live EXCEPT ![mv[m].to] = Unblocked(mv[m].to)]
  /\ UNCHANGED <<own, index, disk, newest, seen>>
\* the session is hosted: the acknowledgement; clean-up after it may still fail
ImportDone(m, word) ==
  /\ mv[m].inbound = "importing"
  /\ word \in {"ack"} \cup IF "fail" \in scenario.faults THEN {"error"} ELSE {}
  /\ Step(m, [mv[m] EXCEPT !.inbound = "acked", !.wire = Answer(m, word), !.undo = None])
  /\ IF mv[m].copy THEN UNCHANGED <<live, disk>>
     ELSE /\ live' = [live EXCEPT ![mv[m].to] = Unblocked(mv[m].to)]
          /\ disk' = [disk EXCEPT ![mv[m].to] = index[mv[m].to]]
  /\ UNCHANGED <<own, index, newest, seen>>

\* hosting fails: the entry and the record are put back, or, when they cannot be written,
\* the roll-back ends before the record is released
ImportFails(m, clean) ==
  /\ mv[m].inbound = "importing"
  /\ (IF clean THEN "fail" ELSE "dirty") \in scenario.faults
  /\ Step(m, [mv[m] EXCEPT !.inbound = "failed", !.wire = Answer(m, "error"), !.undo = None])
  /\ IF mv[m].copy THEN UNCHANGED <<own, index, disk>>
     ELSE /\ index' = [index EXCEPT ![mv[m].to] = mv[m].undo.index]
          /\ IF clean THEN /\ own' = [own EXCEPT ![mv[m].to] = mv[m].undo.own]
                           /\ disk' = [disk EXCEPT ![mv[m].to] = mv[m].undo.index]
             ELSE UNCHANGED <<own, disk>>
  /\ UNCHANGED <<live, newest, seen>>

---------------------------------------------------------------------------
(* The daemon and its users.                                               *)

\* a turn of the hosted session
Turn(h) ==
  /\ Writable(h) /\ newest < scenario.turns
  /\ newest' = newest + 1
  /\ index' = [index EXCEPT ![h] = [@ EXCEPT !.text = newest + 1]]
  /\ disk' = [disk EXCEPT ![h] = index'[h]]
  /\ UNCHANGED <<own, live, mv, seen>>

\* open_session and close_session
Open(h) ==
  /\ h \in Daemons /\ index[h] # None /\ Unblocked(h) /\ ~live[h]
  /\ ~Importing(h)
  /\ live' = [live EXCEPT ![h] = TRUE]
  /\ index' = [index EXCEPT ![h] = [@ EXCEPT !.status = "running"]]
  /\ disk' = [disk EXCEPT ![h] = index'[h]]
  /\ UNCHANGED <<own, newest, mv, seen>>
CloseSession(h) ==
  /\ h \in Daemons /\ Resumed(h) /\ Unblocked(h) /\ ~Importing(h)
  /\ Close(h)
  /\ UNCHANGED <<own, newest, mv, seen>>

\* another session saves the index, which holds every entry
SaveIndex(h) ==
  /\ h \in Daemons /\ disk[h] # index[h]
  /\ disk' = [disk EXCEPT ![h] = index[h]]
  /\ UNCHANGED <<own, index, live, newest, mv, seen>>

\* kill -9 or a stop, and the next start: resumeAll hosts what the index marks running and
\* the record allows, and may fail to; a stop during an import whose hosting fails deletes
\* the entry, and the roll-back is refused because the registry is shutting down
Restarted(h, m) ==
  LET n == mv[m] IN
  IF n.from = h \/ n.to = h
  THEN [n EXCEPT !.source = @ /\ n.from # h,
                 !.target = @ /\ n.to # h,
                 !.wire = IF n.to = h THEN "quiet" ELSE @,
                 !.inbound = IF n.to = h THEN "none" ELSE @,
                 !.aborted = @ /\ n.to # h,
                 !.undo = IF n.to = h THEN None ELSE @,
                 !.cli = IF n.from = h /\ @ = "closing" THEN "done" ELSE @,
                 !.told = IF n.from = h /\ n.cli = "closing" THEN "retire" ELSE @]
  ELSE n
Restart(h, resumes, unindexed) ==
  /\ "crash" \in scenario.faults /\ h \in Daemons
  /\ unindexed => "dirty" \in scenario.faults /\ Importing(h)
  /\ index' = [index EXCEPT ![h] = IF unindexed THEN None ELSE disk[h]]
  /\ disk' = [disk EXCEPT ![h] = index'[h]]
  /\ live' = [live EXCEPT ![h] = resumes]
  /\ resumes => index'[h] # None /\ index'[h].status = "running" /\ Unblocked(h)
  /\ mv' = [m \in Moves |-> Restarted(h, m)]
  /\ UNCHANGED <<own, newest, seen>>

---------------------------------------------------------------------------
(* The operator: pi-remote move --abort and --retire, pi-remote recover.   *)

May(m, words) == scenario.recover = "any" \/ (scenario.recover = "told" /\ mv[m].cli = "done" /\ mv[m].told \in words)

\* mutant: the list is not asked for
LookNowhere(h, m) ==
  /\ May(m, {"unknown", "stuck", "committed", "retire"})
  /\ FencedBy(h, m) /\ seen[h] = None
  /\ seen' = [seen EXCEPT ![h] = [move |-> m, holds |-> FALSE]]
  /\ UNCHANGED <<own, index, disk, live, newest, mv>>
\* the host is fenced; the target of the move is asked whether it lists the session
Look(h, m) ==
  /\ May(m, {"unknown", "stuck", "committed", "retire"})
  /\ FencedBy(h, m) /\ seen[h] = None
  /\ seen' = [seen EXCEPT ![h] = [move |-> m, holds |-> Holds(mv[m].to)]]
  /\ UNCHANGED <<own, index, disk, live, newest, mv>>

\* the local record is written as it was read; a daemon unfences only what is fenced
GiveBack(h) ==
  /\ seen[h] # None /\ ~seen[h].holds
  /\ May(seen[h].move, {"unknown", "stuck"})
  /\ IF h = Home \/ (own[h] # None /\ own[h].state = "fenced") THEN Unfence(h) ELSE UNCHANGED <<own, index, disk, live>>
  /\ seen' = [seen EXCEPT ![h] = None]
  /\ UNCHANGED <<newest, mv>>
Retire(h) ==
  /\ seen[h] # None /\ seen[h].holds
  /\ May(seen[h].move, {"unknown", "committed", "retire"})
  /\ LET m == seen[h].move IN
     IF h = Home \/ FencedBy(h, m)
     THEN /\ own' = [own EXCEPT ![h] = [@ EXCEPT !.state = "moved", !.move = m,
                                                 !.to = IF mv[m].told = "retire" THEN mv[m].to ELSE None]]
          /\ IF h \in Daemons THEN Close(h) ELSE UNCHANGED <<index, disk, live>>
     ELSE UNCHANGED <<own, index, disk, live>>
  /\ seen' = [seen EXCEPT ![h] = None]
  /\ UNCHANGED <<newest, mv>>

---------------------------------------------------------------------------
Orchestrate(m) ==
  \/ Export(m) \/ Begin(m) \/ SendCommit(m) \/ Break(m) \/ HearAck(m)
  \/ AbortFails(m) \/ Retry(m) \/ Undo(m) \/ Finish(m)
  \/ \E heard \in BOOLEAN : Abort(m, heard) \/ CloseRetired(m, heard)
Import(m) ==
  \/ StartImport(m) \/ LocalImport(m) \/ RefuseCommit(m)
  \/ \E word \in {"ack", "error"} : ImportDone(m, word)
  \/ \E clean \in BOOLEAN : ImportFails(m, clean)
Ask(m) ==
  /\ m <= scenario.moves /\ \A n \in 1..m-1 : mv[n].cli # "idle"
  /\ \E s, t \in scenario.hosts :
       \/ FenceFails(m, s, t)
       \/ \E c, heard \in BOOLEAN : Fence(m, s, t, c, heard)
Disturb(m) == LoseSource(m) \/ \E arrives \in BOOLEAN : LoseTarget(m, arrives) \/ Die(m, arrives)
Use(h) == Turn(h) \/ Open(h) \/ CloseSession(h) \/ SaveIndex(h)
Crash(h) == \E resumes, unindexed \in BOOLEAN : Restart(h, resumes, unindexed)
Operate(h) == GiveBack(h) \/ Retire(h) \/ \E m \in Moves : Look(h, m)

Next ==
  /\ \/ \E m \in Moves : Orchestrate(m) \/ Import(m) \/ Ask(m) \/ Disturb(m)
     \/ \E h \in Hosts : Use(h) \/ Crash(h) \/ Operate(h)
  /\ UNCHANGED scenario

Spec == Init /\ [][Next]_vars

\* the processes that were asked to move and the daemons that import do go on; a move takes
\* finitely many steps, so that none has to be singled out
FairSpec == Spec /\ WF_moving(\E m \in Moves : Orchestrate(m) \/ Import(m))

---------------------------------------------------------------------------
(* Properties.                                                             *)

\* At most one host can write to the session: the header of core/ownership.ts and the
\* package's README ("there is never a second live writer").
OneWriter == \A g, h \in Hosts : Writable(g) /\ Writable(h) => g = h

\* The writer holds the highest epoch of all hosts that list the session, strictly: a stale
\* holder can be told apart from the current one (the header of core/ownership.ts).
LatestEpochWrites == \A g, h \in Hosts : Writable(h) /\ g # h /\ index[g] # None => Epoch(g) < Epoch(h)

\* One daemon at most writes, and nobody can mistake another for it.
HandOverIsSafe == OneWriter /\ LatestEpochWrites

\* The newest transcript is at a host that owns the session or fences it for a move in
\* progress: no failure leaves it with a tombstone alone. (An operator may.)
NewestIsKept ==
  scenario.recover # "never" \/
  \E h \in Hosts : /\ index[h] # None /\ index[h].text = newest
                   /\ own[h] = None \/ own[h].state \in {"owned", "fenced"}

\* Whoever can write continues the newest transcript: a host that takes the session back
\* never goes on from the one it kept when it gave the session away. (A daemon that dies
\* between its record and its entry may.)
WriterIsNewest ==
  "crash" \in scenario.faults \/ \A h \in Hosts : Writable(h) => index[h].text = newest

\* A move that was reported as failed with the source unchanged has given the source back
\* and can no longer take the session: the abort closed it for good.
UnchangedIsFinal ==
  \A m \in Moves : mv[m].told = "unchanged" /\ mv[m].cli = "done" =>
    /\ ~FencedBy(mv[m].from, m)
    /\ ~mv[m].copy => own[mv[m].to] = None \/ own[mv[m].to].move # m

\* A session whose import was acknowledged survives the target: as long as its record names
\* that move as the last, the saved index has the session with what the bundle brought.
MovedIsSaved ==
  \A m \in Moves : mv[m].told \in {"moved", "retire"} /\ ~mv[m].copy =>
    (own[mv[m].to] # None /\ own[mv[m].to].move = m =>
       disk[mv[m].to] # None /\ disk[mv[m].to].text >= mv[m].bundle.text)

\* Whatever fails on the way to it, the newest transcript is not lost, and what was delivered
\* is saved; where no daemon dies, no older transcript is continued.
NothingIsLost == NewestIsKept /\ WriterIsNewest /\ MovedIsSaved

\* No move is under way and, if no connection broke, some host can write.
Settled ==
  /\ \A m \in Moves : mv[m].cli \in {"idle", "done", "dead"}
  /\ scenario.faults \subseteq {"fail"} => \E h \in Hosts : Holds(h)

\* Every move ends, with an answer to the user or with its process, and while the connections
\* hold a fence is never the end. An answer that the source is unchanged is final.
AnswersAreTrue == []<>Settled /\ []UnchangedIsFinal

------------------------------------------------------------------------------
(* What the code says elsewhere and does not keep: see Divergences in the README *)

\* A message that the target holds the session is true: it has an entry a restart finds
\* (the comment above MoveHost.abort: "the target owns the session").
CommittedIsHeld ==
  \A m \in Moves : mv[m].told = "committed" =>
    (own[mv[m].to] # None /\ own[mv[m].to].move = m => index[mv[m].to] # None)

\* A move that fails before the acknowledgement leaves the source unfenced, unless the
\* message says that it stays fenced (README of pi-better-server).
FailureUnfences == \A m \in Moves : mv[m].told = "failed" => ~FencedBy(mv[m].from, m)

\* A return out of the daemon the session was handed to is not refused as a stranger's.
HomeComing ==
  \A m \in Moves : mv[m].inbound = "stranger" =>
    LET t == own[mv[m].to] IN
    t # None /\ t.state = "moved" /\ t.move # None => mv[t.move].to # mv[m].from
====
