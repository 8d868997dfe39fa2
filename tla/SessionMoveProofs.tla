------------------------- MODULE SessionMoveProofs -------------------------
(* Type correctness of the hand-over of a session, and that it is safe, loses    *)
(* nothing and keeps its word, for any number of hosts, moves and turns.         *)
EXTENDS SessionMove, TLAPS

-----------------------------------------------------------------------------
(* Type correctness *)

\* The move is over for its process, and the target imports nothing for it any more.
Over(n) == n.cli \in {"undo", "retry", "finish", "closing"} \/ n.told \in {"moved", "retire"}

\* The order in which a move comes to its steps.
InOrder(n) ==
  /\ n.cli = "idle" => n = Idle
  /\ n.cli # "idle" => n.from \in Hosts /\ n.to \in Hosts /\ n.from # n.to
  /\ \/ n.cli \in {"bundled", "begun", "committing", "finish", "closing"}
     \/ n.inbound # "none" \/ n.wire # "quiet" \/ n.told \in {"moved", "retire"}
     => n.bundle # None
  /\ n.inbound = "importing" => n.undo # None /\ n.to \in Daemons /\ n.wire = "quiet"
  /\ n.cli \in {"idle", "fenced", "bundled"} => n.inbound = "none" /\ n.wire = "quiet"
  /\ n.cli = "begun" => n.wire = "quiet" /\ n.inbound \in {"none", "open"}
  /\ n.wire = "ack" => n.inbound = "acked"
  /\ ~n.copy /\ Over(n) => n.wire = "quiet" /\ n.inbound # "importing"
  /\ ~n.copy /\ n.cli = "undo" => n.inbound = "none"
  /\ n.told \in {"moved", "retire"} => n.cli = "done"

MovesInOrder == \A m \in Moves : InOrder(mv[m])
SeenIsRecorded == seen[Home] # None => own[Home] # None
TypeInv == TypeOK /\ MovesInOrder /\ SeenIsRecorded

LEMMA StepType ==
    ASSUME TypeInv, NEW m \in Moves, NEW r \in Transfers, InOrder(r), Step(m, r)
    PROVE  mv' \in [Moves -> Transfers] /\ MovesInOrder'
  BY DEF Step, TypeInv, TypeOK, MovesInOrder

LEMMA InitType == Init => TypeInv
<1> SUFFICES ASSUME Init PROVE TypeInv
  OBVIOUS
<1>1. Idle \in Transfers /\ InOrder(Idle)
  BY DEF Idle, Transfers, InOrder, Over, Stages, Receptions, Words
<1>2. [status |-> "running", text |-> 0] \in Entries
  BY MoveAssumption DEF Entries
<1>3. QED
  BY <1>1, <1>2, MoveAssumption DEF Init, TypeInv, TypeOK, MovesInOrder, SeenIsRecorded

LEMMA MoveFields ==
    ASSUME TypeInv, NEW m \in Moves
    PROVE  mv[m] \in Transfers /\ InOrder(mv[m])
  BY DEF TypeInv, TypeOK, MovesInOrder

LEMMA EpochType == ASSUME TypeInv, NEW h \in Hosts PROVE Epoch(h) \in Nat
  BY DEF TypeInv, TypeOK, Epoch, Records

-----------------------------------------------------------------------------
(* The steps of a move *)

Transferable(n) == n.wire = "commit" /\ n.inbound = "open"

\* The move can still give the session back or hand it over.
Pending(n) ==
  \/ n.cli = "undo"
  \/ n.cli \in {"fenced", "bundled", "begun", "committing", "catch"} /\ n.target /\ n.inbound # "acked"
  \/ Transferable(n)
  \/ n.inbound = "importing"

\* The source is about to be retired for good.
Spent(n) == ~n.copy /\ (n.inbound = "acked" \/ n.cli = "finish")

\* The target has the session.
Delivered(n) ==
  ~n.copy /\ (n.inbound = "acked" \/ n.cli \in {"finish", "closing"} \/ n.told \in {"moved", "retire"})

\* n becomes r, or stays, and nothing passes from host to host.
Follows(n, r) ==
  /\ r.from = n.from /\ r.to = n.to /\ r.copy = n.copy
  /\ r.cli = "idle" <=> n.cli = "idle"
  /\ r.source => n.source
  /\ ~n.copy =>
       /\ r.inbound = "importing" <=> n.inbound = "importing"
       /\ n.inbound = "importing" => r.undo = n.undo
       /\ Pending(r) => Pending(n)
  /\ Spent(r) => Spent(n)
  /\ Delivered(r) => Delivered(n)

Goes(n, r) == r \in Transfers /\ InOrder(r) /\ n.cli # "idle" /\ Follows(n, r)

LEMMA ExportGoes ==
    ASSUME NEW n \in Transfers, InOrder(n), NEW b \in Bundles, n.cli = "fenced"
    PROVE  Goes(n, [n EXCEPT !.cli = "bundled", !.bundle = b])
<1> DEFINE r == [n EXCEPT !.cli = "bundled", !.bundle = b]
<1>1. /\ r \in Transfers
      /\ r.from = n.from /\ r.to = n.to /\ r.copy = n.copy /\ r.cli = "bundled" /\ r.source = n.source
      /\ r.target = n.target /\ r.wire = n.wire /\ r.inbound = n.inbound /\ r.aborted = n.aborted
      /\ r.bundle = b
      /\ r.undo = n.undo /\ r.told = n.told
  <2>1. "bundled" \in Stages /\ b \in Bundles \cup {None}
    BY DEF Transfers, Stages, Receptions, Words
  <2>2. QED
    BY <2>1 DEF Transfers
<1> HIDE DEF r
<1>2. InOrder(r)
  BY <1>1, NoneAssumption DEF InOrder, Over, Idle
<1>3. Goes(n, r)
  BY <1>1, <1>2 DEF Goes, Follows, Pending, Transferable, Spent, Delivered, InOrder, Over
<1>4. QED
  BY <1>3 DEF r

LEMMA BeginGoes ==
    ASSUME NEW n \in Transfers, InOrder(n), n.cli = "bundled", n.target
    PROVE  Goes(n, [n EXCEPT !.cli = "begun", !.inbound = "open"])
<1> DEFINE r == [n EXCEPT !.cli = "begun", !.inbound = "open"]
<1>1. /\ r \in Transfers
      /\ r.from = n.from /\ r.to = n.to /\ r.copy = n.copy /\ r.cli = "begun" /\ r.source = n.source
      /\ r.target = n.target /\ r.wire = n.wire /\ r.inbound = "open" /\ r.aborted = n.aborted
      /\ r.bundle = n.bundle
      /\ r.undo = n.undo /\ r.told = n.told
  <2>1. "begun" \in Stages /\ "open" \in Receptions
    BY DEF Transfers, Stages, Receptions, Words
  <2>2. QED
    BY <2>1 DEF Transfers
<1> HIDE DEF r
<1>2. InOrder(r)
  BY <1>1, NoneAssumption DEF InOrder, Over, Idle
<1>3. Goes(n, r)
  BY <1>1, <1>2 DEF Goes, Follows, Pending, Transferable, Spent, Delivered, InOrder, Over
<1>4. QED
  BY <1>3 DEF r

LEMMA SendGoes ==
    ASSUME NEW n \in Transfers, InOrder(n), n.cli = "begun", n.target, n.inbound = "open"
    PROVE  Goes(n, [n EXCEPT !.cli = "committing", !.wire = "commit"])
<1> DEFINE r == [n EXCEPT !.cli = "committing", !.wire = "commit"]
<1>1. /\ r \in Transfers
      /\ r.from = n.from /\ r.to = n.to /\ r.copy = n.copy /\ r.cli = "committing" /\ r.source = n.source
      /\ r.target = n.target /\ r.wire = "commit" /\ r.inbound = n.inbound /\ r.aborted = n.aborted
      /\ r.bundle = n.bundle
      /\ r.undo = n.undo /\ r.told = n.told
  <2>1. "committing" \in Stages /\ "commit" \in {"quiet", "commit", "ack", "error"}
    BY DEF Transfers, Stages, Receptions, Words
  <2>2. QED
    BY <2>1 DEF Transfers
<1> HIDE DEF r
<1>2. InOrder(r)
  BY <1>1, NoneAssumption DEF InOrder, Over, Idle
<1>3. Goes(n, r)
  BY <1>1, <1>2 DEF Goes, Follows, Pending, Transferable, Spent, Delivered, InOrder, Over
<1>4. QED
  BY <1>3 DEF r

LEMMA BreakGoes ==
    ASSUME NEW n \in Transfers, InOrder(n), n.cli \in {"fenced", "bundled", "begun", "committing"}
    PROVE  Goes(n, [n EXCEPT !.cli = "catch"])
<1> DEFINE r == [n EXCEPT !.cli = "catch"]
<1>1. /\ r \in Transfers
      /\ r.from = n.from /\ r.to = n.to /\ r.copy = n.copy /\ r.cli = "catch" /\ r.source = n.source
      /\ r.target = n.target /\ r.wire = n.wire /\ r.inbound = n.inbound /\ r.aborted = n.aborted
      /\ r.bundle = n.bundle
      /\ r.undo = n.undo /\ r.told = n.told
  <2>1. "catch" \in Stages
    BY DEF Transfers, Stages, Receptions, Words
  <2>2. QED
    BY <2>1 DEF Transfers
<1> HIDE DEF r
<1>2. InOrder(r)
  BY <1>1, NoneAssumption DEF InOrder, Over, Idle
<1>3. Goes(n, r)
  BY <1>1, <1>2 DEF Goes, Follows, Pending, Transferable, Spent, Delivered, InOrder, Over
<1>4. QED
  BY <1>3 DEF r

LEMMA LoseSourceGoes ==
    ASSUME NEW n \in Transfers, InOrder(n), n.cli # "idle"
    PROVE  Goes(n, [n EXCEPT !.source = FALSE])
<1> DEFINE r == [n EXCEPT !.source = FALSE]
<1>1. /\ r \in Transfers
      /\ r.from = n.from /\ r.to = n.to /\ r.copy = n.copy /\ r.cli = n.cli /\ r.source = FALSE
      /\ r.target = n.target /\ r.wire = n.wire /\ r.inbound = n.inbound /\ r.aborted = n.aborted
      /\ r.bundle = n.bundle
      /\ r.undo = n.undo /\ r.told = n.told
  <2>1. FALSE \in BOOLEAN
    BY DEF Transfers, Stages, Receptions, Words
  <2>2. QED
    BY <2>1 DEF Transfers
<1> HIDE DEF r
<1>2. InOrder(r)
  BY <1>1, NoneAssumption DEF InOrder, Over, Idle
<1>3. Goes(n, r)
  BY <1>1, <1>2 DEF Goes, Follows, Pending, Transferable, Spent, Delivered, InOrder, Over
<1>4. QED
  BY <1>3 DEF r

LEMMA LoseTargetGoes ==
    ASSUME NEW n \in Transfers, InOrder(n), NEW w \in {"commit", "quiet"}, n.cli # "idle",
           w = "commit" => n.wire = "commit"
    PROVE  Goes(n, [n EXCEPT !.target = FALSE, !.wire = w])
<1> DEFINE r == [n EXCEPT !.target = FALSE, !.wire = w]
<1>1. /\ r \in Transfers
      /\ r.from = n.from /\ r.to = n.to /\ r.copy = n.copy /\ r.cli = n.cli /\ r.source = n.source
      /\ r.target = FALSE /\ r.wire = w /\ r.inbound = n.inbound /\ r.aborted = n.aborted
      /\ r.bundle = n.bundle
      /\ r.undo = n.undo /\ r.told = n.told
  <2>1. FALSE \in BOOLEAN /\ w \in {"quiet", "commit", "ack", "error"}
    BY DEF Transfers, Stages, Receptions, Words
  <2>2. QED
    BY <2>1 DEF Transfers
<1> HIDE DEF r
<1>2. InOrder(r)
  BY <1>1, NoneAssumption DEF InOrder, Over, Idle
<1>3. Goes(n, r)
  BY <1>1, <1>2 DEF Goes, Follows, Pending, Transferable, Spent, Delivered, InOrder, Over
<1>4. QED
  BY <1>3 DEF r

LEMMA DieGoes ==
    ASSUME NEW n \in Transfers, InOrder(n), NEW w \in {"commit", "quiet"}, NEW i \in {n.inbound, "none"},
           n.cli \notin {"idle", "closing", "done", "dead"}, w = "commit" => n.wire = "commit",
           i = IF n.to \in Daemons THEN n.inbound ELSE "none"
    PROVE  Goes(n, [n EXCEPT !.cli = "dead", !.source = FALSE, !.target = FALSE, !.wire = w, !.inbound = i])
<1> DEFINE r == [n EXCEPT !.cli = "dead", !.source = FALSE, !.target = FALSE, !.wire = w, !.inbound = i]
<1>1. /\ r \in Transfers
      /\ r.from = n.from /\ r.to = n.to /\ r.copy = n.copy /\ r.cli = "dead" /\ r.source = FALSE
      /\ r.target = FALSE /\ r.wire = w /\ r.inbound = i /\ r.aborted = n.aborted /\ r.bundle = n.bundle
      /\ r.undo = n.undo /\ r.told = n.told
  <2>1. "dead" \in Stages /\ FALSE \in BOOLEAN /\ FALSE \in BOOLEAN /\ w \in {"quiet", "commit", "ack", "error"} /\ i \in Receptions
    BY DEF Transfers, Stages, Receptions, Words
  <2>2. r \in Transfers
    <3>1. ASSUME NEW x \in {"quiet", "commit", "ack", "error"}, NEW y \in Receptions
          PROVE  [n EXCEPT !.cli = "dead", !.source = FALSE, !.target = FALSE, !.wire = x, !.inbound = y] \in Transfers
      BY <2>1 DEF Transfers
    <3>2. QED
      BY <2>1, <3>1
  <2>3. /\ r.from = n.from /\ r.to = n.to /\ r.copy = n.copy /\ r.cli = "dead" /\ r.source = FALSE
        /\ r.undo = n.undo /\ r.told = n.told
    BY DEF Transfers
  <2>4. /\ r.target = FALSE /\ r.wire = w /\ r.inbound = i /\ r.aborted = n.aborted /\ r.bundle = n.bundle
    BY DEF Transfers
  <2> HIDE DEF r
  <2>5. QED
    BY <2>2, <2>3, <2>4
<1> HIDE DEF r
<1>2. InOrder(r)
  BY <1>1, NoneAssumption DEF InOrder, Over, Idle
<1>3. Goes(n, r)
  BY <1>1, <1>2 DEF Goes, Follows, Pending, Transferable, Spent, Delivered, InOrder, Over
<1>4. QED
  BY <1>3 DEF r

LEMMA HearGoes ==
    ASSUME NEW n \in Transfers, InOrder(n), n.cli = "committing", n.wire = "ack"
    PROVE  Goes(n, [n EXCEPT !.cli = "finish", !.wire = "quiet"])
<1> DEFINE r == [n EXCEPT !.cli = "finish", !.wire = "quiet"]
<1>1. /\ r \in Transfers
      /\ r.from = n.from /\ r.to = n.to /\ r.copy = n.copy /\ r.cli = "finish" /\ r.source = n.source
      /\ r.target = n.target /\ r.wire = "quiet" /\ r.inbound = n.inbound /\ r.aborted = n.aborted
      /\ r.bundle = n.bundle
      /\ r.undo = n.undo /\ r.told = n.told
  <2>1. "finish" \in Stages /\ "quiet" \in {"quiet", "commit", "ack", "error"}
    BY DEF Transfers, Stages, Receptions, Words
  <2>2. QED
    BY <2>1 DEF Transfers
<1> HIDE DEF r
<1>2. InOrder(r)
  BY <1>1, NoneAssumption DEF InOrder, Over, Idle
<1>3. Goes(n, r)
  BY <1>1, <1>2 DEF Goes, Follows, Pending, Transferable, Spent, Delivered, InOrder, Over
<1>4. QED
  BY <1>3 DEF r

LEMMA RetryAbortGoes ==
    ASSUME NEW n \in Transfers, InOrder(n), n.cli = "catch", n.inbound # "importing", n.target
    PROVE  Goes(n, [n EXCEPT !.cli = "retry", !.wire = "quiet"])
<1> DEFINE r == [n EXCEPT !.cli = "retry", !.wire = "quiet"]
<1>1. /\ r \in Transfers
      /\ r.from = n.from /\ r.to = n.to /\ r.copy = n.copy /\ r.cli = "retry" /\ r.source = n.source
      /\ r.target = n.target /\ r.wire = "quiet" /\ r.inbound = n.inbound /\ r.aborted = n.aborted
      /\ r.bundle = n.bundle
      /\ r.undo = n.undo /\ r.told = n.told
  <2>1. "retry" \in Stages /\ "quiet" \in {"quiet", "commit", "ack", "error"}
    BY DEF Transfers, Stages, Receptions, Words
  <2>2. QED
    BY <2>1 DEF Transfers
<1> HIDE DEF r
<1>2. InOrder(r)
  BY <1>1, NoneAssumption DEF InOrder, Over, Idle
<1>3. Goes(n, r)
  BY <1>1, <1>2 DEF Goes, Follows, Pending, Transferable, Spent, Delivered, InOrder, Over
<1>4. QED
  BY <1>3 DEF r

LEMMA UndoAbortGoes ==
    ASSUME NEW n \in Transfers, InOrder(n), n.cli = "catch", n.inbound \notin {"importing", "acked"},
           n.target
    PROVE  Goes(n, [n EXCEPT !.aborted = TRUE, !.inbound = "none", !.wire = "quiet", !.cli = "undo", !.told = "unchanged"])
<1> DEFINE r == [n EXCEPT !.aborted = TRUE, !.inbound = "none", !.wire = "quiet", !.cli = "undo", !.told = "unchanged"]
<1>1. /\ r \in Transfers
      /\ r.from = n.from /\ r.to = n.to /\ r.copy = n.copy /\ r.cli = "undo" /\ r.source = n.source
      /\ r.target = n.target /\ r.wire = "quiet" /\ r.inbound = "none" /\ r.aborted = TRUE
      /\ r.bundle = n.bundle
      /\ r.undo = n.undo /\ r.told = "unchanged"
  <2>1. TRUE \in BOOLEAN /\ "none" \in Receptions /\ "quiet" \in {"quiet", "commit", "ack", "error"} /\ "undo" \in Stages /\ "unchanged" \in Words
    BY DEF Transfers, Stages, Receptions, Words
  <2>2. QED
    BY <2>1 DEF Transfers
<1> HIDE DEF r
<1>2. InOrder(r)
  BY <1>1, NoneAssumption DEF InOrder, Over, Idle
<1>3. Goes(n, r)
  BY <1>1, <1>2 DEF Goes, Follows, Pending, Transferable, Spent, Delivered, InOrder, Over
<1>4. QED
  BY <1>3 DEF r

LEMMA UnheardAbortGoes ==
    ASSUME NEW n \in Transfers, InOrder(n), NEW c, NEW w, n.cli = "catch", n.inbound # "importing",
           n.target,
           c = IF n.copy THEN "undo" ELSE "done", w = IF n.copy THEN "partial" ELSE "unknown"
    PROVE  Goes(n, [n EXCEPT !.aborted = TRUE, !.inbound = "none", !.wire = "quiet", !.target = FALSE, !.cli = c, !.told = w])
<1> DEFINE r == [n EXCEPT !.aborted = TRUE, !.inbound = "none", !.wire = "quiet", !.target = FALSE, !.cli = c, !.told = w]
<1>1. /\ r \in Transfers
      /\ r.from = n.from /\ r.to = n.to /\ r.copy = n.copy /\ r.cli = c /\ r.source = n.source
      /\ r.target = FALSE /\ r.wire = "quiet" /\ r.inbound = "none" /\ r.aborted = TRUE
      /\ r.bundle = n.bundle
      /\ r.undo = n.undo /\ r.told = w
  <2>1. TRUE \in BOOLEAN /\ "none" \in Receptions /\ "quiet" \in {"quiet", "commit", "ack", "error"} /\ FALSE \in BOOLEAN /\ c \in Stages /\ w \in Words
    BY DEF Transfers, Stages, Receptions, Words
  <2>2. r \in Transfers
    <3>1. ASSUME NEW x \in Stages, NEW y \in Words
          PROVE  [n EXCEPT !.aborted = TRUE, !.inbound = "none", !.wire = "quiet", !.target = FALSE, !.cli = x, !.told = y]
                   \in Transfers
      BY <2>1 DEF Transfers
    <3>2. QED
      BY <2>1, <3>1
  <2>3. /\ r.from = n.from /\ r.to = n.to /\ r.copy = n.copy /\ r.cli = c /\ r.source = n.source
        /\ r.undo = n.undo /\ r.told = w
    BY DEF Transfers
  <2>4. /\ r.target = FALSE /\ r.wire = "quiet" /\ r.inbound = "none" /\ r.aborted = TRUE
        /\ r.bundle = n.bundle
    BY DEF Transfers
  <2> HIDE DEF r
  <2>5. QED
    BY <2>2, <2>3, <2>4
<1> HIDE DEF r
<1>2. InOrder(r)
  BY <1>1, NoneAssumption DEF InOrder, Over, Idle
<1>3. Goes(n, r)
  BY <1>1, <1>2 DEF Goes, Follows, Pending, Transferable, Spent, Delivered, InOrder, Over
<1>4. QED
  BY <1>3 DEF r

LEMMA UnknownGoes ==
    ASSUME NEW n \in Transfers, InOrder(n), NEW c, NEW w, n.cli = "catch",
           c = IF n.copy THEN "undo" ELSE "done", w = IF n.copy THEN "partial" ELSE "unknown"
    PROVE  Goes(n, [n EXCEPT !.target = FALSE, !.cli = c, !.told = w])
<1> DEFINE r == [n EXCEPT !.target = FALSE, !.cli = c, !.told = w]
<1>1. /\ r \in Transfers
      /\ r.from = n.from /\ r.to = n.to /\ r.copy = n.copy /\ r.cli = c /\ r.source = n.source
      /\ r.target = FALSE /\ r.wire = n.wire /\ r.inbound = n.inbound /\ r.aborted = n.aborted
      /\ r.bundle = n.bundle
      /\ r.undo = n.undo /\ r.told = w
  <2>1. FALSE \in BOOLEAN /\ c \in Stages /\ w \in Words
    BY DEF Transfers, Stages, Receptions, Words
  <2>2. r \in Transfers
    <3>1. ASSUME NEW x \in Stages, NEW y \in Words
          PROVE  [n EXCEPT !.target = FALSE, !.cli = x, !.told = y] \in Transfers
      BY <2>1 DEF Transfers
    <3>2. QED
      BY <2>1, <3>1
  <2>3. /\ r.from = n.from /\ r.to = n.to /\ r.copy = n.copy /\ r.cli = c /\ r.source = n.source
        /\ r.target = FALSE /\ r.wire = n.wire /\ r.inbound = n.inbound
    BY DEF Transfers
  <2>4. r.aborted = n.aborted /\ r.bundle = n.bundle /\ r.undo = n.undo /\ r.told = w
    BY DEF Transfers
  <2> HIDE DEF r
  <2>5. QED
    BY <2>2, <2>3, <2>4
<1> HIDE DEF r
<1>2. InOrder(r)
  BY <1>1, NoneAssumption DEF InOrder, Over, Idle
<1>3. Goes(n, r)
  BY <1>1, <1>2 DEF Goes, Follows, Pending, Transferable, Spent, Delivered, InOrder, Over
<1>4. QED
  BY <1>3 DEF r

LEMMA FinishRetryGoes ==
    ASSUME NEW n \in Transfers, InOrder(n), n.cli = "retry", n.inbound = "acked"
    PROVE  Goes(n, [n EXCEPT !.cli = "finish"])
<1> DEFINE r == [n EXCEPT !.cli = "finish"]
<1>1. /\ r \in Transfers
      /\ r.from = n.from /\ r.to = n.to /\ r.copy = n.copy /\ r.cli = "finish" /\ r.source = n.source
      /\ r.target = n.target /\ r.wire = n.wire /\ r.inbound = n.inbound /\ r.aborted = n.aborted
      /\ r.bundle = n.bundle
      /\ r.undo = n.undo /\ r.told = n.told
  <2>1. "finish" \in Stages
    BY DEF Transfers, Stages, Receptions, Words
  <2>2. QED
    BY <2>1 DEF Transfers
<1> HIDE DEF r
<1>2. InOrder(r)
  BY <1>1, NoneAssumption DEF InOrder, Over, Idle
<1>3. Goes(n, r)
  BY <1>1, <1>2 DEF Goes, Follows, Pending, Transferable, Spent, Delivered, InOrder, Over
<1>4. QED
  BY <1>3 DEF r

LEMMA CopyRetryGoes ==
    ASSUME NEW n \in Transfers, InOrder(n), n.cli = "retry", n.copy
    PROVE  Goes(n, [n EXCEPT !.cli = "undo", !.told = "partial"])
<1> DEFINE r == [n EXCEPT !.cli = "undo", !.told = "partial"]
<1>1. /\ r \in Transfers
      /\ r.from = n.from /\ r.to = n.to /\ r.copy = n.copy /\ r.cli = "undo" /\ r.source = n.source
      /\ r.target = n.target /\ r.wire = n.wire /\ r.inbound = n.inbound /\ r.aborted = n.aborted
      /\ r.bundle = n.bundle
      /\ r.undo = n.undo /\ r.told = "partial"
  <2>1. "undo" \in Stages /\ "partial" \in Words
    BY DEF Transfers, Stages, Receptions, Words
  <2>2. QED
    BY <2>1 DEF Transfers
<1> HIDE DEF r
<1>2. InOrder(r)
  BY <1>1, NoneAssumption DEF InOrder, Over, Idle
<1>3. Goes(n, r)
  BY <1>1, <1>2 DEF Goes, Follows, Pending, Transferable, Spent, Delivered, InOrder, Over
<1>4. QED
  BY <1>3 DEF r

LEMMA EndRetryGoes ==
    ASSUME NEW n \in Transfers, InOrder(n), n.cli = "retry", ~n.copy
    PROVE  Goes(n, [n EXCEPT !.cli = "done", !.told = "committed"])
<1> DEFINE r == [n EXCEPT !.cli = "done", !.told = "committed"]
<1>1. /\ r \in Transfers
      /\ r.from = n.from /\ r.to = n.to /\ r.copy = n.copy /\ r.cli = "done" /\ r.source = n.source
      /\ r.target = n.target /\ r.wire = n.wire /\ r.inbound = n.inbound /\ r.aborted = n.aborted
      /\ r.bundle = n.bundle
      /\ r.undo = n.undo /\ r.told = "committed"
  <2>1. "done" \in Stages /\ "committed" \in Words
    BY DEF Transfers, Stages, Receptions, Words
  <2>2. QED
    BY <2>1 DEF Transfers
<1> HIDE DEF r
<1>2. InOrder(r)
  BY <1>1, NoneAssumption DEF InOrder, Over, Idle
<1>3. Goes(n, r)
  BY <1>1, <1>2 DEF Goes, Follows, Pending, Transferable, Spent, Delivered, InOrder, Over
<1>4. QED
  BY <1>3 DEF r

LEMMA UndoneGoes ==
    ASSUME NEW n \in Transfers, InOrder(n), NEW w \in Words, n.cli = "undo" \/ (n.cli = "finish" /\ n.copy),
           w \notin {"moved", "retire"}
    PROVE  Goes(n, [n EXCEPT !.cli = "done", !.told = w])
<1> DEFINE r == [n EXCEPT !.cli = "done", !.told = w]
<1>1. /\ r \in Transfers
      /\ r.from = n.from /\ r.to = n.to /\ r.copy = n.copy /\ r.cli = "done" /\ r.source = n.source
      /\ r.target = n.target /\ r.wire = n.wire /\ r.inbound = n.inbound /\ r.aborted = n.aborted
      /\ r.bundle = n.bundle
      /\ r.undo = n.undo /\ r.told = w
  <2>1. "done" \in Stages /\ w \in Words
    BY DEF Transfers, Stages, Receptions, Words
  <2>2. QED
    BY <2>1 DEF Transfers
<1> HIDE DEF r
<1>2. InOrder(r)
  BY <1>1, NoneAssumption DEF InOrder, Over, Idle
<1>3. Goes(n, r)
  BY <1>1, <1>2 DEF Goes, Follows, Pending, Transferable, Spent, Delivered, InOrder, Over
<1>4. QED
  BY <1>3 DEF r

LEMMA ClosingGoes ==
    ASSUME NEW n \in Transfers, InOrder(n), n.cli = "finish", ~n.copy
    PROVE  Goes(n, [n EXCEPT !.cli = "closing"])
<1> DEFINE r == [n EXCEPT !.cli = "closing"]
<1>1. /\ r \in Transfers
      /\ r.from = n.from /\ r.to = n.to /\ r.copy = n.copy /\ r.cli = "closing" /\ r.source = n.source
      /\ r.target = n.target /\ r.wire = n.wire /\ r.inbound = n.inbound /\ r.aborted = n.aborted
      /\ r.bundle = n.bundle
      /\ r.undo = n.undo /\ r.told = n.told
  <2>1. "closing" \in Stages
    BY DEF Transfers, Stages, Receptions, Words
  <2>2. QED
    BY <2>1 DEF Transfers
<1> HIDE DEF r
<1>2. InOrder(r)
  BY <1>1, NoneAssumption DEF InOrder, Over, Idle
<1>3. Goes(n, r)
  BY <1>1, <1>2 DEF Goes, Follows, Pending, Transferable, Spent, Delivered, InOrder, Over
<1>4. QED
  BY <1>3 DEF r

LEMMA ToldGoes ==
    ASSUME NEW n \in Transfers, InOrder(n), NEW w \in {"moved", "retire"},
           n.cli = "closing" \/ (n.cli = "finish" /\ ~n.copy)
    PROVE  Goes(n, [n EXCEPT !.cli = "done", !.told = w])
<1> DEFINE r == [n EXCEPT !.cli = "done", !.told = w]
<1>1. /\ r \in Transfers
      /\ r.from = n.from /\ r.to = n.to /\ r.copy = n.copy /\ r.cli = "done" /\ r.source = n.source
      /\ r.target = n.target /\ r.wire = n.wire /\ r.inbound = n.inbound /\ r.aborted = n.aborted
      /\ r.bundle = n.bundle
      /\ r.undo = n.undo /\ r.told = w
  <2>1. "done" \in Stages /\ w \in Words
    BY DEF Transfers, Stages, Receptions, Words
  <2>2. QED
    BY <2>1 DEF Transfers
<1> HIDE DEF r
<1>2. InOrder(r)
  BY <1>1, NoneAssumption DEF InOrder, Over, Idle
<1>3. Goes(n, r)
  BY <1>1, <1>2 DEF Goes, Follows, Pending, Transferable, Spent, Delivered, InOrder, Over
<1>4. QED
  BY <1>3 DEF r

LEMMA RefuseGoes ==
    ASSUME NEW n \in Transfers, InOrder(n), NEW w \in {"error", "quiet"},
           NEW i \in {n.inbound, "stranger", "failed"}, n.inbound = "open" \/ i = n.inbound,
           n.wire = "commit", i = "open" => n.inbound = "open"
    PROVE  Goes(n, [n EXCEPT !.wire = w, !.inbound = i])
<1> DEFINE r == [n EXCEPT !.wire = w, !.inbound = i]
<1>1. /\ r \in Transfers
      /\ r.from = n.from /\ r.to = n.to /\ r.copy = n.copy /\ r.cli = n.cli /\ r.source = n.source
      /\ r.target = n.target /\ r.wire = w /\ r.inbound = i /\ r.aborted = n.aborted /\ r.bundle = n.bundle
      /\ r.undo = n.undo /\ r.told = n.told
  <2>1. w \in {"quiet", "commit", "ack", "error"} /\ i \in Receptions
    BY DEF Transfers, Stages, Receptions, Words
  <2>2. QED
    BY <2>1 DEF Transfers
<1> HIDE DEF r
<1>2. InOrder(r)
  BY <1>1, NoneAssumption DEF InOrder, Over, Idle
<1>3. Goes(n, r)
  BY <1>1, <1>2 DEF Goes, Follows, Pending, Transferable, Spent, Delivered, InOrder, Over
<1>4. QED
  BY <1>3 DEF r

-----------------------------------------------------------------------------
(* The steps that pass the session; for a copy they pass nothing *)

Asked(n, s, t, c, b, e, w) ==
  [n EXCEPT !.from = s, !.to = t, !.copy = c, !.source = b, !.cli = e, !.told = w]

LEMMA FenceGoes ==
    ASSUME NEW n \in Transfers, InOrder(n), NEW s \in Hosts, NEW t \in Hosts, NEW c \in BOOLEAN,
           NEW b \in BOOLEAN, n = Idle, s # t,
           NEW e, NEW w, e \in {"fenced", "done"}, w \in {"nothing", "failed"},
           NEW r, r = Asked(n, s, t, c, b, e, w)
    PROVE  /\ r \in Transfers /\ InOrder(r)
           /\ r.from = s /\ r.to = t /\ r.copy = c /\ r.cli = e /\ r.source = b
           /\ r.target = n.target /\ r.wire = n.wire /\ r.inbound = n.inbound /\ r.aborted = n.aborted
           /\ r.bundle = n.bundle
           /\ r.undo = n.undo /\ r.told = w
<1>1. /\ r \in Transfers
      /\ r.from = s /\ r.to = t /\ r.copy = c /\ r.cli = e /\ r.source = b
      /\ r.target = n.target /\ r.wire = n.wire /\ r.inbound = n.inbound /\ r.aborted = n.aborted
      /\ r.bundle = n.bundle
      /\ r.undo = n.undo /\ r.told = w
  <2>1. s \in Hosts \cup {None} /\ t \in Hosts \cup {None} /\ c \in BOOLEAN /\ b \in BOOLEAN /\ e \in Stages /\ w \in Words
    BY NoneAssumption DEF Transfers, Stages, Receptions, Words
  <2>2. r \in Transfers
    <3>1. [n EXCEPT !.from = s, !.to = t, !.copy = c] \in Transfers
      BY <2>1 DEF Transfers
    <3>2. \A q \in Transfers : [q EXCEPT !.source = b, !.cli = e, !.told = w] \in Transfers
      BY <2>1 DEF Transfers
    <3>3. QED
      BY <3>1, <3>2 DEF Asked
  <2>3. /\ r.from = s /\ r.to = t /\ r.copy = c /\ r.cli = e /\ r.source = b
        /\ r.undo = n.undo /\ r.told = w
    BY DEF Asked, Transfers
  <2>4. r.target = n.target /\ r.wire = n.wire /\ r.inbound = n.inbound /\ r.aborted = n.aborted /\ r.bundle = n.bundle
    BY DEF Asked, Transfers
  <2>5. QED
    BY <2>2, <2>3, <2>4
<1>2. InOrder(r)
  BY <1>1, NoneAssumption DEF InOrder, Over, Idle, Transferable
<1>4. QED
  BY <1>1, <1>2

\* The fence of a move is taken back.
Refused(n, s, t) == [n EXCEPT !.from = s, !.to = t, !.cli = "done", !.told = "failed"]

LEMMA FenceFailsGoes ==
    ASSUME NEW n \in Transfers, InOrder(n), NEW s \in Hosts, NEW t \in Hosts, n = Idle, s # t,
           NEW r, r = Refused(n, s, t)
    PROVE  /\ r \in Transfers /\ InOrder(r)
           /\ r.from = s /\ r.to = t /\ r.copy = n.copy /\ r.cli = "done" /\ r.source = n.source
           /\ r.target = n.target /\ r.wire = n.wire /\ r.inbound = n.inbound /\ r.aborted = n.aborted
           /\ r.bundle = n.bundle
           /\ r.undo = n.undo /\ r.told = "failed"
<1>1. /\ r \in Transfers
      /\ r.from = s /\ r.to = t /\ r.copy = n.copy /\ r.cli = "done" /\ r.source = n.source
      /\ r.target = n.target /\ r.wire = n.wire /\ r.inbound = n.inbound /\ r.aborted = n.aborted
      /\ r.bundle = n.bundle
      /\ r.undo = n.undo /\ r.told = "failed"
  <2>1. s \in Hosts \cup {None} /\ t \in Hosts \cup {None} /\ "done" \in Stages /\ "failed" \in Words
    BY NoneAssumption DEF Transfers, Stages, Receptions, Words
  <2>2. r \in Transfers
    BY <2>1 DEF Refused, Transfers
  <2>3. /\ r.from = s /\ r.to = t /\ r.copy = n.copy /\ r.cli = "done" /\ r.source = n.source
        /\ r.undo = n.undo /\ r.told = "failed"
    BY DEF Refused, Transfers
  <2>4. r.target = n.target /\ r.wire = n.wire /\ r.inbound = n.inbound /\ r.aborted = n.aborted /\ r.bundle = n.bundle
    BY DEF Refused, Transfers
  <2>5. QED
    BY <2>2, <2>3, <2>4
<1>2. InOrder(r)
  BY <1>1, NoneAssumption DEF InOrder, Over, Idle, Transferable
<1>4. QED
  BY <1>1, <1>2

Started(n, u) == [n EXCEPT !.inbound = "importing", !.wire = "quiet", !.undo = u]

LEMMA StartGoes ==
    ASSUME NEW n \in Transfers, InOrder(n), NEW u, u \in Restored, Transferable(n), n.to \in Daemons,
           NEW r, r = Started(n, u)
    PROVE  /\ r \in Transfers /\ InOrder(r)
           /\ r.from = n.from /\ r.to = n.to /\ r.copy = n.copy /\ r.cli = n.cli /\ r.source = n.source
           /\ r.target = n.target /\ r.wire = "quiet" /\ r.inbound = "importing"
           /\ r.aborted = n.aborted /\ r.bundle = n.bundle
           /\ r.undo = u /\ r.told = n.told
           /\ n.copy => Goes(n, r)
<1>1. /\ r \in Transfers
      /\ r.from = n.from /\ r.to = n.to /\ r.copy = n.copy /\ r.cli = n.cli /\ r.source = n.source
      /\ r.target = n.target /\ r.wire = "quiet" /\ r.inbound = "importing" /\ r.aborted = n.aborted
      /\ r.bundle = n.bundle
      /\ r.undo = u /\ r.told = n.told
  <2>1. "importing" \in Receptions /\ "quiet" \in {"quiet", "commit", "ack", "error"} /\ u \in Restored \cup {None}
    BY NoneAssumption DEF Transfers, Stages, Receptions, Words
  <2>2. QED
    BY <2>1 DEF Started, Transfers
<1>2. InOrder(r)
  BY <1>1, NoneAssumption DEF InOrder, Over, Idle, Transferable
<1>3. n.copy => Goes(n, r)
  BY <1>1, <1>2, NoneAssumption DEF Goes, Follows, Pending, Transferable, Spent, Delivered, InOrder, Over, Idle
<1>4. QED
  BY <1>1, <1>2, <1>3

LEMMA LocalGoes ==
    ASSUME NEW n \in Transfers, InOrder(n), Transferable(n),
           NEW r, r = [n EXCEPT !.inbound = "acked", !.wire = "ack"]
    PROVE  /\ r \in Transfers /\ InOrder(r)
           /\ r.from = n.from /\ r.to = n.to /\ r.copy = n.copy /\ r.cli = n.cli /\ r.source = n.source
           /\ r.target = n.target /\ r.wire = "ack" /\ r.inbound = "acked" /\ r.aborted = n.aborted
           /\ r.bundle = n.bundle
           /\ r.undo = n.undo /\ r.told = n.told
           /\ n.copy => Goes(n, r)
<1>1. /\ r \in Transfers
      /\ r.from = n.from /\ r.to = n.to /\ r.copy = n.copy /\ r.cli = n.cli /\ r.source = n.source
      /\ r.target = n.target /\ r.wire = "ack" /\ r.inbound = "acked" /\ r.aborted = n.aborted
      /\ r.bundle = n.bundle
      /\ r.undo = n.undo /\ r.told = n.told
  <2>1. "acked" \in Receptions /\ "ack" \in {"quiet", "commit", "ack", "error"}
    BY NoneAssumption DEF Transfers, Stages, Receptions, Words
  <2>2. QED
    BY <2>1 DEF Transfers
<1>2. InOrder(r)
  BY <1>1, NoneAssumption DEF InOrder, Over, Idle, Transferable
<1>3. n.copy => Goes(n, r)
  BY <1>1, <1>2, NoneAssumption DEF Goes, Follows, Pending, Transferable, Spent, Delivered, InOrder, Over, Idle
<1>4. QED
  BY <1>1, <1>2, <1>3

\* An import ends, with i in the target's memory and the answer w.
Ended(n, i, w) == [n EXCEPT !.inbound = i, !.wire = w, !.undo = None]

LEMMA EndedGoes ==
    ASSUME NEW n \in Transfers, InOrder(n), n.inbound = "importing",
           NEW i \in {"acked", "failed"}, NEW w \in {"ack", "error", "quiet"}, i = "failed" => w # "ack",
           NEW r, r = Ended(n, i, w)
    PROVE  /\ r \in Transfers /\ InOrder(r)
           /\ r.from = n.from /\ r.to = n.to /\ r.copy = n.copy /\ r.cli = n.cli /\ r.source = n.source
           /\ r.target = n.target /\ r.wire = w /\ r.inbound = i /\ r.bundle = n.bundle /\ r.told = n.told
           /\ n.copy => Goes(n, r)
<1>1. r \in Transfers
  <2>1. i \in Receptions /\ w \in {"quiet", "commit", "ack", "error"}
    BY DEF Receptions
  <2>2. QED
    BY <2>1 DEF Ended, Transfers
<1>2. /\ r.from = n.from /\ r.to = n.to /\ r.copy = n.copy /\ r.cli = n.cli /\ r.source = n.source
      /\ r.target = n.target /\ r.wire = w /\ r.inbound = i /\ r.bundle = n.bundle /\ r.told = n.told
  BY DEF Ended, Transfers
<1>3. InOrder(r)
  BY <1>2, NoneAssumption DEF InOrder, Over, Idle
<1>4. n.copy => Goes(n, r)
  BY <1>1, <1>2, <1>3, NoneAssumption DEF Goes, Follows, Pending, Transferable, Spent, Delivered, InOrder, Over, Idle
<1>5. QED
  BY <1>1, <1>2, <1>3, <1>4

-----------------------------------------------------------------------------
(* The quiet steps: a move goes on and the hosts do not notice *)

\* What the next record of a move may take from its source.
Sound(m, r) ==
  /\ \/ r.bundle = mv[m].bundle
     \/ /\ mv[m].cli = "fenced" /\ FencedBy(mv[m].from, m) /\ index[mv[m].from] # None /\ ~Importing(mv[m].from)
        /\ r.bundle = [epoch |-> Epoch(mv[m].from), text |-> index[mv[m].from].text]
  /\ r.source /\ r.cli \notin {"idle", "fenced"} =>
       (mv[m].source /\ mv[m].cli \notin {"idle", "fenced"}) \/ ~Importing(mv[m].from)
  /\ ~mv[m].copy /\ Transferable(r) =>
       Transferable(mv[m]) \/ (mv[m].cli = "begun" /\ FencedBy(mv[m].from, m))

HostsStay == UNCHANGED <<own, index, disk, live, newest, seen>>
Quiet(m) == HostsStay /\ \E r : Goes(mv[m], r) /\ Sound(m, r) /\ Step(m, r)

LEMMA QuietSource ==
    ASSUME TypeInv, NEW m \in Moves, Export(m) \/ SendCommit(m) \/ Break(m) \/ LoseSource(m)
    PROVE  Quiet(m)
<1> DEFINE n == mv[m]
<1>1. n \in Transfers /\ InOrder(n)
  BY MoveFields
<1> HIDE DEF n
<1> USE DEF n
<1>2. CASE Export(m)
  <2> DEFINE b == [epoch |-> Epoch(mv[m].from), text |-> index[mv[m].from].text]
             r == [mv[m] EXCEPT !.cli = "bundled", !.bundle = b]
  <2>1. mv[m].from \in Hosts
    BY <1>1, <1>2 DEF InOrder, Export
  <2>2. b \in Bundles
    BY <1>2, <2>1, EpochType DEF Export, Bundles, TypeInv, TypeOK, Entries
  <2>3. Goes(mv[m], r)
    BY <1>1, <1>2, <2>2, ExportGoes DEF Export
  <2>4. Sound(m, r)
    BY <1>1, <1>2 DEF Export, Sound, Transfers, Transferable
  <2>5. QED
    BY <1>2, <2>3, <2>4 DEF Export, Quiet, HostsStay
<1>3. CASE SendCommit(m)
  <2> DEFINE r == [mv[m] EXCEPT !.cli = "committing", !.wire = "commit"]
  <2>1. Goes(mv[m], r)
    BY <1>1, <1>3, SendGoes DEF SendCommit
  <2>2. Sound(m, r)
    BY <1>1, <1>3 DEF SendCommit, Sound, Transfers, Transferable
  <2>3. QED
    BY <1>3, <2>1, <2>2 DEF SendCommit, Quiet, HostsStay
<1>4. CASE Break(m)
  <2> DEFINE r == [mv[m] EXCEPT !.cli = "catch"]
  <2>1. n.cli \in {"fenced", "bundled", "begun", "committing"}
    BY <1>1, <1>4 DEF Break, Throws, Transfers, Stages
  <2>2. Goes(mv[m], r)
    BY <1>1, <2>1, BreakGoes
  <2>3. Sound(m, r)
    BY <1>1, <1>4, <2>1 DEF Break, Sound, Transfers, Transferable
  <2>4. QED
    BY <1>4, <2>2, <2>3 DEF Break, Quiet, HostsStay
<1>5. CASE LoseSource(m)
  <2> DEFINE r == [mv[m] EXCEPT !.source = FALSE]
  <2>1. Goes(mv[m], r)
    BY <1>1, <1>5, LoseSourceGoes DEF LoseSource
  <2>2. Sound(m, r)
    BY <1>1, <1>5 DEF LoseSource, Sound, Transfers, Transferable
  <2>3. QED
    BY <1>5, <2>1, <2>2 DEF LoseSource, Quiet, HostsStay
<1>6. QED
  BY <1>2, <1>3, <1>4, <1>5

LEMMA QuietProcess ==
    ASSUME TypeInv, NEW m \in Moves, Begin(m) \/ HearAck(m) \/ AbortFails(m)
    PROVE  Quiet(m)
<1>1. mv[m] \in Transfers /\ InOrder(mv[m])
  BY MoveFields
<1>2. CASE Begin(m)
  <2> DEFINE r == [mv[m] EXCEPT !.cli = "begun", !.inbound = "open"]
  <2>1. mv[m].wire = "quiet"
    BY <1>1, <1>2 DEF Begin, InOrder
  <2>2. Goes(mv[m], r)
    BY <1>1, <1>2, <2>1, BeginGoes DEF Begin, CanBegin
  <2>3. Sound(m, r)
    BY <1>1, <1>2, <2>1 DEF Begin, Sound, Transfers, Transferable
  <2>4. QED
    BY <1>2, <2>2, <2>3 DEF Begin, Quiet, HostsStay
<1>3. CASE HearAck(m)
  <2> DEFINE r == [mv[m] EXCEPT !.cli = "finish", !.wire = "quiet"]
  <2>1. Goes(mv[m], r)
    BY <1>1, <1>3, HearGoes DEF HearAck
  <2>2. Sound(m, r)
    BY <1>1, <1>3 DEF HearAck, Sound, Transfers, Transferable
  <2>3. QED
    BY <1>3, <2>1, <2>2 DEF HearAck, Quiet, HostsStay
<1>4. CASE AbortFails(m)
  <2> DEFINE c == IF mv[m].copy THEN "undo" ELSE "done"
             w == IF mv[m].copy THEN "partial" ELSE "unknown"
             r == [mv[m] EXCEPT !.target = FALSE, !.cli = c, !.told = w]
  <2>1. Goes(mv[m], r)
    BY <1>1, <1>4, UnknownGoes DEF AbortFails
  <2>2. Sound(m, r)
    BY <1>1, <1>4 DEF AbortFails, Sound, Transfers, Transferable, Unknown
  <2>3. QED
    BY <1>4, <2>1, <2>2 DEF AbortFails, Quiet, HostsStay, Unknown
<1>5. QED
  BY <1>2, <1>3, <1>4

LEMMA QuietTarget ==
    ASSUME TypeInv, NEW m \in Moves, NEW arrives \in BOOLEAN, LoseTarget(m, arrives) \/ Die(m, arrives)
    PROVE  Quiet(m)
<1>1. mv[m] \in Transfers /\ InOrder(mv[m])
  BY MoveFields
<1>2. CASE LoseTarget(m, arrives)
  <2> DEFINE w == IF arrives THEN "commit" ELSE "quiet"
             r == [mv[m] EXCEPT !.target = FALSE, !.wire = w]
  <2>1. w \in {"commit", "quiet"} /\ (w = "commit" => mv[m].wire = "commit") /\ mv[m].cli # "idle"
    BY <1>1, <1>2 DEF LoseTarget
  <2>2. Goes(mv[m], r)
    BY <1>1, <1>2, <2>1, LoseTargetGoes DEF LoseTarget
  <2>3. Sound(m, r)
    BY <1>1, <1>2, <2>1 DEF LoseTarget, Sound, Transfers, Transferable
  <2>4. QED
    BY <1>2, <2>2, <2>3 DEF LoseTarget, Quiet, HostsStay
<1>3. CASE Die(m, arrives)
  <2> DEFINE w == IF arrives THEN "commit" ELSE "quiet"
             i == IF mv[m].to \in Daemons THEN mv[m].inbound ELSE "none"
             r == [mv[m] EXCEPT !.cli = "dead", !.source = FALSE, !.target = FALSE, !.wire = w, !.inbound = i]
  <2>1. w \in {"commit", "quiet"} /\ (w = "commit" => mv[m].wire = "commit") /\ i \in {mv[m].inbound, "none"}
    BY <1>1, <1>3 DEF Die
  <2>2. Goes(mv[m], r)
    BY <1>1, <1>3, <2>1, DieGoes DEF Die
  <2>3. Sound(m, r)
    BY <1>1, <1>3, <2>1 DEF Die, Sound, Transfers, Transferable
  <2>4. QED
    BY <1>3, <2>2, <2>3 DEF Die, Quiet, HostsStay
<1>4. QED
  BY <1>2, <1>3

LEMMA QuietAbort ==
    ASSUME TypeInv, NEW m \in Moves, NEW heard \in BOOLEAN, Abort(m, heard)
    PROVE  Quiet(m)
<1>1. mv[m] \in Transfers /\ InOrder(mv[m])
  BY MoveFields
<1>2. mv[m].cli = "catch" /\ mv[m].target /\ mv[m].inbound # "importing" /\ HostsStay
  BY DEF Abort, Answers, HostsStay
<1> DEFINE c == IF mv[m].copy THEN "undo" ELSE "done"
           w == IF mv[m].copy THEN "partial" ELSE "unknown"
<1>3. CASE Committed(m) /\ heard
  <2> DEFINE r == [mv[m] EXCEPT !.cli = "retry", !.wire = "quiet"]
  <2>1. Goes(mv[m], r)
    BY <1>1, <1>2, RetryAbortGoes
  <2>2. Sound(m, r)
    BY <1>1, <1>2 DEF Sound, Transfers, Transferable
  <2>3. Step(m, r)
    BY <1>3 DEF Abort
  <2>4. QED
    BY <1>2, <2>1, <2>2, <2>3 DEF Quiet
<1>4. CASE Committed(m) /\ ~heard
  <2> DEFINE r == [mv[m] EXCEPT !.target = FALSE, !.cli = c, !.told = w]
  <2>1. Goes(mv[m], r)
    BY <1>1, <1>2, UnknownGoes
  <2>2. Sound(m, r)
    BY <1>1, <1>2 DEF Sound, Transfers, Transferable
  <2>3. Step(m, r)
    BY <1>4 DEF Abort, Unknown
  <2>4. QED
    BY <1>2, <2>1, <2>2, <2>3 DEF Quiet
<1>5. CASE ~Committed(m) /\ heard
  <2> DEFINE r == [mv[m] EXCEPT !.aborted = TRUE, !.inbound = "none", !.wire = "quiet", !.cli = "undo", !.told = "unchanged"]
  <2>1. mv[m].inbound \notin {"importing", "acked"}
    BY <1>2, <1>5 DEF Committed
  <2>2. Goes(mv[m], r)
    BY <1>1, <1>2, <2>1, UndoAbortGoes
  <2>3. Sound(m, r)
    BY <1>1, <1>2 DEF Sound, Transfers, Transferable
  <2>4. Step(m, r)
    BY <1>1, <1>5 DEF Abort, Aborted, Transfers
  <2>5. QED
    BY <1>2, <2>2, <2>3, <2>4 DEF Quiet
<1>6. CASE ~Committed(m) /\ ~heard
  <2> DEFINE r == [mv[m] EXCEPT !.aborted = TRUE, !.inbound = "none", !.wire = "quiet", !.target = FALSE, !.cli = c, !.told = w]
  <2>1. Goes(mv[m], r)
    BY <1>1, <1>2, UnheardAbortGoes
  <2>2. Sound(m, r)
    BY <1>1, <1>2 DEF Sound, Transfers, Transferable
  <2>3. r = Unknown(Aborted(m))
    BY <1>1 DEF Aborted, Unknown, Transfers
  <2>4. Step(m, r)
    BY <1>6, <2>3 DEF Abort
  <2>5. QED
    BY <1>2, <2>1, <2>2, <2>4 DEF Quiet
<1>7. QED
  BY <1>3, <1>4, <1>5, <1>6

LEMMA QuietEnd ==
    ASSUME TypeInv, NEW m \in Moves
    PROVE  /\ Retry(m) => Quiet(m)
           /\ Undo(m) /\ ~(mv[m].source /\ FencedBy(mv[m].from, m)) => Quiet(m)
           /\ Finish(m) /\ ~(mv[m].source /\ FencedBy(mv[m].from, m)) => Quiet(m)
           /\ \A heard \in BOOLEAN : CloseRetired(m, heard) /\ mv[m].from \notin Daemons => Quiet(m)
<1>1. mv[m] \in Transfers /\ InOrder(mv[m])
  BY MoveFields
<1>2. ASSUME Retry(m) PROVE Quiet(m)
  <2>1. CASE mv[m].target /\ mv[m].inbound = "acked"
    <3> DEFINE r == [mv[m] EXCEPT !.cli = "finish"]
    <3>1. Goes(mv[m], r)
      BY <1>1, <1>2, <2>1, FinishRetryGoes DEF Retry
    <3>2. Sound(m, r)
      BY <1>1, <1>2 DEF Retry, Sound, Transfers, Transferable
    <3>3. QED
      BY <1>2, <2>1, <3>1, <3>2 DEF Quiet, HostsStay, Retry
  <2>2. CASE ~(mv[m].target /\ mv[m].inbound = "acked") /\ mv[m].copy
    <3> DEFINE r == [mv[m] EXCEPT !.cli = "undo", !.told = "partial"]
    <3>1. Goes(mv[m], r)
      BY <1>1, <1>2, <2>2, CopyRetryGoes DEF Retry
    <3>2. Sound(m, r)
      BY <1>1, <1>2, <2>2 DEF Retry, Sound, Transfers, Transferable
    <3>3. QED
      BY <1>2, <2>2, <3>1, <3>2 DEF Quiet, HostsStay, Retry
  <2>3. CASE ~(mv[m].target /\ mv[m].inbound = "acked") /\ ~mv[m].copy
    <3> DEFINE r == [mv[m] EXCEPT !.cli = "done", !.told = "committed"]
    <3>1. Goes(mv[m], r)
      BY <1>1, <1>2, <2>3, EndRetryGoes DEF Retry
    <3>2. Sound(m, r)
      BY <1>1, <1>2 DEF Retry, Sound, Transfers, Transferable
    <3>3. QED
      BY <1>2, <2>3, <3>1, <3>2 DEF Quiet, HostsStay, Retry
  <2>4. QED
    BY <2>1, <2>2, <2>3
<1>3. ASSUME Undo(m), ~(mv[m].source /\ FencedBy(mv[m].from, m)) PROVE Quiet(m)
  <2> DEFINE r == [mv[m] EXCEPT !.cli = "done", !.told = "stuck"]
  <2>1. Goes(mv[m], r)
    BY <1>1, <1>3, UndoneGoes DEF Undo, Words
  <2>2. Sound(m, r)
    BY <1>1, <1>3 DEF Undo, Sound, Transfers, Transferable
  <2>3. QED
    BY <1>3, <2>1, <2>2 DEF Undo, Tell, Quiet, HostsStay
<1>4. ASSUME Finish(m), ~(mv[m].source /\ FencedBy(mv[m].from, m)) PROVE Quiet(m)
  <2> DEFINE r == [mv[m] EXCEPT !.cli = "done", !.told = "retire"]
  <2>1. Goes(mv[m], r)
    BY <1>1, <1>4, ToldGoes DEF Finish
  <2>2. Sound(m, r)
    BY <1>1, <1>4 DEF Finish, Sound, Transfers, Transferable
  <2>3. QED
    BY <1>4, <2>1, <2>2 DEF Finish, Tell, Quiet, HostsStay
<1>5. ASSUME NEW heard \in BOOLEAN, CloseRetired(m, heard), mv[m].from \notin Daemons PROVE Quiet(m)
  <2> DEFINE w == IF heard THEN "moved" ELSE "retire"
             r == [mv[m] EXCEPT !.cli = "done", !.told = w]
  <2>1. Goes(mv[m], r)
    BY <1>1, <1>5, ToldGoes DEF CloseRetired
  <2>2. Sound(m, r)
    BY <1>1, <1>5 DEF CloseRetired, Sound, Transfers, Transferable
  <2>3. QED
    BY <1>5, <2>1, <2>2 DEF CloseRetired, Tell, Quiet, HostsStay
<1>6. QED
  BY <1>2, <1>3, <1>4, <1>5

LEMMA QuietImport ==
    ASSUME TypeInv, NEW m \in Moves
    PROVE  /\ RefuseCommit(m) => Quiet(m)
           /\ mv[m].copy /\ StartImport(m) => Quiet(m)
           /\ mv[m].copy /\ LocalImport(m) => Quiet(m)
           /\ \A word \in {"ack", "error"} : mv[m].copy /\ ImportDone(m, word) => Quiet(m)
           /\ \A clean \in BOOLEAN : mv[m].copy /\ ImportFails(m, clean) => Quiet(m)
<1>1. mv[m] \in Transfers /\ InOrder(mv[m])
  BY MoveFields
<1>2. ASSUME RefuseCommit(m) PROVE Quiet(m)
  <2> DEFINE w == Answer(m, "error")
             i == IF mv[m].inbound # "open" THEN mv[m].inbound
                  ELSE IF ~mv[m].copy /\ Stranger(m) THEN "stranger" ELSE "failed"
             r == [mv[m] EXCEPT !.wire = w, !.inbound = i]
  <2>1. /\ w \in {"error", "quiet"} /\ i \in {mv[m].inbound, "stranger", "failed"}
        /\ mv[m].inbound = "open" \/ i = mv[m].inbound
        /\ i = "open" => mv[m].inbound = "open"
    BY DEF Answer
  <2> HIDE DEF w, i
  <2>2. Goes(mv[m], r)
    BY <1>1, <1>2, <2>1, RefuseGoes DEF RefuseCommit
  <2>3. Sound(m, r)
    BY <1>1, <1>2, <2>1 DEF RefuseCommit, Sound, Transfers, Transferable
  <2>4. QED
    BY <1>2, <2>2, <2>3 DEF RefuseCommit, Quiet, HostsStay, w, i
<1>3. ASSUME mv[m].copy, StartImport(m) PROVE Quiet(m)
  <2> DEFINE u == [own |-> own[mv[m].to], index |-> index[mv[m].to]]
             r == Started(mv[m], u)
  <2>1. u \in Restored
    BY <1>3, MoveAssumption DEF StartImport, Hosts, TypeInv, TypeOK, Restored
  <2>2. Transferable(mv[m]) /\ mv[m].to \in Daemons
    BY <1>3 DEF StartImport, CanStartImport, Transferable
  <2> HIDE DEF u
  <2>3. /\ r.bundle = mv[m].bundle /\ r.source = mv[m].source /\ r.cli = mv[m].cli /\ r.wire = "quiet"
        /\ Goes(mv[m], r)
    BY <1>1, <1>3, <2>1, <2>2, StartGoes
  <2>4. Sound(m, r)
    BY <1>3, <2>3 DEF Sound, Transferable
  <2>5. QED
    BY <1>3, <2>3, <2>4 DEF StartImport, Started, Quiet, HostsStay, u
<1>4. ASSUME mv[m].copy, LocalImport(m) PROVE Quiet(m)
  <2> DEFINE r == [mv[m] EXCEPT !.inbound = "acked", !.wire = "ack"]
  <2>1. Goes(mv[m], r)
    BY <1>1, <1>4, LocalGoes DEF LocalImport, CanStartImport, Transferable
  <2>2. Sound(m, r)
    BY <1>1, <1>4 DEF Sound, Transfers, Transferable
  <2>3. QED
    BY <1>4, <2>1, <2>2 DEF LocalImport, Quiet, HostsStay
<1>5. ASSUME NEW i \in {"acked", "failed"}, NEW w \in {"ack", "error", "quiet"}, i = "failed" => w # "ack",
             mv[m].copy, mv[m].inbound = "importing", HostsStay, Step(m, Ended(mv[m], i, w))
      PROVE  Quiet(m)
  <2> DEFINE r == Ended(mv[m], i, w)
  <2> HIDE DEF r
  <2>1. Goes(mv[m], r) /\ r.bundle = mv[m].bundle /\ r.source = mv[m].source /\ r.cli = mv[m].cli /\ r.inbound = i
    BY <1>1, <1>5, EndedGoes DEF r
  <2>2. Sound(m, r)
    BY <1>5, <2>1 DEF Sound, Transferable
  <2>3. QED
    BY <1>5, <2>1, <2>2 DEF Quiet, r
<1>6. ASSUME NEW word \in {"ack", "error"}, mv[m].copy, ImportDone(m, word) PROVE Quiet(m)
  <2>1. Step(m, Ended(mv[m], "acked", Answer(m, word))) /\ HostsStay /\ mv[m].inbound = "importing"
    BY <1>6 DEF ImportDone, Ended, HostsStay
  <2>2. Answer(m, word) \in {"ack", "error", "quiet"}
    BY DEF Answer
  <2>3. QED
    BY <1>5, <1>6, <2>1, <2>2
<1>7. ASSUME NEW clean \in BOOLEAN, mv[m].copy, ImportFails(m, clean) PROVE Quiet(m)
  <2>1. Step(m, Ended(mv[m], "failed", Answer(m, "error"))) /\ HostsStay /\ mv[m].inbound = "importing"
    BY <1>7 DEF ImportFails, Ended, HostsStay
  <2>2. Answer(m, "error") \in {"error", "quiet"}
    BY DEF Answer
  <2>3. QED
    BY <1>5, <1>7, <2>1, <2>2
<1>8. QED
  BY <1>2, <1>3, <1>4, <1>6, <1>7

-----------------------------------------------------------------------------
(* The steps that change a host *)

Rewritten(n, s, t, w, i, a, u, c, o) ==
  [n EXCEPT !.source = s, !.target = t, !.wire = w, !.inbound = i, !.aborted = a, !.undo = u,
            !.cli = c, !.told = o]

LEMMA RewrittenFields ==
    ASSUME NEW n \in Transfers, NEW s, NEW t, NEW w, NEW i, NEW a, NEW u, NEW c, NEW o,
           s \in BOOLEAN, t \in BOOLEAN, w \in {"quiet", "commit", "ack", "error"}, i \in Receptions,
           a \in BOOLEAN, u \in Restored \cup {None}, c \in Stages, o \in Words,
           NEW r, r = Rewritten(n, s, t, w, i, a, u, c, o)
    PROVE  /\ r \in Transfers
           /\ r.from = n.from /\ r.to = n.to /\ r.copy = n.copy /\ r.bundle = n.bundle
           /\ r.source = s /\ r.target = t /\ r.wire = w /\ r.inbound = i /\ r.undo = u /\ r.cli = c
           /\ r.told = o
<1>1. [n EXCEPT !.source = s, !.target = t, !.wire = w, !.inbound = i, !.aborted = a, !.undo = u,
                !.cli = c, !.told = o] \in Transfers
  <2>1. [n EXCEPT !.source = s, !.target = t, !.wire = w, !.inbound = i] \in Transfers
    BY DEF Transfers
  <2>2. \A q \in Transfers : [q EXCEPT !.aborted = a, !.undo = u, !.cli = c, !.told = o] \in Transfers
    BY DEF Transfers
  <2>3. QED
    BY <2>1, <2>2
<1>2. /\ r.from = n.from /\ r.to = n.to /\ r.copy = n.copy /\ r.bundle = n.bundle
      /\ r.source = s /\ r.target = t
  BY DEF Rewritten, Transfers
<1>3. r.wire = w /\ r.inbound = i /\ r.undo = u /\ r.cli = c /\ r.told = o
  BY DEF Rewritten, Transfers
<1>4. QED
  BY <1>1, <1>2, <1>3 DEF Rewritten

\* The hosts of a move after h has restarted.
LEMMA RestartGoes ==
    ASSUME TypeInv, NEW h \in Hosts, NEW m \in Moves, NEW n, n = mv[m], NEW r, r = Restarted(h, m)
    PROVE  /\ r \in Transfers /\ InOrder(r)
           /\ r.from = n.from /\ r.to = n.to /\ r.copy = n.copy /\ r.bundle = n.bundle
           /\ r.inbound = IF n.to = h THEN "none" ELSE n.inbound
           /\ r.undo = IF n.to = h THEN None ELSE n.undo
           /\ r.cli = "idle" <=> n.cli = "idle"
           /\ r.source => n.source
           /\ r.source /\ r.cli \notin {"idle", "fenced"} => n.source /\ n.cli \notin {"idle", "fenced"}
           /\ Transferable(r) => Transferable(n)
           /\ Pending(r) => Pending(n)
           /\ n.to = h /\ n.cli # "undo" => ~Pending(r)
           /\ Spent(r) => Spent(n)
           /\ Delivered(r) => Delivered(n)
<1>8. n \in Transfers /\ InOrder(n)
  BY MoveFields
<1>9. r = IF n.from = h \/ n.to = h
          THEN [n EXCEPT !.source = @ /\ n.from # h,
                         !.target = @ /\ n.to # h,
                         !.wire = IF n.to = h THEN "quiet" ELSE @,
                         !.inbound = IF n.to = h THEN "none" ELSE @,
                         !.aborted = @ /\ n.to # h,
                         !.undo = IF n.to = h THEN None ELSE @,
                         !.cli = IF n.from = h /\ @ = "closing" THEN "done" ELSE @,
                         !.told = IF n.from = h /\ n.cli = "closing" THEN "retire" ELSE @]
          ELSE n
  BY DEF Restarted
<1>1. CASE n.from = h \/ n.to = h
  <2>1. /\ r \in Transfers
        /\ r.from = n.from /\ r.to = n.to /\ r.copy = n.copy /\ r.bundle = n.bundle
        /\ r.source <=> n.source /\ n.from # h
        /\ r.target <=> n.target /\ n.to # h
        /\ r.wire = IF n.to = h THEN "quiet" ELSE n.wire
        /\ r.inbound = IF n.to = h THEN "none" ELSE n.inbound
        /\ r.undo = IF n.to = h THEN None ELSE n.undo
        /\ r.cli = IF n.from = h /\ n.cli = "closing" THEN "done" ELSE n.cli
        /\ r.told = IF n.from = h /\ n.cli = "closing" THEN "retire" ELSE n.told
    <3> DEFINE s == n.source /\ n.from # h
               t == n.target /\ n.to # h
               w == IF n.to = h THEN "quiet" ELSE n.wire
               i == IF n.to = h THEN "none" ELSE n.inbound
               a == n.aborted /\ n.to # h
               u == IF n.to = h THEN None ELSE n.undo
               c == IF n.from = h /\ n.cli = "closing" THEN "done" ELSE n.cli
               o == IF n.from = h /\ n.cli = "closing" THEN "retire" ELSE n.told
    <3>1. /\ s \in BOOLEAN /\ t \in BOOLEAN /\ w \in {"quiet", "commit", "ack", "error"} /\ i \in Receptions
          /\ a \in BOOLEAN /\ u \in Restored \cup {None} /\ c \in Stages /\ o \in Words
      BY <1>8 DEF Transfers, Stages, Receptions, Words
    <3>2. r = Rewritten(n, s, t, w, i, a, u, c, o)
      BY <1>1, <1>9 DEF Rewritten
    <3> HIDE DEF s, t, w, i, a, u, c, o
    <3>3. /\ r \in Transfers
          /\ r.from = n.from /\ r.to = n.to /\ r.copy = n.copy /\ r.bundle = n.bundle
          /\ r.source = s /\ r.target = t /\ r.wire = w /\ r.inbound = i /\ r.undo = u /\ r.cli = c
          /\ r.told = o
      BY <1>8, <3>1, <3>2, RewrittenFields
    <3>4. QED
      BY <3>3 DEF s, t, w, i, u, c, o
  <2>2. n.cli # "idle"
    BY <1>1, <1>8, MoveAssumption DEF InOrder, Idle
  <2>3. InOrder(r)
    BY <1>8, <2>1, <2>2 DEF InOrder, Over, Idle
  <2>4. Transferable(r) => Transferable(n)
    BY <2>1 DEF Transferable
  <2>5. (Pending(r) => Pending(n)) /\ (n.to = h /\ n.cli # "undo" => ~Pending(r))
    <3>1. CASE n.to = h
      <4>1. ~r.target /\ r.wire = "quiet" /\ r.inbound = "none"
        BY <2>1, <3>1
      <4>2. r.cli = "undo" => n.cli = "undo"
        BY <2>1
      <4>3. QED
        BY <3>1, <4>1, <4>2 DEF Pending, Transferable
    <3>2. CASE n.to # h
      <4>1. (r.target <=> n.target) /\ r.wire = n.wire /\ r.inbound = n.inbound
        BY <1>8, <2>1, <3>2 DEF Transfers
      <4>2. r.cli \in {"undo", "fenced", "bundled", "begun", "committing", "catch"} => r.cli = n.cli
        BY <2>1
      <4>3. QED
        BY <3>2, <4>1, <4>2 DEF Pending, Transferable
    <3>3. QED
      BY <3>1, <3>2
  <2>6. (Spent(r) => Spent(n)) /\ (Delivered(r) => Delivered(n))
    BY <2>1 DEF Spent, Delivered
  <2>7. /\ r.cli = "idle" <=> n.cli = "idle"
        /\ r.source => n.source
        /\ r.source /\ r.cli \notin {"idle", "fenced"} => n.source /\ n.cli \notin {"idle", "fenced"}
    BY <2>1, <2>2
  <2>8. QED
    BY <2>1, <2>3, <2>4, <2>5, <2>6, <2>7
<1>2. CASE ~(n.from = h \/ n.to = h)
  <2>1. r = n
    BY <1>9, <1>2
  <2>2. QED
    BY <1>8, <1>2, <2>1
<1>3. QED
  BY <1>1, <1>2

HostsTyped ==
  /\ own \in [Hosts -> Records \cup {None}]
  /\ index \in [Hosts -> Entries \cup {None}] /\ disk \in [Hosts -> Entries \cup {None}]
  /\ live \in [Hosts -> BOOLEAN]
  /\ newest \in 0..MaxTurns
  /\ seen \in [Hosts -> Sights \cup {None}]

LEMMA TypeFromParts ==
    ASSUME TypeInv, scenario' = scenario, HostsTyped', mv' \in [Moves -> Transfers], MovesInOrder',
           SeenIsRecorded'
    PROVE  TypeInv'
  BY DEF TypeInv, TypeOK, HostsTyped

\* What a move may do to a record and an entry keeps their types.
LEMMA RecordTypes ==
    ASSUME TypeInv, NEW h \in Hosts
    PROVE  /\ [state |-> "owned", epoch |-> Epoch(h), move |-> None, to |-> None] \in Records
           /\ \A m \in Moves : [state |-> "fenced", epoch |-> Epoch(h), move |-> m, to |-> None] \in Records
           /\ own[h] # None =>
                /\ own[h] \in Records
                /\ [own[h] EXCEPT !.state = "owned", !.move = None] \in Records
                /\ \A t \in Hosts \cup {None} :
                     /\ [own[h] EXCEPT !.state = "moved", !.to = t] \in Records
                     /\ \A m \in Moves : [own[h] EXCEPT !.state = "moved", !.move = m, !.to = t] \in Records
<1>1. Epoch(h) \in Nat
  BY EpochType
<1>2. own[h] # None => own[h] \in Records
  BY DEF TypeInv, TypeOK
<1>3. /\ [state |-> "owned", epoch |-> Epoch(h), move |-> None, to |-> None] \in Records
      /\ \A m \in Moves : [state |-> "fenced", epoch |-> Epoch(h), move |-> m, to |-> None] \in Records
  BY <1>1 DEF Records
<1>4. ASSUME own[h] # None, NEW t \in Hosts \cup {None}
      PROVE  /\ [own[h] EXCEPT !.state = "owned", !.move = None] \in Records
             /\ [own[h] EXCEPT !.state = "moved", !.to = t] \in Records
             /\ \A m \in Moves : [own[h] EXCEPT !.state = "moved", !.move = m, !.to = t] \in Records
  BY <1>2, <1>4 DEF Records
<1>5. QED
  BY <1>2, <1>3, <1>4

LEMMA EntryTypes ==
    ASSUME TypeInv, NEW h \in Hosts, index[h] # None
    PROVE  /\ index[h] \in Entries
           /\ [index[h] EXCEPT !.status = "closed"] \in Entries
           /\ [index[h] EXCEPT !.status = "running"] \in Entries
           /\ newest < MaxTurns => [index[h] EXCEPT !.text = newest + 1] \in Entries
<1>1. index[h] \in Entries
  BY DEF TypeInv, TypeOK
<1>2. newest \in Nat /\ (newest < MaxTurns => newest + 1 \in 0..MaxTurns)
  BY MoveAssumption DEF TypeInv, TypeOK
<1>3. QED
  BY <1>1, <1>2 DEF Entries

LEMMA UnfenceType ==
    ASSUME TypeInv, NEW h \in Hosts, own[h] # None, Unfence(h), UNCHANGED newest,
           seen' \in [Hosts -> Sights \cup {None}],
           seen'[Home] # None => seen[Home] # None
    PROVE  HostsTyped' /\ SeenIsRecorded'
<1>1. [own[h] EXCEPT !.state = "owned", !.move = None] \in Records
  <2>1. own[h] \in Records
    BY DEF TypeInv, TypeOK
  <2>2. QED
    BY <2>1 DEF Records
<1>2. own' \in [Hosts -> Records \cup {None}]
  BY <1>1 DEF TypeInv, TypeOK, Unfence
<1>3. SeenIsRecorded'
  BY <1>1, NoneAssumption DEF TypeInv, TypeOK, SeenIsRecorded, Unfence
<1>4. index' \in [Hosts -> Entries \cup {None}] /\ disk' \in [Hosts -> Entries \cup {None}]
  BY DEF TypeInv, TypeOK, Unfence
<1>5. live' \in [Hosts -> BOOLEAN]
  BY DEF TypeInv, TypeOK, Unfence
<1>6. QED
  BY <1>2, <1>3, <1>4, <1>5 DEF HostsTyped, TypeInv, TypeOK

LEMMA CloseType ==
    ASSUME TypeInv, NEW h \in Hosts, Close(h)
    PROVE  /\ index' \in [Hosts -> Entries \cup {None}] /\ disk' \in [Hosts -> Entries \cup {None}]
           /\ live' \in [Hosts -> BOOLEAN]
<1>1. index[h] # None => [index[h] EXCEPT !.status = "closed"] \in Entries
  BY DEF TypeInv, TypeOK, Entries
<1>2. index' \in [Hosts -> Entries \cup {None}]
  BY <1>1 DEF TypeInv, TypeOK, Close
<1>3. disk' \in [Hosts -> Entries \cup {None}]
  BY <1>2 DEF TypeInv, TypeOK, Close
<1>4. QED
  BY <1>2, <1>3 DEF TypeInv, TypeOK, Close

LEMMA CommitFields ==
    ASSUME TypeInv, NEW m \in Moves, CanStartImport(m) \/ mv[m].inbound = "importing"
    PROVE  /\ mv[m] \in Transfers /\ InOrder(mv[m]) /\ mv[m].from \in Hosts /\ mv[m].to \in Hosts
           /\ mv[m].bundle \in Bundles
           /\ Imported(m) \in Entries /\ Imported(m) # None /\ Imported(m).text = mv[m].bundle.text
           /\ CanStartImport(m) => Transferable(mv[m])
<1>1. mv[m] \in Transfers /\ InOrder(mv[m])
  BY MoveFields
<1>2. CanStartImport(m) => Transferable(mv[m])
  BY DEF CanStartImport, Transferable
<1>3. mv[m].inbound \in {"open", "importing"}
  BY <1>2 DEF Transferable
<1>4. mv[m].cli # "idle"
  BY <1>1, <1>3 DEF InOrder, Idle
<1>5. mv[m].bundle # None /\ mv[m].from \in Hosts /\ mv[m].to \in Hosts
  BY <1>1, <1>3, <1>4 DEF InOrder
<1>6. mv[m].bundle \in Bundles
  BY <1>1, <1>5 DEF Transfers
<1>7. Imported(m) \in Entries /\ Imported(m).text = mv[m].bundle.text
  BY <1>6 DEF Imported, Entries, Bundles
<1>8. QED
  BY <1>1, <1>2, <1>5, <1>6, <1>7, NoneAssumption

\* The record of an import is newer than the bundle and than the record it replaces.
LEMMA AcquiredType ==
    ASSUME TypeInv, NEW m \in Moves, CanStartImport(m)
    PROVE  /\ Acquired(m) \in Records /\ Acquired(m) # None
           /\ Acquired(m).state = "owned" /\ Acquired(m).move = m
           /\ Acquired(m).epoch > mv[m].bundle.epoch /\ Acquired(m).epoch > Epoch(mv[m].to)
<1>1. mv[m].to \in Hosts /\ mv[m].bundle.epoch \in Nat
  BY CommitFields DEF Bundles
<1>2. own[mv[m].to] # None => own[mv[m].to].epoch \in Nat
  BY <1>1 DEF TypeInv, TypeOK, Records
<1> DEFINE e == IF own[mv[m].to] # None /\ own[mv[m].to].epoch > mv[m].bundle.epoch
                THEN own[mv[m].to].epoch + 1 ELSE mv[m].bundle.epoch + 1
<1>3. e \in Nat /\ e > mv[m].bundle.epoch /\ e > Epoch(mv[m].to)
  BY <1>1, <1>2 DEF Epoch
<1> HIDE DEF e
<1>4. Acquired(m) = [state |-> "owned", move |-> m, to |-> None, epoch |-> e]
  BY DEF Acquired, e
<1>5. Acquired(m) \in Records
  BY <1>3, <1>4 DEF Records
<1>6. QED
  BY <1>3, <1>4, <1>5, NoneAssumption

LEMMA TypeFence ==
    ASSUME TypeInv, UNCHANGED scenario, NEW m \in Moves, NEW s \in Hosts, NEW t \in Hosts,
           \/ FenceFails(m, s, t)
           \/ \E c, heard \in BOOLEAN : Fence(m, s, t, c, heard)
    PROVE  TypeInv'
<1>1. mv[m] \in Transfers /\ InOrder(mv[m])
  BY MoveFields
<1>2. CASE FenceFails(m, s, t)
  <2> DEFINE r == Refused(mv[m], s, t)
  <2>1. mv[m] = Idle /\ s # t
    BY <1>1, <1>2 DEF FenceFails, InOrder
  <2>2. r \in Transfers /\ InOrder(r)
    BY <1>1, <2>1, FenceFailsGoes
  <2>3. mv' \in [Moves -> Transfers] /\ MovesInOrder'
    BY <1>2, <2>2, StepType DEF FenceFails, Refused
  <2>4. [state |-> "owned", epoch |-> Epoch(s), move |-> None, to |-> None] \in Records
    BY RecordTypes
  <2>5. HostsTyped' /\ SeenIsRecorded'
    BY <1>2, <2>4, NoneAssumption DEF FenceFails, HostsTyped, TypeInv, TypeOK, SeenIsRecorded, Resumed
  <2>6. QED
    BY <2>3, <2>5, TypeFromParts
<1>3. ASSUME NEW c \in BOOLEAN, NEW heard \in BOOLEAN, Fence(m, s, t, c, heard) PROVE TypeInv'
  <2> DEFINE e == IF heard THEN "fenced" ELSE "done"
             w == IF heard THEN "nothing" ELSE "failed"
             r == Asked(mv[m], s, t, c, heard, e, w)
  <2>1. r \in Transfers /\ InOrder(r)
    <3>1. mv[m] = Idle /\ s # t
      BY <1>1, <1>3 DEF Fence, InOrder
    <3>2. e \in {"fenced", "done"} /\ w \in {"nothing", "failed"}
      OBVIOUS
    <3> HIDE DEF e, w
    <3>3. QED
      BY <1>1, <3>1, <3>2, FenceGoes
  <2>2. mv' \in [Moves -> Transfers] /\ MovesInOrder'
    BY <1>3, <2>1, StepType DEF Fence, Asked
  <2>3. [state |-> "fenced", epoch |-> Epoch(s), move |-> m, to |-> None] \in Records
    BY RecordTypes
  <2>4. HostsTyped' /\ SeenIsRecorded'
    <3>1. /\ own' = [own EXCEPT ![s] = [state |-> "fenced", epoch |-> Epoch(s), move |-> m, to |-> None]]
          /\ live' = [live EXCEPT ![s] = FALSE]
          /\ UNCHANGED <<index, disk, newest, seen>>
      BY <1>3 DEF Fence
    <3>2. QED
      BY <2>3, <3>1, NoneAssumption DEF HostsTyped, TypeInv, TypeOK, SeenIsRecorded
  <2>5. QED
    BY <2>2, <2>4, TypeFromParts
<1>4. QED
  BY <1>2, <1>3

\* A move goes on, whatever happens to the hosts.
Advances(m) == \E r : Goes(mv[m], r) /\ Sound(m, r) /\ Step(m, r)

LEMMA AdvanceType ==
    ASSUME TypeInv, NEW m \in Moves, Advances(m)
    PROVE  mv' \in [Moves -> Transfers] /\ MovesInOrder'
<1>1. PICK r : Goes(mv[m], r) /\ Step(m, r)
  BY DEF Advances
<1>2. QED
  BY <1>1, StepType DEF Goes

\* The ends of a move that change its source.
LEMMA EndsAdvance ==
    ASSUME TypeInv, NEW m \in Moves
    PROVE  /\ Undo(m) => Advances(m)
           /\ Finish(m) => Advances(m)
           /\ \A heard \in BOOLEAN : CloseRetired(m, heard) => Advances(m)
<1>1. mv[m] \in Transfers /\ InOrder(mv[m])
  BY MoveFields
<1>2. ASSUME Undo(m) PROVE Advances(m)
  <2>1. CASE ~(mv[m].source /\ FencedBy(mv[m].from, m))
    BY <1>2, <2>1, QuietEnd DEF Quiet, Advances
  <2>2. CASE mv[m].source /\ FencedBy(mv[m].from, m)
    <3> DEFINE w == IF mv[m].cli = "finish" THEN "copied" ELSE mv[m].told
               r == [mv[m] EXCEPT !.cli = "done", !.told = w]
    <3>1. w \in Words /\ w \notin {"moved", "retire"}
      BY <1>1, <1>2 DEF Undo, Transfers, Words, InOrder
    <3>2. mv[m].cli = "undo" \/ (mv[m].cli = "finish" /\ mv[m].copy)
      BY <1>2 DEF Undo
    <3>3. Step(m, r)
      BY <1>2, <2>2 DEF Undo
    <3> HIDE DEF w
    <3>4. Goes(mv[m], r)
      BY <1>1, <3>1, <3>2, UndoneGoes
    <3>5. Sound(m, r)
      BY <1>1, <3>2 DEF Sound, Transfers, Transferable
    <3>6. QED
      BY <3>3, <3>4, <3>5 DEF Advances
  <2>3. QED
    BY <2>1, <2>2
<1>3. ASSUME Finish(m) PROVE Advances(m)
  <2>1. CASE ~(mv[m].source /\ FencedBy(mv[m].from, m))
    BY <1>3, <2>1, QuietEnd DEF Quiet, Advances
  <2>2. CASE mv[m].source /\ FencedBy(mv[m].from, m)
    <3> DEFINE r == [mv[m] EXCEPT !.cli = "closing"]
    <3>1. Goes(mv[m], r)
      BY <1>1, <1>3, ClosingGoes DEF Finish
    <3>2. Sound(m, r)
      BY <1>1, <1>3 DEF Finish, Sound, Transfers, Transferable
    <3>3. QED
      BY <1>3, <2>2, <3>1, <3>2 DEF Finish, Advances
  <2>3. QED
    BY <2>1, <2>2
<1>4. ASSUME NEW heard \in BOOLEAN, CloseRetired(m, heard) PROVE Advances(m)
  <2> DEFINE w == IF heard THEN "moved" ELSE "retire"
             r == [mv[m] EXCEPT !.cli = "done", !.told = w]
  <2>1. Goes(mv[m], r)
    BY <1>1, <1>4, ToldGoes DEF CloseRetired
  <2>2. Sound(m, r)
    BY <1>1, <1>4 DEF CloseRetired, Sound, Transfers, Transferable
  <2>3. QED
    BY <1>4, <2>1, <2>2 DEF CloseRetired, Tell, Advances
<1>5. QED
  BY <1>2, <1>3, <1>4

LEMMA TypeEnds ==
    ASSUME TypeInv, UNCHANGED scenario, NEW m \in Moves,
           Undo(m) \/ Finish(m) \/ \E heard \in BOOLEAN : CloseRetired(m, heard)
    PROVE  TypeInv'
<1>1. Advances(m)
  BY EndsAdvance
<1>2. mv[m].cli # "idle" /\ mv[m] \in Transfers /\ mv[m].from \in Hosts /\ mv[m].to \in Hosts
  BY MoveFields, <1>1 DEF Advances, Goes, InOrder
<1>3. mv' \in [Moves -> Transfers] /\ MovesInOrder'
  BY <1>1, AdvanceType
<1>4. HostsTyped' /\ SeenIsRecorded'
  <2>1. CASE Undo(m)
    <3>1. CASE mv[m].source /\ FencedBy(mv[m].from, m)
      BY <1>2, <2>1, <3>1, UnfenceType DEF Undo, FencedBy, TypeInv, TypeOK
    <3>2. CASE ~(mv[m].source /\ FencedBy(mv[m].from, m))
      BY <2>1, <3>2 DEF Undo, HostsTyped, TypeInv, TypeOK, SeenIsRecorded
    <3>3. QED
      BY <3>1, <3>2
  <2>2. CASE Finish(m)
    <3>1. CASE mv[m].source /\ FencedBy(mv[m].from, m)
      <4>1. own' = [own EXCEPT ![mv[m].from] = Tombstone(m)] /\ UNCHANGED <<index, disk, live, newest, seen>>
        BY <2>2, <3>1 DEF Finish
      <4>2. Tombstone(m) \in Records
        BY <1>2, <3>1, RecordTypes DEF Tombstone, FencedBy
      <4>3. QED
        <5>1. own' \in [Hosts -> Records \cup {None}] /\ (own[Home] # None => own'[Home] # None)
          <6>1. Tombstone(m) # None /\ Home \in Hosts /\ own \in [Hosts -> Records \cup {None}]
            BY <4>2, NoneAssumption DEF TypeInv, TypeOK, Hosts
          <6> HIDE DEF Tombstone
          <6>2. QED
            BY <4>1, <4>2, <6>1
        <5>2. QED
          BY <4>1, <5>1 DEF HostsTyped, TypeInv, TypeOK, SeenIsRecorded
    <3>2. CASE ~(mv[m].source /\ FencedBy(mv[m].from, m))
      BY <2>2, <3>2 DEF Finish, HostsTyped, TypeInv, TypeOK, SeenIsRecorded
    <3>3. QED
      BY <3>1, <3>2
  <2>3. ASSUME NEW heard \in BOOLEAN, CloseRetired(m, heard) PROVE HostsTyped' /\ SeenIsRecorded'
    <3>1. UNCHANGED <<own, newest, seen>> /\ (Close(mv[m].from) \/ UNCHANGED <<index, disk, live>>)
      BY <2>3 DEF CloseRetired
    <3>2. CASE Close(mv[m].from)
      BY <1>2, <3>1, <3>2, CloseType DEF HostsTyped, TypeInv, TypeOK, SeenIsRecorded
    <3>3. CASE UNCHANGED <<index, disk, live>>
      BY <3>1, <3>3 DEF HostsTyped, TypeInv, TypeOK, SeenIsRecorded
    <3>4. QED
      BY <3>1, <3>2, <3>3
  <2>4. QED
    BY <2>1, <2>2, <2>3
<1>5. QED
  BY <1>3, <1>4, TypeFromParts

LEMMA TypeImports ==
    ASSUME TypeInv, UNCHANGED scenario, NEW m \in Moves, ~mv[m].copy,
           \/ StartImport(m)
           \/ LocalImport(m)
           \/ \E word \in {"ack", "error"} : ImportDone(m, word)
           \/ \E clean \in BOOLEAN : ImportFails(m, clean)
    PROVE  TypeInv'
<1>1. CASE StartImport(m)
  <2> DEFINE u == [own |-> own[mv[m].to], index |-> index[mv[m].to]]
             r == Started(mv[m], u)
  <2>1. CanStartImport(m)
    BY <1>1 DEF StartImport
  <2>2. mv[m] \in Transfers /\ InOrder(mv[m]) /\ mv[m].to \in Hosts /\ Transferable(mv[m]) /\ Imported(m) \in Entries
    BY <2>1, CommitFields
  <2>3. u \in Restored
    BY <2>2 DEF TypeInv, TypeOK, Restored
  <2>4. Step(m, r)
    BY <1>1 DEF StartImport, Started
  <2>5. mv[m].to \in Daemons
    BY <1>1 DEF StartImport
  <2> HIDE DEF u
  <2>6. r \in Transfers /\ InOrder(r)
    BY <2>2, <2>3, <2>5, StartGoes
  <2> HIDE DEF r
  <2>7. mv' \in [Moves -> Transfers] /\ MovesInOrder'
    BY <2>4, <2>6, StepType
  <2>8. /\ own' = [own EXCEPT ![mv[m].to] = Acquired(m)]
        /\ index' = [index EXCEPT ![mv[m].to] = Imported(m)]
        /\ UNCHANGED <<disk, live, newest, seen>>
    BY <1>1 DEF StartImport
  <2>9. HostsTyped' /\ SeenIsRecorded'
    <3>1. own' \in [Hosts -> Records \cup {None}] /\ (own[Home] # None => own'[Home] # None)
      BY <2>1, <2>2, <2>8, AcquiredType DEF TypeInv, TypeOK
    <3>2. QED
      BY <2>2, <2>8, <3>1 DEF HostsTyped, TypeInv, TypeOK, SeenIsRecorded
  <2>10. QED
    BY <2>7, <2>9, TypeFromParts
<1>2. CASE LocalImport(m)
  <2> DEFINE r == [mv[m] EXCEPT !.inbound = "acked", !.wire = "ack"]
  <2>1. CanStartImport(m) /\ Step(m, r)
    BY <1>2 DEF LocalImport
  <2>2. mv[m] \in Transfers /\ InOrder(mv[m]) /\ mv[m].to \in Hosts /\ Transferable(mv[m]) /\ Imported(m) \in Entries
    BY <2>1, CommitFields
  <2>3. r \in Transfers /\ InOrder(r)
    BY <2>2, LocalGoes
  <2>4. mv' \in [Moves -> Transfers] /\ MovesInOrder'
    BY <2>1, <2>3, StepType
  <2>5. /\ own' = [own EXCEPT ![mv[m].to] = Acquired(m)]
        /\ index' = [index EXCEPT ![mv[m].to] = Imported(m)]
        /\ disk' = [disk EXCEPT ![mv[m].to] = Imported(m)]
        /\ UNCHANGED <<live, newest, seen>>
    BY <1>2 DEF LocalImport
  <2>6. own' \in [Hosts -> Records \cup {None}] /\ (own[Home] # None => own'[Home] # None)
    BY <2>1, <2>2, <2>5, AcquiredType DEF TypeInv, TypeOK
  <2>7. HostsTyped' /\ SeenIsRecorded'
    BY <2>2, <2>5, <2>6 DEF HostsTyped, TypeInv, TypeOK, SeenIsRecorded
  <2>8. QED
    BY <2>4, <2>7, TypeFromParts
<1>3. ASSUME NEW word \in {"ack", "error"}, ImportDone(m, word) PROVE TypeInv'
  <2> DEFINE w == Answer(m, word)
             r == Ended(mv[m], "acked", w)
  <2>1. mv[m].inbound = "importing" /\ Step(m, r)
    BY <1>3 DEF ImportDone, Ended
  <2>2. mv[m] \in Transfers /\ InOrder(mv[m]) /\ mv[m].to \in Hosts
    BY <2>1, CommitFields
  <2>3. w \in {"ack", "error", "quiet"}
    BY DEF Answer
  <2> HIDE DEF w
  <2>4. r \in Transfers /\ InOrder(r)
    BY <2>1, <2>2, <2>3, EndedGoes
  <2>5. mv' \in [Moves -> Transfers] /\ MovesInOrder'
    BY <2>1, <2>4, StepType
  <2>6. /\ live' = [live EXCEPT ![mv[m].to] = Unblocked(mv[m].to)]
        /\ disk' = [disk EXCEPT ![mv[m].to] = index[mv[m].to]]
        /\ UNCHANGED <<own, index, newest, seen>>
    BY <1>3 DEF ImportDone
  <2>7. HostsTyped' /\ SeenIsRecorded'
    BY <2>2, <2>6 DEF HostsTyped, TypeInv, TypeOK, SeenIsRecorded, Unblocked
  <2>8. QED
    BY <2>5, <2>7, TypeFromParts
<1>4. ASSUME NEW clean \in BOOLEAN, ImportFails(m, clean) PROVE TypeInv'
  <2> DEFINE w == Answer(m, "error")
             r == Ended(mv[m], "failed", w)
  <2>1. mv[m].inbound = "importing" /\ Step(m, r)
    BY <1>4 DEF ImportFails, Ended
  <2>2. mv[m] \in Transfers /\ InOrder(mv[m]) /\ mv[m].to \in Hosts
    BY <2>1, CommitFields
  <2>3. w \in {"error", "quiet"}
    BY DEF Answer
  <2> HIDE DEF w
  <2>4. r \in Transfers /\ InOrder(r)
    BY <2>1, <2>2, <2>3, EndedGoes
  <2>5. mv' \in [Moves -> Transfers] /\ MovesInOrder'
    BY <2>1, <2>4, StepType
  <2>6. mv[m].undo.own \in Records \cup {None} /\ mv[m].undo.index \in Entries \cup {None} /\ mv[m].to # Home
    BY <2>1, <2>2, MoveAssumption DEF InOrder, Transfers, Restored
  <2>7. /\ index' = [index EXCEPT ![mv[m].to] = mv[m].undo.index]
        /\ \/ own' = [own EXCEPT ![mv[m].to] = mv[m].undo.own] /\ disk' = [disk EXCEPT ![mv[m].to] = mv[m].undo.index]
           \/ UNCHANGED <<own, disk>>
        /\ UNCHANGED <<live, newest, seen>>
    BY <1>4 DEF ImportFails
  <2>8. HostsTyped' /\ SeenIsRecorded'
    <3>1. own' \in [Hosts -> Records \cup {None}] /\ own'[Home] = own[Home]
      BY <2>2, <2>6, <2>7 DEF TypeInv, TypeOK, Hosts
    <3>2. index' \in [Hosts -> Entries \cup {None}] /\ disk' \in [Hosts -> Entries \cup {None}]
      BY <2>2, <2>6, <2>7 DEF TypeInv, TypeOK
    <3>3. QED
      BY <2>7, <3>1, <3>2 DEF HostsTyped, TypeInv, TypeOK, SeenIsRecorded
  <2>9. QED
    BY <2>5, <2>8, TypeFromParts
<1>5. QED
  BY <1>1, <1>2, <1>3, <1>4

LEMMA TypeUse ==
    ASSUME TypeInv, UNCHANGED scenario, NEW h \in Hosts, Use(h)
    PROVE  TypeInv'
<1>1. UNCHANGED <<own, mv, seen>>
  BY DEF Use, Turn, Open, CloseSession, SaveIndex
<1>2. mv' \in [Moves -> Transfers] /\ MovesInOrder' /\ SeenIsRecorded'
  BY <1>1 DEF TypeInv, TypeOK, MovesInOrder, SeenIsRecorded
<1>3. CASE Turn(h)
  <2>1. scenario.turns <= MaxTurns /\ scenario.turns \in Nat /\ newest \in Nat /\ MaxTurns \in Nat
    BY MoveAssumption DEF TypeInv, TypeOK, Scenario
  <2>2. newest < MaxTurns /\ newest + 1 \in 0..MaxTurns /\ index[h] # None
    BY <1>3, <2>1 DEF Turn, Writable
  <2>3. [index[h] EXCEPT !.text = newest + 1] \in Entries
    <3>1. index[h] \in Entries
      BY <2>2 DEF TypeInv, TypeOK
    <3>2. QED
      BY <2>2, <3>1 DEF Entries
  <2>4. index' \in [Hosts -> Entries \cup {None}]
    BY <1>3, <2>3 DEF Turn, TypeInv, TypeOK
  <2>5. disk' \in [Hosts -> Entries \cup {None}] /\ newest' \in 0..MaxTurns /\ live' = live
    BY <1>3, <2>2, <2>4 DEF Turn, TypeInv, TypeOK
  <2>6. QED
    BY <1>1, <1>2, <2>4, <2>5, TypeFromParts DEF HostsTyped, TypeInv, TypeOK
<1>4. CASE Open(h)
  <2>1. [index[h] EXCEPT !.status = "running"] \in Entries
    <3>1. index[h] \in Entries
      BY <1>4 DEF Open, TypeInv, TypeOK
    <3>2. QED
      BY <3>1 DEF Entries
  <2>2. index' \in [Hosts -> Entries \cup {None}]
    BY <1>4, <2>1 DEF Open, TypeInv, TypeOK
  <2>3. disk' \in [Hosts -> Entries \cup {None}] /\ live' \in [Hosts -> BOOLEAN] /\ newest' = newest
    BY <1>4, <2>2 DEF Open, TypeInv, TypeOK
  <2>4. QED
    BY <1>1, <1>2, <2>2, <2>3, TypeFromParts DEF HostsTyped, TypeInv, TypeOK
<1>5. CASE CloseSession(h)
  BY <1>1, <1>2, <1>5, CloseType, TypeFromParts DEF CloseSession, HostsTyped, TypeInv, TypeOK
<1>6. CASE SaveIndex(h)
  BY <1>1, <1>2, <1>6, TypeFromParts DEF SaveIndex, HostsTyped, TypeInv, TypeOK
<1>7. QED
  BY <1>3, <1>4, <1>5, <1>6 DEF Use

LEMMA TypeCrash ==
    ASSUME TypeInv, UNCHANGED scenario, NEW h \in Hosts, Crash(h)
    PROVE  TypeInv'
<1>1. PICK resumes \in BOOLEAN, unindexed \in BOOLEAN : Restart(h, resumes, unindexed)
  BY DEF Crash
<1>2. \A m \in Moves : mv'[m] \in Transfers /\ InOrder(mv'[m])
  <2> TAKE m \in Moves
  <2>1. mv[m] \in Transfers /\ InOrder(mv[m])
    BY MoveFields
  <2>2. mv'[m] = Restarted(h, m)
    BY <1>1 DEF Restart
  <2>3. QED
    BY <2>2, RestartGoes
<1>3. mv' \in [Moves -> Transfers] /\ MovesInOrder'
  <2>1. mv' = [m \in Moves |-> mv'[m]]
    BY <1>1 DEF Restart
  <2>2. QED
    BY <1>2, <2>1 DEF MovesInOrder
<1>4. index' \in [Hosts -> Entries \cup {None}]
  BY <1>1 DEF Restart, TypeInv, TypeOK
<1>5. disk' \in [Hosts -> Entries \cup {None}]
  BY <1>1, <1>4 DEF Restart, TypeInv, TypeOK
<1>6. live' \in [Hosts -> BOOLEAN] /\ UNCHANGED <<own, newest, seen>>
  BY <1>1 DEF Restart, TypeInv, TypeOK
<1>7. QED
  BY <1>3, <1>4, <1>5, <1>6, TypeFromParts DEF HostsTyped, TypeInv, TypeOK, SeenIsRecorded

LEMMA TypeOperate ==
    ASSUME TypeInv, UNCHANGED scenario, NEW h \in Hosts, Operate(h)
    PROVE  TypeInv'
<1>1. UNCHANGED <<newest, mv>>
  BY DEF Operate, GiveBack, Retire, Look
<1>2. mv' \in [Moves -> Transfers] /\ MovesInOrder'
  BY <1>1 DEF TypeInv, TypeOK, MovesInOrder
<1>3. ASSUME NEW m \in Moves, Look(h, m) PROVE TypeInv'
  <2>1. [move |-> m, holds |-> Holds(mv[m].to)] \in Sights
    BY DEF Sights, Holds, Unblocked
  <2>2. UNCHANGED <<own, index, disk, live>> /\ own[h] # None /\ seen' = [seen EXCEPT ![h] = [move |-> m, holds |-> Holds(mv[m].to)]]
    BY <1>3 DEF Look, FencedBy
  <2>3. seen' \in [Hosts -> Sights \cup {None}] /\ SeenIsRecorded'
    BY <2>1, <2>2 DEF TypeInv, TypeOK, SeenIsRecorded
  <2>4. QED
    BY <1>1, <1>2, <2>2, <2>3, TypeFromParts DEF HostsTyped, TypeInv, TypeOK
<1>4. CASE GiveBack(h)
  <2>1. seen' = [seen EXCEPT ![h] = None] /\ seen[h] # None
    BY <1>4 DEF GiveBack
  <2>2. seen' \in [Hosts -> Sights \cup {None}] /\ (seen'[Home] # None => seen[Home] # None)
    BY <2>1 DEF TypeInv, TypeOK
  <2>3. CASE h = Home \/ (own[h] # None /\ own[h].state = "fenced")
    <3>1. own[h] # None /\ Unfence(h)
      BY <1>4, <2>1, <2>3 DEF GiveBack, TypeInv, SeenIsRecorded
    <3>2. HostsTyped' /\ SeenIsRecorded'
      BY <1>1, <2>2, <3>1, UnfenceType
    <3>3. QED
      BY <1>2, <3>2, TypeFromParts
  <2>4. CASE ~(h = Home \/ (own[h] # None /\ own[h].state = "fenced"))
    <3>1. UNCHANGED <<own, index, disk, live>>
      BY <1>4, <2>4 DEF GiveBack
    <3>2. QED
      BY <1>1, <1>2, <2>2, <3>1, TypeFromParts DEF HostsTyped, TypeInv, TypeOK, SeenIsRecorded
  <2>5. QED
    BY <2>3, <2>4
<1>5. CASE Retire(h)
  <2> DEFINE m == seen[h].move
             t == IF mv[m].told = "retire" THEN mv[m].to ELSE None
             rec == [own[h] EXCEPT !.state = "moved", !.move = m, !.to = t]
  <2>1. seen' = [seen EXCEPT ![h] = None] /\ seen[h] # None
    BY <1>5 DEF Retire
  <2>2. seen' \in [Hosts -> Sights \cup {None}] /\ (seen'[Home] # None => seen[Home] # None)
    BY <2>1 DEF TypeInv, TypeOK
  <2>3. CASE h = Home \/ FencedBy(h, m)
    <3>1. /\ own' = [own EXCEPT ![h] = rec]
          /\ IF h \in Daemons THEN Close(h) ELSE UNCHANGED <<index, disk, live>>
      BY <1>5, <2>3 DEF Retire
    <3>2. own[h] # None
      BY <2>1, <2>3 DEF FencedBy, TypeInv, SeenIsRecorded
    <3>3. m \in Moves
      BY <2>1 DEF TypeInv, TypeOK, Sights
    <3>4. t \in Hosts \cup {None}
      BY <3>3 DEF TypeInv, TypeOK, Transfers
    <3>5. rec \in Records
      <4> HIDE DEF m, t
      <4>1. QED
        BY <3>2, <3>3, <3>4, RecordTypes
    <3> HIDE DEF rec
    <3>6. own' \in [Hosts -> Records \cup {None}] /\ (own[Home] # None => own'[Home] # None)
      BY <3>1, <3>5, NoneAssumption DEF TypeInv, TypeOK, Hosts
    <3>7. /\ index' \in [Hosts -> Entries \cup {None}] /\ disk' \in [Hosts -> Entries \cup {None}]
          /\ live' \in [Hosts -> BOOLEAN]
      BY <3>1, CloseType DEF TypeInv, TypeOK
    <3>8. QED
      BY <1>1, <1>2, <2>2, <3>6, <3>7, TypeFromParts DEF HostsTyped, TypeInv, TypeOK, SeenIsRecorded
  <2>4. CASE ~(h = Home \/ FencedBy(h, m))
    <3>1. UNCHANGED <<own, index, disk, live>>
      BY <1>5, <2>4 DEF Retire
    <3>2. QED
      BY <1>1, <1>2, <2>2, <3>1, TypeFromParts DEF HostsTyped, TypeInv, TypeOK, SeenIsRecorded
  <2>5. QED
    BY <2>3, <2>4
<1>6. QED
  BY <1>3, <1>4, <1>5 DEF Operate

LEMMA TypeQuiet ==
    ASSUME TypeInv, UNCHANGED scenario, NEW m \in Moves, Quiet(m)
    PROVE  TypeInv'
<1>1. mv' \in [Moves -> Transfers] /\ MovesInOrder'
  BY AdvanceType DEF Quiet, Advances
<1>2. HostsTyped' /\ SeenIsRecorded'
  BY DEF Quiet, HostsStay, HostsTyped, TypeInv, TypeOK, SeenIsRecorded
<1>3. QED
  BY <1>1, <1>2, TypeFromParts

\* The steps of a move that change a host.
Passes(m) ==
  \/ \E s, t \in Hosts : FenceFails(m, s, t) \/ \E c, heard \in BOOLEAN : Fence(m, s, t, c, heard)
  \/ Undo(m) \/ Finish(m) \/ \E heard \in BOOLEAN : CloseRetired(m, heard)
  \/ /\ ~mv[m].copy
     /\ \/ StartImport(m) \/ LocalImport(m)
        \/ \E word \in {"ack", "error"} : ImportDone(m, word)
        \/ \E clean \in BOOLEAN : ImportFails(m, clean)

LEMMA Steps ==
    ASSUME TypeInv, Next
    PROVE  /\ UNCHANGED scenario
           /\ \/ \E m \in Moves : Quiet(m) \/ Passes(m)
              \/ \E h \in Hosts : Use(h) \/ Crash(h) \/ Operate(h)
<1>1. UNCHANGED scenario
  BY DEF Next
<1>2. ASSUME NEW m \in Moves, Orchestrate(m) PROVE Quiet(m) \/ Passes(m)
  <2>1. Export(m) \/ SendCommit(m) \/ Break(m) => Quiet(m)
    BY QuietSource
  <2>2. Begin(m) \/ HearAck(m) \/ AbortFails(m) => Quiet(m)
    BY QuietProcess
  <2>3. Retry(m) => Quiet(m)
    BY QuietEnd
  <2>4. \A heard \in BOOLEAN : Abort(m, heard) => Quiet(m)
    BY QuietAbort
  <2>5. QED
    BY <1>2, <2>1, <2>2, <2>3, <2>4 DEF Orchestrate, Passes
<1>3. ASSUME NEW m \in Moves, Import(m) PROVE Quiet(m) \/ Passes(m)
  <2>1. CASE RefuseCommit(m)
    BY <2>1, QuietImport
  <2>2. CASE mv[m].copy
    BY <1>3, <2>2, QuietImport DEF Import
  <2>3. CASE ~mv[m].copy /\ ~RefuseCommit(m)
    BY <1>3, <2>3 DEF Import, Passes
  <2>4. QED
    BY <2>1, <2>2, <2>3
<1>4. ASSUME NEW m \in Moves, Ask(m) PROVE Passes(m)
  <2>1. scenario.hosts \subseteq Hosts
    BY MoveAssumption DEF TypeInv, TypeOK, Scenario
  <2>2. QED
    BY <1>4, <2>1 DEF Ask, Passes
<1>5. ASSUME NEW m \in Moves, Disturb(m) PROVE Quiet(m)
  BY <1>5, QuietSource, QuietTarget DEF Disturb
<1>6. QED
  BY <1>1, <1>2, <1>3, <1>4, <1>5 DEF Next

LEMMA TypeStep == TypeInv /\ [Next]_vars => TypeInv'
<1> SUFFICES ASSUME TypeInv, [Next]_vars PROVE TypeInv'
  OBVIOUS
<1>1. CASE UNCHANGED vars
  BY <1>1 DEF vars, moving, TypeInv, TypeOK, MovesInOrder, SeenIsRecorded
<1>2. CASE Next
  <2>1. UNCHANGED scenario
    BY <1>2, Steps
  <2>2. ASSUME NEW m \in Moves, Passes(m) PROVE TypeInv'
    <3>1. CASE \E s, t \in Hosts : FenceFails(m, s, t) \/ \E c, heard \in BOOLEAN : Fence(m, s, t, c, heard)
      BY <2>1, <3>1, TypeFence
    <3>2. CASE Undo(m) \/ Finish(m) \/ \E heard \in BOOLEAN : CloseRetired(m, heard)
      BY <2>1, <3>2, TypeEnds
    <3>3. CASE ~(\/ \E s, t \in Hosts : FenceFails(m, s, t) \/ \E c, heard \in BOOLEAN : Fence(m, s, t, c, heard)
                 \/ Undo(m) \/ Finish(m) \/ \E heard \in BOOLEAN : CloseRetired(m, heard))
      BY <2>1, <2>2, <3>3, TypeImports DEF Passes
    <3>4. QED
      BY <3>1, <3>2, <3>3
  <2>3. QED
    BY <1>2, <2>1, <2>2, Steps, TypeQuiet, TypeUse, TypeCrash, TypeOperate
<1>3. QED
  BY <1>1, <1>2

\* Every step of the hand-over keeps the types of its state.
THEOREM MoveTypeCorrect == Spec => []TypeOK
<1>1. TypeInv => TypeOK
  BY DEF TypeInv
<1>2. QED
  BY <1>1, InitType, TypeStep, PTL DEF Spec

-----------------------------------------------------------------------------
(* Who has a claim on the session, when nobody recovers a host by hand and *)
(* a roll-back does not fail half-way                                      *)

Plain == scenario.recover = "never" /\ "dirty" \notin scenario.faults

Importer(m, h) == mv[m].to = h /\ ~mv[m].copy /\ mv[m].inbound = "importing"

\* The host has an entry that is not the one of an import under way.
Listed(h) == index[h] # None /\ ~Importing(h)

\* The host owns the session, or can have it back, or can hand it over.
Claim(h) ==
  /\ Listed(h)
  /\ \/ Unblocked(h)
     \/ \E m \in Moves : FencedBy(h, m) /\ (mv[m].copy \/ Pending(mv[m]))

NothingIsSeen == \A h \in Hosts : seen[h] = None

\* The daemon hosts what is in its index, and the index was saved.
HostsInOrder ==
  \A h \in Hosts :
    /\ live[h] => index[h] # None
    /\ disk[h] # None => index[h] # None
    /\ Listed(h) => disk[h] # None

\* A fence and a tombstone name the move that left the host.
FencesAreKnown ==
  \A h \in Hosts : own[h] # None /\ own[h].state \in {"fenced", "moved"} =>
    own[h].move \in Moves /\ mv[own[h].move].from = h /\ mv[own[h].move].cli # "idle"

\* What a failed import would put back: a tombstone or nothing, older than the source.
Restorable(m, h) ==
  LET u == mv[m].undo IN
  /\ u.own # None => /\ u.own.state = "moved" /\ u.own.move \in Moves
                     /\ mv[u.own.move].from = h /\ mv[u.own.move].cli # "idle"
  /\ u.index # None => u.own # None /\ u.own.epoch < mv[m].bundle.epoch

\* An import under way has the record and the entry of its host for itself.
ImportsAreAlone ==
  \A m \in Moves, h \in Hosts : Importer(m, h) =>
    /\ index[h] # None /\ ~live[h]
    /\ own[h] # None /\ own[h].state \in {"owned", "fenced"}
    /\ own[h].epoch > mv[m].bundle.epoch
    /\ own[h].state = "owned" => own[h].move = m
    /\ Restorable(m, h)
    /\ \A k \in Moves : Importer(k, h) => k = m

\* While a transfer can still be committed its source is fenced for it.
CommitsAreFenced ==
  \A m \in Moves :
    ~mv[m].copy /\ (Transferable(mv[m]) \/ mv[m].inbound = "importing") => FencedBy(mv[m].from, m)

\* The source of a move does not import, once the fence was answered.
SourcesAreStill ==
  \A m \in Moves, h \in Hosts :
    /\ FencedBy(h, m)
    /\ mv[m].bundle # None \/ (mv[m].source /\ mv[m].cli \notin {"idle", "fenced"})
    => ~Importing(h)

\* The bundle has the epoch of the fence.
BundlesAreCurrent ==
  \A m \in Moves, h \in Hosts : FencedBy(h, m) /\ mv[m].bundle # None =>
    index[h] # None /\ mv[m].bundle.epoch = Epoch(h)

Structure ==
  /\ NothingIsSeen /\ HostsInOrder /\ FencesAreKnown /\ ImportsAreAlone
  /\ CommitsAreFenced /\ SourcesAreStill /\ BundlesAreCurrent

OneClaim == \A g, h \in Hosts : Claim(g) /\ Claim(h) => g = h
ClaimIsLatest == \A g, h \in Hosts : Claim(h) /\ g # h /\ Listed(g) => Epoch(g) < Epoch(h)

Safe == Structure /\ OneClaim /\ ClaimIsLatest

-----------------------------------------------------------------------------
(* How claims pass *)

LEMMA ClaimsShrink ==
    ASSUME OneClaim, ClaimIsLatest,
           \A h \in Hosts : Claim(h)' => Claim(h),
           \A h \in Hosts : Listed(h)' => Listed(h) /\ Epoch(h)' = Epoch(h)
    PROVE  OneClaim' /\ ClaimIsLatest'
<1>1. OneClaim'
  BY DEF OneClaim
<1>2. ASSUME NEW g \in Hosts, NEW h \in Hosts, Claim(h)', g # h, Listed(g)'
      PROVE  Epoch(g)' < Epoch(h)'
  <2>1. Listed(h)'
    BY <1>2 DEF Claim
  <2>2. QED
    BY <1>2, <2>1 DEF ClaimIsLatest
<1>3. QED
  BY <1>1, <1>2 DEF ClaimIsLatest

\* The claim of f passes to t, which gets a newer epoch.
LEMMA ClaimPasses ==
    ASSUME TypeInv, TypeInv', OneClaim, ClaimIsLatest, NEW f \in Hosts, NEW t \in Hosts,
           Claim(f), Epoch(f) < Epoch(t)',
           \A h \in Hosts : Claim(h)' => h = t,
           \A h \in Hosts \ {t} : Listed(h)' => Listed(h) /\ Epoch(h)' = Epoch(h)
    PROVE  OneClaim' /\ ClaimIsLatest'
<1>1. OneClaim'
  BY DEF OneClaim
<1>2. ASSUME NEW g \in Hosts, g # t, Listed(g)'
      PROVE  Epoch(g)' < Epoch(t)'
  <2>1. Epoch(g) <= Epoch(f)
    BY <1>2, EpochType DEF ClaimIsLatest
  <2>2. Epoch(g) \in Nat /\ Epoch(f) \in Nat /\ Epoch(t)' \in Nat
    <3>1. \A h \in Hosts : Epoch(h) \in Nat
      BY EpochType
    <3>2. (\A h \in Hosts : Epoch(h) \in Nat)'
      BY DEF TypeInv, TypeOK, Epoch, Records
    <3>3. QED
      BY <3>1, <3>2
  <2>3. QED
    BY <1>2, <2>1, <2>2
<1>3. QED
  BY <1>1, <1>2 DEF ClaimIsLatest


\* Every move goes on from its record in a step, or stays.
GoOn == \A k \in Moves : Follows(mv[k], mv'[k]) /\ Sound(k, mv'[k])

LEMMA AdvanceGoesOn ==
    ASSUME TypeInv, UNCHANGED mv \/ \E m \in Moves : Advances(m)
    PROVE  GoOn
<1>1. \A k \in Moves : mv'[k] = mv[k] => Follows(mv[k], mv'[k]) /\ Sound(k, mv'[k])
  BY DEF Follows, Sound
<1>2. CASE UNCHANGED mv
  BY <1>1, <1>2 DEF GoOn
<1>3. ASSUME NEW m \in Moves, Advances(m) PROVE GoOn
  <2>1. PICK r : Goes(mv[m], r) /\ Sound(m, r) /\ Step(m, r)
    BY <1>3 DEF Advances
  <2>2. mv'[m] = r /\ \A k \in Moves \ {m} : mv'[k] = mv[k]
    BY <2>1 DEF Step, TypeInv, TypeOK
  <2>3. QED
    BY <1>1, <2>1, <2>2 DEF GoOn, Goes
<1>4. QED
  BY <1>2, <1>3

LEMMA FollowImports ==
    ASSUME GoOn
    PROVE  /\ \A k \in Moves : mv'[k].from = mv[k].from /\ mv'[k].to = mv[k].to /\ mv'[k].copy = mv[k].copy
           /\ \A k \in Moves : mv'[k].cli = "idle" <=> mv[k].cli = "idle"
           /\ \A k \in Moves, h \in Hosts : Importer(k, h)' <=> Importer(k, h)
           /\ \A h \in Hosts : Importing(h)' <=> Importing(h)
<1>1. \A k \in Moves, h \in Hosts : Importer(k, h)' <=> Importer(k, h)
  BY DEF GoOn, Follows, Importer
<1>2. \A h \in Hosts : Importing(h)' <=> Importing(h)
  BY <1>1 DEF Importing, Importer
<1>3. QED
  BY <1>1, <1>2 DEF GoOn, Follows

-----------------------------------------------------------------------------
(* Steps that leave the records alone *)

\* A fence is of the move that left the host.
LEMMA FenceIsOfSource ==
    ASSUME FencesAreKnown, NEW h \in Hosts, NEW k \in Moves, FencedBy(h, k)
    PROVE  mv[k].from = h /\ mv[k].cli # "idle"
  BY DEF FencesAreKnown, FencedBy

\* What a failed import would put back does not change as long as moves keep their sources.
LEMMA RestorableStays ==
    ASSUME NEW m \in Moves, NEW h \in Hosts, Restorable(m, h),
           mv'[m].undo = mv[m].undo, mv'[m].bundle = mv[m].bundle,
           \A k \in Moves : mv'[k].from = mv[k].from /\ (mv'[k].cli = "idle" <=> mv[k].cli = "idle")
    PROVE  Restorable(m, h)'
<1> DEFINE u == mv[m].undo
<1>1. u.own # None => /\ u.own.state = "moved" /\ u.own.move \in Moves
                      /\ mv'[u.own.move].from = h /\ mv'[u.own.move].cli # "idle"
  BY DEF Restorable
<1>2. u.index # None => u.own # None /\ u.own.epoch < mv[m].bundle.epoch
  BY DEF Restorable
<1>3. QED
  BY <1>1, <1>2 DEF Restorable

LEMMA RecordsStay ==
    ASSUME TypeInv, Safe, GoOn, UNCHANGED <<own, seen>>, HostsInOrder',
           \A h \in Hosts : (index'[h] = None <=> index[h] = None) /\ (Importing(h) => ~live'[h])
    PROVE  Safe'
<1> USE DEF Safe
<1>1. /\ \A k \in Moves : mv'[k].from = mv[k].from /\ mv'[k].to = mv[k].to /\ mv'[k].copy = mv[k].copy
      /\ \A k \in Moves : mv'[k].cli = "idle" <=> mv[k].cli = "idle"
      /\ \A k \in Moves, h \in Hosts : Importer(k, h)' <=> Importer(k, h)
      /\ \A h \in Hosts : Importing(h)' <=> Importing(h)
  BY FollowImports
<1>2. /\ \A h \in Hosts, k \in Moves : FencedBy(h, k)' <=> FencedBy(h, k)
      /\ \A h \in Hosts : (Unblocked(h)' <=> Unblocked(h)) /\ Epoch(h)' = Epoch(h)
  BY DEF FencedBy, Unblocked, Epoch
<1>3. \A h \in Hosts : Listed(h)' <=> Listed(h)
  BY <1>1 DEF Listed
<1>4. NothingIsSeen'
  BY DEF Structure, NothingIsSeen
<1>5. FencesAreKnown'
  BY <1>1 DEF Structure, FencesAreKnown
<1>6. ImportsAreAlone'
  <2> SUFFICES ASSUME NEW k \in Moves, NEW h \in Hosts, Importer(k, h)'
               PROVE  /\ index'[h] # None /\ ~live'[h]
                      /\ own'[h] # None /\ own'[h].state \in {"owned", "fenced"}
                      /\ own'[h].epoch > mv'[k].bundle.epoch
                      /\ own'[h].state = "owned" => own'[h].move = k
                      /\ Restorable(k, h)'
                      /\ \A j \in Moves : Importer(j, h)' => j = k
    BY DEF ImportsAreAlone
  <2>1. Importer(k, h)
    BY <1>1
  <2>2. mv'[k].undo = mv[k].undo /\ mv'[k].bundle = mv[k].bundle
    <3>1. ~mv[k].copy /\ mv[k].inbound = "importing" /\ mv[k].cli # "fenced"
      BY <2>1, MoveFields DEF Importer, InOrder
    <3>2. QED
      BY <3>1 DEF GoOn, Follows, Sound
  <2>3. Importing(h)
    BY <2>1 DEF Importing, Importer
  <2>4. Restorable(k, h)'
    <3>1. Restorable(k, h)
      BY <2>1 DEF Structure, ImportsAreAlone
    <3>2. QED
      BY <1>1, <2>2, <3>1, RestorableStays
  <2>5. QED
    BY <1>1, <2>1, <2>2, <2>3, <2>4 DEF Structure, ImportsAreAlone
<1>7. CommitsAreFenced'
  <2> SUFFICES ASSUME NEW k \in Moves, ~mv'[k].copy, Transferable(mv'[k]) \/ mv'[k].inbound = "importing"
               PROVE  FencedBy(mv[k].from, k)'
    BY DEF CommitsAreFenced
  <2>1. ~mv[k].copy
    BY <1>1
  <2>2. Transferable(mv[k]) \/ mv[k].inbound = "importing" \/ FencedBy(mv[k].from, k)
    BY <2>1 DEF GoOn, Follows, Sound
  <2>3. FencedBy(mv[k].from, k)
    BY <2>1, <2>2 DEF Structure, CommitsAreFenced
  <2>4. QED
    BY <1>1, <2>3 DEF FencedBy
<1>8. SourcesAreStill'
  <2> SUFFICES ASSUME NEW k \in Moves, NEW h \in Hosts, FencedBy(h, k)',
                      mv'[k].bundle # None \/ (mv'[k].source /\ mv'[k].cli \notin {"idle", "fenced"})
               PROVE  ~Importing(h)'
    BY DEF SourcesAreStill
  <2>1. FencedBy(h, k) /\ mv[k].from = h
    BY <1>2, FenceIsOfSource DEF Structure
  <2>2. mv[k].bundle # None \/ (mv[k].source /\ mv[k].cli \notin {"idle", "fenced"}) \/ ~Importing(h)
    BY <2>1 DEF GoOn, Sound
  <2>3. QED
    BY <1>1, <2>1, <2>2 DEF Structure, SourcesAreStill
<1>9. BundlesAreCurrent'
  <2> SUFFICES ASSUME NEW k \in Moves, NEW h \in Hosts, FencedBy(h, k)', mv'[k].bundle # None
               PROVE  index'[h] # None /\ mv'[k].bundle.epoch = Epoch(h)'
    BY DEF BundlesAreCurrent
  <2>1. FencedBy(h, k) /\ mv[k].from = h
    BY <1>2, FenceIsOfSource DEF Structure
  <2>2. \/ mv'[k].bundle = mv[k].bundle
        \/ index[h] # None /\ mv'[k].bundle = [epoch |-> Epoch(h), text |-> index[h].text]
    <3>1. Sound(k, mv'[k])
      BY DEF GoOn
    <3>2. QED
      BY <2>1, <3>1 DEF Sound
  <2>3. index[h] # None /\ mv'[k].bundle.epoch = Epoch(h)
    BY <2>1, <2>2 DEF Structure, BundlesAreCurrent
  <2>4. QED
    BY <1>2, <2>3
<1>10. OneClaim' /\ ClaimIsLatest'
  <2>1. \A h \in Hosts : Claim(h)' => Claim(h)
    BY <1>1, <1>2, <1>3 DEF Claim, GoOn, Follows
  <2>2. QED
    BY <1>2, <1>3, <2>1, ClaimsShrink
<1>11. QED
  BY <1>4, <1>5, <1>6, <1>7, <1>8, <1>9, <1>10 DEF Structure

LEMMA SafeQuiet ==
    ASSUME TypeInv, Safe, NEW m \in Moves, Quiet(m)
    PROVE  Safe'
<1>1. GoOn
  BY AdvanceGoesOn DEF Quiet, Advances
<1>2. UNCHANGED <<own, index, disk, live, seen>>
  BY DEF Quiet, HostsStay
<1>3. HostsInOrder'
  BY <1>1, <1>2, FollowImports DEF Safe, Structure, HostsInOrder, Listed
<1>4. \A h \in Hosts : Importing(h) => ~live[h]
  BY DEF Safe, Structure, ImportsAreAlone, Importing, Importer
<1>5. QED
  BY <1>1, <1>2, <1>3, <1>4, RecordsStay

LEMMA CloseKeeps ==
    ASSUME TypeInv, Safe, NEW h \in Hosts, Close(h), GoOn, UNCHANGED <<own, seen>>
    PROVE  Safe'
<1>1. /\ \A g \in Hosts : index'[g] = None <=> index[g] = None
      /\ \A g \in Hosts : live'[g] => live[g]
      /\ \A g \in Hosts : disk'[g] = IF g = h THEN index'[g] ELSE disk[g]
  <2>1. [index[h] EXCEPT !.status = "closed"] # None \/ index[h] = None
    BY EntryTypes, NoneAssumption
  <2>2. QED
    BY <2>1 DEF Close, TypeInv, TypeOK
<1>2. \A g \in Hosts : Importing(g) => ~live'[g]
  BY <1>1 DEF Safe, Structure, ImportsAreAlone, Importing, Importer
<1>3. HostsInOrder'
  BY <1>1, FollowImports DEF Safe, Structure, HostsInOrder, Listed
<1>4. QED
  BY <1>1, <1>2, <1>3, RecordsStay

LEMMA SafeCloseRetired ==
    ASSUME TypeInv, Safe, NEW m \in Moves, NEW heard \in BOOLEAN, CloseRetired(m, heard)
    PROVE  Safe'
<1>1. CASE mv[m].from \notin Daemons
  BY <1>1, QuietEnd, SafeQuiet
<1>2. CASE mv[m].from \in Daemons
  <2>1. Advances(m)
    BY EndsAdvance
  <2>2. Close(mv[m].from) /\ UNCHANGED <<own, seen>>
    BY <1>2 DEF CloseRetired
  <2>3. QED
    BY <1>2, <2>1, <2>2, AdvanceGoesOn, CloseKeeps DEF Hosts
<1>3. QED
  BY <1>1, <1>2

LEMMA SafeUse ==
    ASSUME TypeInv, Safe, NEW h \in Hosts, Use(h)
    PROVE  Safe'
<1>1. UNCHANGED <<own, mv, seen>>
  BY DEF Use, Turn, Open, CloseSession, SaveIndex
<1>2. GoOn
  BY <1>1, AdvanceGoesOn
<1>3. \A g \in Hosts : Importing(g) => ~live[g] /\ g \in Daemons
  BY MoveFields DEF Safe, Structure, ImportsAreAlone, Importing, Importer, InOrder
<1>4. \A g \in Hosts : Importing(g)' <=> Importing(g)
  BY <1>2, FollowImports
<1>5. CASE Turn(h)
  <2>1. index[h] # None /\ [index[h] EXCEPT !.text = newest + 1] # None
    <3>1. index[h] # None
      BY <1>5 DEF Turn, Writable
    <3>2. newest < MaxTurns
      BY <1>5, MoveAssumption DEF Turn, TypeInv, TypeOK, Scenario
    <3>3. QED
      BY <3>1, <3>2, EntryTypes, NoneAssumption
  <2>2. /\ \A g \in Hosts : index'[g] = None <=> index[g] = None
        /\ \A g \in Hosts : disk'[g] = IF g = h THEN index'[g] ELSE disk[g]
        /\ UNCHANGED live
    BY <1>5, <2>1 DEF Turn, TypeInv, TypeOK
  <2>3. HostsInOrder'
    BY <1>4, <2>2 DEF Safe, Structure, HostsInOrder, Listed
  <2>4. QED
    BY <1>1, <1>2, <1>3, <2>2, <2>3, RecordsStay
<1>6. CASE Open(h)
  <2>1. index[h] # None /\ [index[h] EXCEPT !.status = "running"] # None
    BY <1>6, EntryTypes, NoneAssumption DEF Open
  <2>2. /\ \A g \in Hosts : index'[g] = None <=> index[g] = None
        /\ \A g \in Hosts : disk'[g] = IF g = h THEN index'[g] ELSE disk[g]
        /\ \A g \in Hosts : live'[g] => live[g] \/ g = h
    BY <1>6, <2>1 DEF Open, TypeInv, TypeOK
  <2>3. ~Importing(h) /\ index[h] # None
    BY <1>6 DEF Open
  <2>4. HostsInOrder'
    BY <1>4, <2>2, <2>3 DEF Safe, Structure, HostsInOrder, Listed
  <2>5. QED
    BY <1>1, <1>2, <1>3, <2>2, <2>3, <2>4, RecordsStay
<1>7. CASE CloseSession(h)
  BY <1>1, <1>2, <1>7, CloseKeeps DEF CloseSession
<1>8. CASE SaveIndex(h)
  <2>1. /\ \A g \in Hosts : disk'[g] = IF g = h THEN index[g] ELSE disk[g]
        /\ UNCHANGED <<index, live>>
    BY <1>8 DEF SaveIndex, TypeInv, TypeOK
  <2>2. HostsInOrder'
    BY <1>4, <2>1 DEF Safe, Structure, HostsInOrder, Listed
  <2>3. QED
    BY <1>1, <1>2, <1>3, <2>1, <2>2, RecordsStay
<1>9. QED
  BY <1>5, <1>6, <1>7, <1>8 DEF Use

-----------------------------------------------------------------------------
(* A move begins at a host that owns the session *)

LEMMA BeginsAtOwner ==
    ASSUME TypeInv, Safe, NEW m \in Moves, NEW s \in Hosts, NEW rec \in Records,
           mv[m].cli = "idle", index[s] # None, Unblocked(s),
           own' = [own EXCEPT ![s] = rec], rec.epoch = Epoch(s),
           \/ rec.state = "fenced" /\ rec.move = m /\ (mv'[m].source => mv'[m].cli = "fenced")
           \/ rec.state = "owned" /\ ~Importing(s),
           mv'[m].from = s, mv'[m].cli # "idle", mv'[m].inbound = "none", mv'[m].wire = "quiet",
           mv'[m].bundle = None,
           \A k \in Moves \ {m} : mv'[k] = mv[k],
           UNCHANGED <<index, disk, seen>>,
           \A h \in Hosts : live'[h] => index[h] # None /\ ~Importing(h)
    PROVE  Safe'
<1> USE DEF Safe
<1>1. mv[m] = Idle
  BY MoveFields DEF InOrder
<1>2. /\ \A k \in Moves, h \in Hosts : Importer(k, h)' <=> Importer(k, h)
      /\ \A h \in Hosts : Importing(h)' <=> Importing(h)
  <2>1. \A h \in Hosts : ~Importer(m, h) /\ ~Importer(m, h)'
    BY <1>1 DEF Importer, Idle
  <2>2. \A k \in Moves, h \in Hosts : Importer(k, h)' <=> Importer(k, h)
    BY <2>1 DEF Importer
  <2>3. QED
    BY <2>2 DEF Importing, Importer
<1>3. own[s] # None => own[s].state = "owned"
  BY DEF Unblocked
<1>4. own'[s] = rec /\ rec # None /\ \A h \in Hosts \ {s} : own'[h] = own[h]
  BY NoneAssumption DEF TypeInv, TypeOK
<1>5. /\ \A h \in Hosts : Epoch(h)' = Epoch(h)
      /\ \A h \in Hosts : Listed(h)' <=> Listed(h)
  BY <1>2, <1>4 DEF Epoch, Listed
<1>6. \A h \in Hosts, k \in Moves : FencedBy(h, k)' =>
        \/ (h # s /\ k # m /\ FencedBy(h, k))
        \/ (h = s /\ k = m /\ rec.state = "fenced")
  <2> SUFFICES ASSUME NEW h \in Hosts, NEW k \in Moves, FencedBy(h, k)'
               PROVE  \/ (h # s /\ k # m /\ FencedBy(h, k))
                      \/ (h = s /\ k = m /\ rec.state = "fenced")
    OBVIOUS
  <2>1. CASE h = s
    BY <1>4, <2>1 DEF FencedBy
  <2>2. CASE h # s
    <3>1. FencedBy(h, k)
      BY <1>4, <2>2 DEF FencedBy
    <3>2. k # m
      BY <3>1, FenceIsOfSource DEF Structure
    <3>3. QED
      BY <2>2, <3>1, <3>2
  <2>3. QED
    BY <2>1, <2>2
<1>7. \A h \in Hosts, k \in Moves : h # s /\ FencedBy(h, k) => k # m /\ FencedBy(h, k)'
  BY <1>4, FenceIsOfSource DEF FencedBy, Structure
<1>8. NothingIsSeen' /\ HostsInOrder'
  BY <1>5 DEF Structure, NothingIsSeen, HostsInOrder
<1>9. FencesAreKnown'
  <2> SUFFICES ASSUME NEW h \in Hosts, own'[h] # None, own'[h].state \in {"fenced", "moved"}
               PROVE  own'[h].move \in Moves /\ mv'[own'[h].move].from = h /\ mv'[own'[h].move].cli # "idle"
    BY DEF FencesAreKnown
  <2>1. CASE h = s
    BY <1>4, <2>1
  <2>2. CASE h # s
    <3>1. own'[h] = own[h]
      BY <1>4, <2>2
    <3>2. own[h].move \in Moves /\ mv[own[h].move].from = h /\ mv[own[h].move].cli # "idle"
      BY <3>1 DEF Structure, FencesAreKnown
    <3>3. QED
      BY <3>1, <3>2
  <2>3. QED
    BY <2>1, <2>2
<1>10. ImportsAreAlone'
  <2> SUFFICES ASSUME NEW k \in Moves, NEW h \in Hosts, Importer(k, h)'
               PROVE  /\ index'[h] # None /\ ~live'[h]
                      /\ own'[h] # None /\ own'[h].state \in {"owned", "fenced"}
                      /\ own'[h].epoch > mv'[k].bundle.epoch
                      /\ own'[h].state = "owned" => own'[h].move = k
                      /\ Restorable(k, h)'
                      /\ \A j \in Moves : Importer(j, h)' => j = k
    BY DEF ImportsAreAlone
  <2>1. Importer(k, h) /\ Importing(h)
    BY <1>2 DEF Importing, Importer
  <2>2. k # m /\ mv'[k] = mv[k]
    BY <1>1, <2>1 DEF Importer, Idle
  <2>3. /\ index[h] # None /\ own[h] # None /\ own[h].state \in {"owned", "fenced"}
        /\ own[h].epoch > mv[k].bundle.epoch
        /\ own[h].state = "owned" => own[h].move = k
        /\ Restorable(k, h)
        /\ \A j \in Moves : Importer(j, h) => j = k
    BY <2>1 DEF Structure, ImportsAreAlone
  <2>4. own'[h].epoch = own[h].epoch
    BY <1>4, <2>3 DEF Epoch
  <2>5. Restorable(k, h)'
    <3>1. mv[k].undo.own # None => mv[k].undo.own.move # m
      BY <2>3 DEF Restorable
    <3>2. QED
      BY <2>2, <2>3, <3>1 DEF Restorable
  <2>6. own'[h] # None /\ own'[h].state \in {"owned", "fenced"} /\ (own'[h].state = "owned" => own'[h].move = k)
    BY <1>4, <2>1, <2>3
  <2>7. QED
    BY <1>2, <2>1, <2>2, <2>3, <2>4, <2>5, <2>6
<1>11. CommitsAreFenced'
  <2> SUFFICES ASSUME NEW k \in Moves, ~mv'[k].copy, Transferable(mv'[k]) \/ mv'[k].inbound = "importing"
               PROVE  FencedBy(mv[k].from, k)' /\ mv'[k].from = mv[k].from
    BY DEF CommitsAreFenced
  <2>1. k # m /\ mv'[k] = mv[k]
    BY DEF Transferable
  <2>2. FencedBy(mv[k].from, k)
    BY <2>1 DEF Structure, CommitsAreFenced
  <2>3. mv[k].from # s
    BY <1>3, <2>2 DEF FencedBy
  <2>4. QED
    BY <1>4, <2>1, <2>2, <2>3 DEF FencedBy
<1>12. SourcesAreStill'
  BY <1>2, <1>6 DEF Structure, SourcesAreStill
<1>13. BundlesAreCurrent'
  BY <1>5, <1>6 DEF Structure, BundlesAreCurrent
<1>14. OneClaim' /\ ClaimIsLatest'
  <2>1. ASSUME NEW h \in Hosts, Claim(h)' PROVE Claim(h)
    <3>1. Listed(h)
      BY <1>5, <2>1 DEF Claim
    <3>2. CASE h = s
      BY <3>1, <3>2 DEF Claim
    <3>3. CASE h # s
      <4>1. Unblocked(h)' <=> Unblocked(h)
        BY <1>4, <3>3 DEF Unblocked
      <4>2. \A k \in Moves : FencedBy(h, k)' => FencedBy(h, k) /\ mv'[k] = mv[k]
        BY <1>6, <3>3
      <4>3. QED
        BY <2>1, <3>1, <4>1, <4>2 DEF Claim
    <3>4. QED
      BY <3>2, <3>3
  <2>2. QED
    BY <1>5, <2>1, ClaimsShrink
<1>15. QED
  BY <1>8, <1>9, <1>10, <1>11, <1>12, <1>13, <1>14 DEF Structure

\* The move leaves the host, whose record becomes rec.
Begins(m, s, rec) ==
  /\ rec \in Records /\ rec.epoch = Epoch(s)
  /\ mv[m].cli = "idle" /\ index[s] # None /\ Unblocked(s)
  /\ own' = [own EXCEPT ![s] = rec]
  /\ \/ rec.state = "fenced" /\ rec.move = m /\ (mv'[m].source => mv'[m].cli = "fenced")
     \/ rec.state = "owned" /\ rec.move = None /\ ~Importing(s)
  /\ mv'[m].from = s /\ mv'[m].cli # "idle" /\ mv'[m].inbound = "none" /\ mv'[m].wire = "quiet"
  /\ mv'[m].bundle = None
  /\ \A k \in Moves \ {m} : mv'[k] = mv[k]
  /\ UNCHANGED <<index, disk, newest, seen>>
  /\ \A h \in Hosts : live'[h] => index[h] # None /\ ~Importing(h)

LEMMA FenceBegins ==
    ASSUME TypeInv, Safe, NEW m \in Moves, NEW s \in Hosts, NEW t \in Hosts,
           \/ FenceFails(m, s, t)
           \/ \E c, heard \in BOOLEAN : Fence(m, s, t, c, heard)
    PROVE  \E rec : Begins(m, s, rec)
<1>1. mv[m] \in Transfers /\ InOrder(mv[m])
  BY MoveFields
<1>2. \A h \in Hosts : (Importing(h) => ~live[h]) /\ (live[h] => index[h] # None)
  BY DEF Safe, Structure, ImportsAreAlone, Importing, Importer, HostsInOrder
<1>3. CASE FenceFails(m, s, t)
  <2> DEFINE rec == [state |-> "owned", epoch |-> Epoch(s), move |-> None, to |-> None]
             r == [mv[m] EXCEPT !.from = s, !.to = t, !.cli = "done", !.told = "failed"]
  <2>1. mv[m] = Idle /\ s # t
    BY <1>1, <1>3 DEF FenceFails, InOrder
  <2>2. r.from = s /\ r.cli = "done" /\ r.inbound = "none" /\ r.wire = "quiet" /\ r.bundle = None
    BY <2>1 DEF Idle
  <2>3. mv'[m] = r /\ \A k \in Moves \ {m} : mv'[k] = mv[k]
    BY <1>3 DEF FenceFails, Step, TypeInv, TypeOK
  <2> HIDE DEF r
  <2>4. rec \in Records /\ rec.state = "owned" /\ rec.move = None /\ rec.epoch = Epoch(s)
    BY RecordTypes
  <2>5. /\ own' = [own EXCEPT ![s] = rec] /\ index[s] # None /\ Unblocked(s) /\ ~Importing(s)
        /\ mv[m].cli = "idle"
        /\ UNCHANGED <<index, disk, newest, seen>>
        /\ live' = [live EXCEPT ![s] = Resumed(s)]
    BY <1>3 DEF FenceFails
  <2>6. \A h \in Hosts : live'[h] => index[h] # None /\ ~Importing(h)
    BY <1>2, <2>5 DEF TypeInv, TypeOK
  <2> HIDE DEF rec
  <2>7. Begins(m, s, rec)
    BY <2>2, <2>3, <2>4, <2>5, <2>6 DEF Begins
  <2>8. QED
    BY <2>7
<1>4. ASSUME NEW c \in BOOLEAN, NEW heard \in BOOLEAN, Fence(m, s, t, c, heard) PROVE \E rec : Begins(m, s, rec)
  <2> DEFINE rec == [state |-> "fenced", epoch |-> Epoch(s), move |-> m, to |-> None]
             e == IF heard THEN "fenced" ELSE "done"
             w == IF heard THEN "nothing" ELSE "failed"
             r == Asked(mv[m], s, t, c, heard, e, w)
  <2>1. mv[m] = Idle /\ s # t
    BY <1>1, <1>4 DEF Fence, InOrder
  <2>2. mv'[m] = r /\ \A k \in Moves \ {m} : mv'[k] = mv[k]
    BY <1>4 DEF Fence, Step, TypeInv, TypeOK, Asked
  <2>3. r.from = s /\ r.cli = e /\ r.source = heard /\ r.inbound = "none" /\ r.wire = "quiet" /\ r.bundle = None
    <3>1. Idle.inbound = "none" /\ Idle.wire = "quiet" /\ Idle.bundle = None
      BY DEF Idle
    <3>2. e \in {"fenced", "done"} /\ w \in {"nothing", "failed"}
      OBVIOUS
    <3> HIDE DEF e, w
    <3>3. QED
      BY <1>1, <2>1, <3>1, <3>2, FenceGoes
  <2> HIDE DEF r
  <2>4. rec \in Records /\ rec.state = "fenced" /\ rec.move = m /\ rec.epoch = Epoch(s)
    BY RecordTypes
  <2>5. /\ own' = [own EXCEPT ![s] = rec] /\ index[s] # None /\ Unblocked(s) /\ mv[m].cli = "idle"
        /\ UNCHANGED <<index, disk, newest, seen>>
        /\ live' = [live EXCEPT ![s] = FALSE]
    BY <1>4 DEF Fence
  <2>6. \A h \in Hosts : live'[h] => index[h] # None /\ ~Importing(h)
    BY <1>2, <2>5 DEF TypeInv, TypeOK
  <2> HIDE DEF rec
  <2>7. mv'[m].cli # "idle" /\ (mv'[m].source => mv'[m].cli = "fenced")
    BY <2>2, <2>3
  <2> HIDE DEF e
  <2>8. Begins(m, s, rec)
    BY <2>2, <2>3, <2>4, <2>5, <2>6, <2>7 DEF Begins
  <2>9. QED
    BY <2>8
<1>5. QED
  BY <1>3, <1>4

LEMMA SafeFence ==
    ASSUME TypeInv, Safe, NEW m \in Moves, NEW s \in Hosts, NEW t \in Hosts,
           \/ FenceFails(m, s, t)
           \/ \E c, heard \in BOOLEAN : Fence(m, s, t, c, heard)
    PROVE  Safe'
  BY FenceBegins, BeginsAtOwner DEF Begins

-----------------------------------------------------------------------------
(* A move ends at its source *)

LEMMA EndsAtSource ==
    ASSUME TypeInv, Safe, NEW m \in Moves, NEW s \in Hosts, NEW rec \in Records, s = mv[m].from,
           FencedBy(s, m), mv[m].source, mv[m].cli \in {"undo", "finish"}, Advances(m),
           own' = [own EXCEPT ![s] = rec], rec.epoch = own[s].epoch,
           \/ rec.state = "owned" /\ (mv[m].cli = "undo" \/ mv[m].copy)
           \/ rec.state = "moved" /\ rec.move = m,
           UNCHANGED <<index, seen>>, HostsInOrder', \A h \in Hosts : Importing(h) => ~live'[h]
    PROVE  Safe'
<1> USE DEF Safe
<1>1. GoOn
  BY AdvanceGoesOn
<1>2. /\ \A k \in Moves : mv'[k].from = mv[k].from /\ mv'[k].to = mv[k].to /\ mv'[k].copy = mv[k].copy
      /\ \A k \in Moves : mv'[k].cli = "idle" <=> mv[k].cli = "idle"
      /\ \A k \in Moves, h \in Hosts : Importer(k, h)' <=> Importer(k, h)
      /\ \A h \in Hosts : Importing(h)' <=> Importing(h)
  BY <1>1, FollowImports
<1>3. own'[s] = rec /\ rec # None /\ own[s] # None /\ \A h \in Hosts \ {s} : own'[h] = own[h]
  BY NoneAssumption DEF TypeInv, TypeOK, FencedBy
<1>4. /\ \A h \in Hosts : Epoch(h)' = Epoch(h)
      /\ \A h \in Hosts : Listed(h)' <=> Listed(h)
  BY <1>2, <1>3 DEF Epoch, Listed
<1>5. \A h \in Hosts, k \in Moves : FencedBy(h, k)' => h # s /\ k # m /\ FencedBy(h, k)
  <2>1. \A k \in Moves : ~FencedBy(s, k)'
    BY <1>3 DEF FencedBy
  <2>2. \A h \in Hosts \ {s}, k \in Moves : FencedBy(h, k)' => FencedBy(h, k)
    BY <1>3 DEF FencedBy
  <2>3. \A h \in Hosts \ {s}, k \in Moves : FencedBy(h, k) => k # m
    BY FenceIsOfSource DEF Structure
  <2>4. QED
    BY <2>1, <2>2, <2>3
<1>6. ~Importing(s)
  BY DEF Structure, SourcesAreStill
<1>7. NothingIsSeen'
  BY DEF Structure, NothingIsSeen
<1>8. FencesAreKnown'
  <2> SUFFICES ASSUME NEW h \in Hosts, own'[h] # None, own'[h].state \in {"fenced", "moved"}
               PROVE  own'[h].move \in Moves /\ mv'[own'[h].move].from = h /\ mv'[own'[h].move].cli # "idle"
    BY DEF FencesAreKnown
  <2>1. CASE h = s
    BY <1>2, <1>3, <2>1
  <2>2. CASE h # s
    BY <1>2, <1>3, <2>2 DEF Structure, FencesAreKnown
  <2>3. QED
    BY <2>1, <2>2
<1>9. ImportsAreAlone'
  <2> SUFFICES ASSUME NEW k \in Moves, NEW h \in Hosts, Importer(k, h)'
               PROVE  /\ index'[h] # None /\ ~live'[h]
                      /\ own'[h] # None /\ own'[h].state \in {"owned", "fenced"}
                      /\ own'[h].epoch > mv'[k].bundle.epoch
                      /\ own'[h].state = "owned" => own'[h].move = k
                      /\ Restorable(k, h)'
                      /\ \A j \in Moves : Importer(j, h)' => j = k
    BY DEF ImportsAreAlone
  <2>1. Importer(k, h) /\ Importing(h)
    BY <1>2 DEF Importing, Importer
  <2>2. own'[h] = own[h]
    BY <1>3, <1>6, <2>1
  <2>3. mv'[k].undo = mv[k].undo /\ mv'[k].bundle = mv[k].bundle
    <3>1. ~mv[k].copy /\ mv[k].inbound = "importing" /\ mv[k].cli # "fenced"
      BY <2>1, MoveFields DEF Importer, InOrder
    <3>2. QED
      BY <1>1, <3>1 DEF GoOn, Follows, Sound
  <2>4. Restorable(k, h)'
    <3>1. Restorable(k, h)
      BY <2>1 DEF Structure, ImportsAreAlone
    <3>2. QED
      BY <1>2, <2>3, <3>1, RestorableStays
  <2>5. QED
    BY <1>2, <2>1, <2>2, <2>3, <2>4 DEF Structure, ImportsAreAlone
<1>10. CommitsAreFenced'
  <2> SUFFICES ASSUME NEW k \in Moves, ~mv'[k].copy, Transferable(mv'[k]) \/ mv'[k].inbound = "importing"
               PROVE  FencedBy(mv[k].from, k)' /\ mv'[k].from = mv[k].from
    BY DEF CommitsAreFenced
  <2>1. ~mv[k].copy /\ (mv'[k].inbound = "importing" <=> mv[k].inbound = "importing") /\ Sound(k, mv'[k])
    BY <1>1, <1>2 DEF GoOn, Follows
  <2>2. k # m
    <3>1. k = m => mv[m].wire = "quiet" /\ mv[m].inbound # "importing" /\ ~Transferable(mv'[m])
      BY <2>1, MoveFields DEF InOrder, Over, Sound, Transferable
    <3>2. QED
      BY <2>1, <3>1
  <2>3. FencedBy(mv[k].from, k)
    BY <2>1 DEF Sound, Structure, CommitsAreFenced
  <2>4. mv[k].from # s
    BY <2>2, <2>3 DEF FencedBy
  <2>5. FencedBy(mv[k].from, k)'
    <3>1. mv[k].from \in Hosts
      BY <2>1, MoveFields, <2>3 DEF InOrder, Sound, Transferable, Idle
    <3>2. QED
      BY <1>2, <1>3, <2>3, <2>4, <3>1 DEF FencedBy
  <2>6. QED
    BY <1>2, <2>5
<1>11. SourcesAreStill'
  <2> SUFFICES ASSUME NEW k \in Moves, NEW h \in Hosts, FencedBy(h, k)',
                      mv'[k].bundle # None \/ (mv'[k].source /\ mv'[k].cli \notin {"idle", "fenced"})
               PROVE  ~Importing(h)'
    BY DEF SourcesAreStill
  <2>1. FencedBy(h, k) /\ mv[k].from = h
    BY <1>5, FenceIsOfSource DEF Structure
  <2>2. mv[k].bundle # None \/ (mv[k].source /\ mv[k].cli \notin {"idle", "fenced"}) \/ ~Importing(h)
    BY <1>1, <2>1 DEF GoOn, Sound
  <2>3. QED
    BY <1>2, <2>1, <2>2 DEF Structure, SourcesAreStill
<1>12. BundlesAreCurrent'
  <2> SUFFICES ASSUME NEW k \in Moves, NEW h \in Hosts, FencedBy(h, k)', mv'[k].bundle # None
               PROVE  index'[h] # None /\ mv'[k].bundle.epoch = Epoch(h)'
    BY DEF BundlesAreCurrent
  <2>1. FencedBy(h, k) /\ mv[k].from = h
    BY <1>5, FenceIsOfSource DEF Structure
  <2>2. \/ mv'[k].bundle = mv[k].bundle
        \/ index[h] # None /\ mv'[k].bundle = [epoch |-> Epoch(h), text |-> index[h].text]
    <3>1. Sound(k, mv'[k])
      BY <1>1 DEF GoOn
    <3>2. QED
      BY <2>1, <3>1 DEF Sound
  <2>3. index[h] # None /\ mv'[k].bundle.epoch = Epoch(h)
    BY <2>1, <2>2 DEF Structure, BundlesAreCurrent
  <2>4. QED
    BY <1>4, <2>3
<1>13. OneClaim' /\ ClaimIsLatest'
  <2>1. ASSUME NEW h \in Hosts, Claim(h)' PROVE Claim(h)
    <3>1. Listed(h)
      BY <1>4, <2>1 DEF Claim
    <3>2. CASE h = s
      <4>1. Unblocked(s)'
        BY <1>5, <2>1, <3>2 DEF Claim
      <4>2. mv[m].cli = "undo" \/ mv[m].copy
        BY <1>3, <4>1 DEF Unblocked
      <4>3. QED
        BY <3>1, <3>2, <4>2 DEF Claim, Pending
    <3>3. CASE h # s
      <4>1. Unblocked(h)' <=> Unblocked(h)
        BY <1>3, <3>3 DEF Unblocked
      <4>2. \A k \in Moves : FencedBy(h, k)' => FencedBy(h, k)
        BY <1>5
      <4>3. \A k \in Moves : mv'[k].copy \/ Pending(mv'[k]) => mv[k].copy \/ Pending(mv[k])
        BY <1>1 DEF GoOn, Follows
      <4>4. QED
        BY <2>1, <3>1, <4>1, <4>2, <4>3 DEF Claim
    <3>4. QED
      BY <3>2, <3>3
  <2>2. QED
    BY <1>4, <2>1, ClaimsShrink
<1>14. QED
  BY <1>7, <1>8, <1>9, <1>10, <1>11, <1>12, <1>13 DEF Structure

LEMMA SafeEnds ==
    ASSUME TypeInv, Safe, NEW m \in Moves, Undo(m) \/ Finish(m)
    PROVE  Safe'
<1> DEFINE s == mv[m].from
<1>1. mv[m] \in Transfers /\ InOrder(mv[m]) /\ mv[m].cli # "idle" /\ s \in Hosts /\ mv[m].to \in Hosts /\ Advances(m)
  BY MoveFields, EndsAdvance DEF Undo, Finish, InOrder
<1>2. GoOn /\ (\A h \in Hosts : Importing(h)' <=> Importing(h)) /\ \A h \in Hosts : Importing(h) => ~live[h]
  BY <1>1, AdvanceGoesOn, FollowImports DEF Safe, Structure, ImportsAreAlone, Importing, Importer
<1>3. CASE ~(mv[m].source /\ FencedBy(s, m))
  BY <1>3, QuietEnd, SafeQuiet
<1>4. CASE mv[m].source /\ FencedBy(s, m) /\ Undo(m)
  <2> DEFINE rec == [own[s] EXCEPT !.state = "owned", !.move = None]
  <2>1. own[s] # None /\ own[s] \in Records /\ rec \in Records
    BY <1>1, <1>4, RecordTypes DEF FencedBy
  <2>2. rec.state = "owned" /\ rec.epoch = own[s].epoch
    BY <2>1 DEF Records
  <2>3. /\ own' = [own EXCEPT ![s] = rec] /\ UNCHANGED <<index, seen>>
        /\ live' = [live EXCEPT ![s] = @ \/ (s \in Daemons /\ Resumed(s))]
        /\ disk' = [disk EXCEPT ![s] = IF Resumed(s) THEN index[s] ELSE @]
    BY <1>4 DEF Undo, Unfence
  <2>4. mv[m].cli = "undo" \/ (mv[m].cli = "finish" /\ mv[m].copy)
    BY <1>4 DEF Undo
  <2>5. ~Importing(s)
    BY <1>1, <1>4, <2>4 DEF Safe, Structure, SourcesAreStill
  <2>6. HostsInOrder' /\ \A h \in Hosts : Importing(h) => ~live'[h]
    BY <1>1, <1>2, <2>3, <2>5 DEF Safe, Structure, HostsInOrder, Listed, Resumed, TypeInv, TypeOK
  <2> HIDE DEF rec
  <2>7. QED
    BY <1>1, <1>4, <2>1, <2>2, <2>3, <2>4, <2>6, EndsAtSource
<1>5. CASE mv[m].source /\ FencedBy(s, m) /\ Finish(m)
  <2>1. own[s] # None /\ own[s] \in Records /\ own[s].move = m /\ Tombstone(m) \in Records
    BY <1>1, <1>5, RecordTypes DEF FencedBy, Tombstone
  <2>2. Tombstone(m).state = "moved" /\ Tombstone(m).move = m /\ Tombstone(m).epoch = own[s].epoch
    BY <2>1 DEF Records, Tombstone
  <2>3. own' = [own EXCEPT ![s] = Tombstone(m)] /\ UNCHANGED <<index, disk, live, seen>> /\ mv[m].cli = "finish"
    BY <1>5 DEF Finish
  <2>4. HostsInOrder'
    BY <1>2, <2>3 DEF Safe, Structure, HostsInOrder, Listed
  <2>5. QED
    BY <1>1, <1>2, <1>5, <2>1, <2>2, <2>3, <2>4, EndsAtSource
<1>6. QED
  BY <1>3, <1>4, <1>5

-----------------------------------------------------------------------------
(* A session arrives at a target *)

\* The source of a move holds the session for it while it can be imported.
LEMMA SourceClaims ==
    ASSUME TypeInv, Safe, NEW m \in Moves, ~mv[m].copy, Transferable(mv[m]) \/ mv[m].inbound = "importing"
    PROVE  /\ mv[m] \in Transfers /\ InOrder(mv[m]) /\ mv[m].from \in Hosts /\ mv[m].to \in Hosts /\ mv[m].from # mv[m].to
           /\ mv[m].bundle \in Bundles /\ ~Over(mv[m])
           /\ FencedBy(mv[m].from, m) /\ Listed(mv[m].from) /\ Claim(mv[m].from)
           /\ mv[m].bundle.epoch = Epoch(mv[m].from)
<1>1. mv[m] \in Transfers /\ InOrder(mv[m])
  BY MoveFields
<1>2. mv[m].cli # "idle"
  BY <1>1 DEF InOrder, Idle, Transferable
<1>3. mv[m].from \in Hosts /\ mv[m].to \in Hosts /\ mv[m].from # mv[m].to /\ mv[m].bundle # None
  BY <1>1, <1>2 DEF InOrder, Transferable
<1>4. mv[m].bundle \in Bundles
  BY <1>1, <1>3 DEF Transfers
<1>5. FencedBy(mv[m].from, m)
  BY DEF Safe, Structure, CommitsAreFenced
<1>6. ~Importing(mv[m].from) /\ index[mv[m].from] # None /\ mv[m].bundle.epoch = Epoch(mv[m].from)
  BY <1>3, <1>5 DEF Safe, Structure, SourcesAreStill, BundlesAreCurrent
<1>7. ~Over(mv[m])
  BY <1>1 DEF InOrder, Transferable
<1>8. Listed(mv[m].from) /\ Claim(mv[m].from)
  BY <1>5, <1>6 DEF Claim, Listed, Pending
<1>9. QED
  BY <1>1, <1>3, <1>4, <1>5, <1>6, <1>7, <1>8

\* A target takes a session only when it has none or gave away an older one.
LEMMA TargetIsFree ==
    ASSUME TypeInv, Safe, NEW m \in Moves, ~mv[m].copy, CanStartImport(m)
    PROVE  /\ ~Importing(mv[m].to) /\ (mv[m].to \in Daemons => ~live[mv[m].to])
           /\ own[mv[m].to] # None => own[mv[m].to].state = "moved" /\ own[mv[m].to].epoch < mv[m].bundle.epoch
           /\ index[mv[m].to] # None => own[mv[m].to] # None
<1> DEFINE t == mv[m].to
<1>1. CanImport(t) /\ CanAcquire(t) /\ ~Stranger(m) /\ t \in Hosts /\ mv[m].bundle \in Bundles
  BY CommitFields DEF CanStartImport
<1>2. own[t] # None => own[t].state = "moved" /\ own[t].epoch < mv[m].bundle.epoch
  <2>1. own[t] # None => own[t].epoch \in Nat /\ mv[m].bundle.epoch \in Nat
    BY <1>1 DEF TypeInv, TypeOK, Records, Bundles
  <2>2. QED
    BY <1>1, <2>1 DEF CanAcquire, Stranger
<1>3. ~Importing(t)
  BY <1>1, <1>2 DEF Safe, Structure, ImportsAreAlone, Importing, Importer
<1>4. (index[t] # None => own[t] # None) /\ (t \in Daemons => ~live[t])
  <2>1. CASE t \in Daemons
    BY <1>1, <2>1 DEF CanImport, Safe, Structure, HostsInOrder
  <2>2. CASE t \notin Daemons
    BY <1>1, <2>2 DEF CanImport
  <2>3. QED
    BY <2>1, <2>2
<1>5. QED
  BY <1>2, <1>3, <1>4

LEMMA ArrivesAtTarget ==
    ASSUME TypeInv, TypeInv', Safe, NEW m \in Moves, NEW t \in Hosts, t = mv[m].to, ~mv[m].copy,
           CanStartImport(m),
           own' = [own EXCEPT ![t] = Acquired(m)], index' = [index EXCEPT ![t] = Imported(m)],
           UNCHANGED <<live, seen>>,
           \A h \in Hosts \ {t} : disk'[h] = disk[h],
           mv'[m].from = mv[m].from, mv'[m].to = mv[m].to, mv'[m].copy = mv[m].copy, mv'[m].cli = mv[m].cli,
           mv'[m].source = mv[m].source, mv'[m].bundle = mv[m].bundle, mv'[m].wire # "commit",
           \/ /\ mv'[m].inbound = "importing" /\ mv'[m].undo = [own |-> own[t], index |-> index[t]] /\ t \in Daemons
           \/ mv'[m].inbound = "acked" /\ disk'[t] # None,
           \A k \in Moves \ {m} : mv'[k] = mv[k]
    PROVE  Safe'
<1> USE DEF Safe
<1> DEFINE f == mv[m].from
<1>1. /\ Transferable(mv[m]) /\ f \in Hosts /\ f # t /\ FencedBy(f, m) /\ Listed(f) /\ Claim(f)
      /\ mv[m].bundle \in Bundles /\ mv[m].bundle.epoch = Epoch(f) /\ ~Over(mv[m]) /\ mv[m].cli # "idle"
      /\ Imported(m) # None
  BY CommitFields, SourceClaims DEF InOrder, Idle, Transferable
<1>2. /\ ~Importing(t) /\ (t \in Daemons => ~live[t])
      /\ own[t] # None => own[t].state = "moved" /\ own[t].epoch < mv[m].bundle.epoch
      /\ index[t] # None => own[t] # None
  BY TargetIsFree
<1>3. /\ Acquired(m) # None /\ Acquired(m).state = "owned" /\ Acquired(m).move = m
      /\ Acquired(m).epoch > mv[m].bundle.epoch
  BY AcquiredType
<1>4. /\ own'[t] = Acquired(m) /\ index'[t] = Imported(m)
      /\ \A h \in Hosts \ {t} : own'[h] = own[h] /\ index'[h] = index[h] /\ disk'[h] = disk[h]
  BY DEF TypeInv, TypeOK
<1> HIDE DEF Acquired, Imported
<1>5. \A k \in Moves : /\ mv'[k].from = mv[k].from /\ mv'[k].to = mv[k].to /\ mv'[k].copy = mv[k].copy
                       /\ mv'[k].cli = mv[k].cli /\ mv'[k].source = mv[k].source
                       /\ mv'[k].bundle = mv[k].bundle
  OBVIOUS
<1>6. /\ \A k \in Moves, h \in Hosts : Importer(k, h)' => Importer(k, h) \/ (k = m /\ h = t /\ mv'[m].inbound = "importing")
      /\ \A h \in Hosts \ {t} : Importing(h)' <=> Importing(h)
      /\ Importing(t)' <=> mv'[m].inbound = "importing"
  <2>1. ~Importer(m, t) /\ mv[m].inbound = "open"
    BY <1>1 DEF Importer, Transferable
  <2>2. \A k \in Moves \ {m}, h \in Hosts : Importer(k, h)' <=> Importer(k, h)
    BY DEF Importer
  <2>3. \A h \in Hosts : Importer(m, h)' <=> h = t /\ mv'[m].inbound = "importing"
    BY DEF Importer
  <2>4. \A k \in Moves : ~Importer(k, t)
    BY <1>2 DEF Importer, Importing
  <2>5. \A h \in Hosts : (Importing(h) <=> \E k \in Moves : Importer(k, h)) /\ (Importing(h)' <=> \E k \in Moves : Importer(k, h)')
    BY DEF Importing, Importer
  <2>6. \A h \in Hosts : Importer(m, h) => h = t
    BY DEF Importer
  <2>7. QED
    BY <2>1, <2>2, <2>3, <2>4, <2>5, <2>6
<1>7. /\ \A h \in Hosts \ {t} : Epoch(h)' = Epoch(h) /\ (Unblocked(h)' <=> Unblocked(h)) /\ (Listed(h)' <=> Listed(h))
      /\ Epoch(t)' = Acquired(m).epoch
  BY <1>3, <1>4, <1>6 DEF Epoch, Unblocked, Listed
<1>8. \A h \in Hosts, k \in Moves : FencedBy(h, k)' <=> FencedBy(h, k) /\ h # t
  <2>1. \A h \in Hosts \ {t}, k \in Moves : FencedBy(h, k)' <=> FencedBy(h, k)
    BY <1>4 DEF FencedBy
  <2>2. \A k \in Moves : ~FencedBy(t, k)'
    BY <1>3, <1>4 DEF FencedBy
  <2>3. QED
    BY <2>1, <2>2
<1>9. \A k \in Moves : ~FencedBy(t, k)
  BY <1>2 DEF FencedBy
<1>10. NothingIsSeen'
  BY DEF Structure, NothingIsSeen
<1>11. HostsInOrder'
  <2> SUFFICES ASSUME NEW h \in Hosts
               PROVE  /\ live'[h] => index'[h] # None
                      /\ disk'[h] # None => index'[h] # None
                      /\ Listed(h)' => disk'[h] # None
    BY DEF HostsInOrder
  <2>1. CASE h = t
    BY <1>1, <1>4, <1>6, <2>1 DEF Listed
  <2>2. CASE h # t
    BY <1>4, <1>7, <2>2 DEF Structure, HostsInOrder
  <2>3. QED
    BY <2>1, <2>2
<1>12. FencesAreKnown'
  <2> SUFFICES ASSUME NEW h \in Hosts, own'[h] # None, own'[h].state \in {"fenced", "moved"}
               PROVE  own'[h].move \in Moves /\ mv'[own'[h].move].from = h /\ mv'[own'[h].move].cli # "idle"
    BY DEF FencesAreKnown
  <2>1. h # t
    BY <1>3, <1>4
  <2>2. QED
    BY <1>4, <1>5, <2>1 DEF Structure, FencesAreKnown
<1>13. ImportsAreAlone'
  <2> SUFFICES ASSUME NEW k \in Moves, NEW h \in Hosts, Importer(k, h)'
               PROVE  /\ index'[h] # None /\ ~live'[h]
                      /\ own'[h] # None /\ own'[h].state \in {"owned", "fenced"}
                      /\ own'[h].epoch > mv'[k].bundle.epoch
                      /\ own'[h].state = "owned" => own'[h].move = k
                      /\ Restorable(k, h)'
                      /\ \A j \in Moves : Importer(j, h)' => j = k
    BY DEF ImportsAreAlone
  <2>1. CASE k = m /\ h = t
    <3>1. mv'[m].inbound = "importing"
      BY <1>6, <2>1 DEF Importer
    <3>2. mv'[m].undo.own = own[t] /\ mv'[m].undo.index = index[t] /\ t \in Daemons
      BY <3>1
    <3>3. Restorable(m, t)'
      <4>1. own[t] # None => own[t].move \in Moves /\ mv[own[t].move].from = t /\ mv[own[t].move].cli # "idle"
        BY <1>2 DEF Structure, FencesAreKnown
      <4>2. own[t] # None => /\ own[t].state = "moved" /\ own[t].move \in Moves
                              /\ mv'[own[t].move].from = t /\ mv'[own[t].move].cli # "idle"
        BY <1>2, <1>5, <4>1
      <4>3. index[t] # None => own[t] # None /\ own[t].epoch < mv'[m].bundle.epoch
        BY <1>2
      <4>4. QED
        BY <3>2, <4>2, <4>3 DEF Restorable
    <3>4. \A j \in Moves : Importer(j, t)' => j = m
      BY <1>2, <1>6 DEF Importing, Importer
    <3>5. index'[t] # None /\ ~live'[t]
      BY <1>1, <1>2, <1>4, <3>2
    <3>6. /\ own'[t] # None /\ own'[t].state = "owned" /\ own'[t].move = m
          /\ own'[t].epoch > mv'[m].bundle.epoch
      BY <1>3, <1>4
    <3>7. QED
      BY <2>1, <3>3, <3>4, <3>5, <3>6
  <2>2. CASE ~(k = m /\ h = t)
    <3>1. Importer(k, h) /\ h # t
      BY <1>2, <1>6, <2>2 DEF Importing, Importer
    <3>2. k # m
      BY <1>1, <3>1 DEF Importer
    <3>3. Restorable(k, h)'
      <4>1. Restorable(k, h) /\ mv'[k] = mv[k]
        BY <3>1, <3>2 DEF Structure, ImportsAreAlone
      <4>2. QED
        BY <1>5, <4>1, RestorableStays
    <3>4. QED
      BY <1>4, <1>5, <1>6, <3>1, <3>3 DEF Structure, ImportsAreAlone
  <2>3. QED
    BY <2>1, <2>2
<1>14. CommitsAreFenced'
  <2> SUFFICES ASSUME NEW k \in Moves, ~mv'[k].copy, Transferable(mv'[k]) \/ mv'[k].inbound = "importing"
               PROVE  FencedBy(mv[k].from, k)' /\ mv'[k].from = mv[k].from
    BY DEF CommitsAreFenced
  <2>1. FencedBy(mv[k].from, k) /\ mv[k].from \in Hosts
    <3>1. CASE k = m
      BY <1>1, <3>1
    <3>2. CASE k # m
      BY <3>2, SourceClaims
    <3>3. QED
      BY <3>1, <3>2
  <2>2. mv[k].from # t
    BY <1>9, <2>1
  <2>3. QED
    BY <1>4, <1>5, <2>1, <2>2 DEF FencedBy
<1>15. SourcesAreStill'
  BY <1>5, <1>6, <1>8 DEF Structure, SourcesAreStill
<1>16. BundlesAreCurrent'
  BY <1>4, <1>5, <1>7, <1>8 DEF Structure, BundlesAreCurrent
<1>17. ASSUME NEW h \in Hosts \ {t}, Claim(h)' PROVE Claim(h) /\ (h = f => mv'[m].inbound = "importing")
  <2>1. Listed(h) /\ (Unblocked(h)' <=> Unblocked(h))
    BY <1>7, <1>17 DEF Claim
  <2>2. \A k \in Moves : mv'[k].copy \/ Pending(mv'[k]) => mv[k].copy \/ Pending(mv[k])
    BY <1>1 DEF Pending, Transferable
  <2>3. Claim(h)
    BY <1>8, <1>17, <2>1, <2>2 DEF Claim
  <2>4. ASSUME h = f PROVE mv'[m].inbound = "importing"
    <3>1. ~Unblocked(f) /\ \A k \in Moves : FencedBy(f, k) => k = m
      BY <1>1 DEF FencedBy, Unblocked
    <3>2. Pending(mv'[m])
      BY <1>8, <1>17, <2>1, <2>4, <3>1 DEF Claim
    <3>3. mv'[m].cli # "undo" /\ ~Transferable(mv'[m])
      BY <1>1 DEF Over, Transferable
    <3>4. QED
      BY <3>2, <3>3 DEF Pending
  <2>5. QED
    BY <2>3, <2>4
<1>18. OneClaim' /\ ClaimIsLatest'
  <2>1. CASE mv'[m].inbound = "importing"
    <3>1. ~Listed(t)'
      BY <1>6, <2>1 DEF Listed
    <3>2. QED
      BY <1>7, <1>17, <3>1, ClaimsShrink DEF Claim
  <2>2. CASE mv'[m].inbound # "importing"
    <3>1. \A h \in Hosts : Claim(h)' => h = t
      BY <1>1, <1>17, <2>2 DEF OneClaim
    <3>2. Epoch(f) < Epoch(t)'
      BY <1>1, <1>3, <1>7
    <3>3. QED
      BY <1>1, <1>7, <3>1, <3>2, ClaimPasses
  <2>3. QED
    BY <2>1, <2>2
<1>19. QED
  BY <1>10, <1>11, <1>12, <1>13, <1>14, <1>15, <1>16, <1>18 DEF Structure

\* The session arrives at the target, which imports it or, on the user's machine, has it.
Arrives(m, t) ==
  /\ t = mv[m].to /\ ~mv[m].copy /\ CanStartImport(m)
  /\ own' = [own EXCEPT ![t] = Acquired(m)] /\ index' = [index EXCEPT ![t] = Imported(m)]
  /\ UNCHANGED <<live, newest, seen>>
  /\ \A h \in Hosts \ {t} : disk'[h] = disk[h]
  /\ mv'[m].from = mv[m].from /\ mv'[m].to = mv[m].to /\ mv'[m].copy = mv[m].copy /\ mv'[m].cli = mv[m].cli
  /\ mv'[m].source = mv[m].source /\ mv'[m].bundle = mv[m].bundle /\ mv'[m].wire # "commit"
  /\ \/ /\ mv'[m].inbound = "importing" /\ mv'[m].undo = [own |-> own[t], index |-> index[t]] /\ t \in Daemons
        /\ disk'[t] = disk[t]
     \/ mv'[m].inbound = "acked" /\ disk'[t] # None /\ disk'[t] = index'[t] /\ t = Home
  /\ \A k \in Moves \ {m} : mv'[k] = mv[k]

LEMMA ImportArrives ==
    ASSUME TypeInv, NEW m \in Moves, ~mv[m].copy, StartImport(m) \/ LocalImport(m),
           NEW t \in Hosts, t = mv[m].to
    PROVE  Arrives(m, t)
<1>1. CanStartImport(m) /\ ~mv[m].copy
  BY DEF StartImport, LocalImport
<1>2. mv[m] \in Transfers /\ InOrder(mv[m]) /\ Transferable(mv[m]) /\ Imported(m) # None
  BY <1>1, CommitFields
<1>3. CASE StartImport(m)
  <2> DEFINE u == [own |-> own[t], index |-> index[t]]
             r == Started(mv[m], u)
  <2>1. u \in Restored
    BY <1>2 DEF TypeInv, TypeOK, Restored
  <2>2. mv'[m] = r /\ \A k \in Moves \ {m} : mv'[k] = mv[k]
    BY <1>3 DEF StartImport, Step, Started, TypeInv, TypeOK
  <2>3. t \in Daemons
    BY <1>3 DEF StartImport
  <2>4. /\ own' = [own EXCEPT ![t] = Acquired(m)] /\ index' = [index EXCEPT ![t] = Imported(m)]
        /\ UNCHANGED <<disk, live, newest, seen>>
    BY <1>1, <1>3 DEF StartImport
  <2> HIDE DEF u
  <2>5. /\ r.from = mv[m].from /\ r.to = mv[m].to /\ r.copy = mv[m].copy /\ r.cli = mv[m].cli
        /\ r.source = mv[m].source /\ r.bundle = mv[m].bundle /\ r.wire = "quiet"
        /\ r.inbound = "importing" /\ r.undo = u
    BY <1>2, <2>1, <2>3, StartGoes
  <2> HIDE DEF r
  <2>6. /\ mv'[m].from = mv[m].from /\ mv'[m].to = mv[m].to /\ mv'[m].copy = mv[m].copy
        /\ mv'[m].cli = mv[m].cli
        /\ mv'[m].source = mv[m].source /\ mv'[m].bundle = mv[m].bundle /\ mv'[m].wire # "commit"
        /\ mv'[m].inbound = "importing" /\ mv'[m].undo = [own |-> own[t], index |-> index[t]]
    BY <2>2, <2>5 DEF u
  <2>7. \A h \in Hosts \ {t} : disk'[h] = disk[h]
    BY <2>4
  <2>8. QED
    BY <1>1, <1>2, <2>2, <2>3, <2>4, <2>6, <2>7 DEF Arrives
<1>4. CASE LocalImport(m)
  <2> DEFINE r == [mv[m] EXCEPT !.inbound = "acked", !.wire = "ack"]
  <2>1. mv'[m] = r /\ \A k \in Moves \ {m} : mv'[k] = mv[k]
    BY <1>4 DEF LocalImport, Step, TypeInv, TypeOK
  <2>2. /\ own' = [own EXCEPT ![t] = Acquired(m)] /\ index' = [index EXCEPT ![t] = Imported(m)]
        /\ disk' = [disk EXCEPT ![t] = Imported(m)]
        /\ UNCHANGED <<live, newest, seen>>
    BY <1>1, <1>4 DEF LocalImport
  <2>3. /\ r.from = mv[m].from /\ r.to = mv[m].to /\ r.copy = mv[m].copy /\ r.cli = mv[m].cli
        /\ r.source = mv[m].source /\ r.bundle = mv[m].bundle /\ r.wire = "ack" /\ r.inbound = "acked"
    BY <1>2, LocalGoes
  <2> HIDE DEF r
  <2>4. /\ mv'[m].from = mv[m].from /\ mv'[m].to = mv[m].to /\ mv'[m].copy = mv[m].copy
        /\ mv'[m].cli = mv[m].cli
        /\ mv'[m].source = mv[m].source /\ mv'[m].bundle = mv[m].bundle /\ mv'[m].wire # "commit"
        /\ mv'[m].inbound = "acked"
    BY <2>1, <2>3
  <2>5. disk'[t] # None /\ disk'[t] = index'[t] /\ t = Home /\ \A h \in Hosts \ {t} : disk'[h] = disk[h]
    BY <1>2, <1>4, <2>2 DEF TypeInv, TypeOK, LocalImport, Hosts
  <2>6. QED
    BY <1>1, <1>2, <2>1, <2>2, <2>4, <2>5 DEF Arrives
<1>5. QED
  BY <1>3, <1>4

-----------------------------------------------------------------------------
(* An import ends *)

LEMMA ImportEnds ==
    ASSUME TypeInv, TypeInv', Safe, NEW m \in Moves, NEW t \in Hosts, Importer(m, t), UNCHANGED seen,
           \A h \in Hosts \ {t} : own'[h] = own[h] /\ index'[h] = index[h] /\ disk'[h] = disk[h] /\ live'[h] = live[h],
           live'[t] => index'[t] # None, disk'[t] = index'[t],
           \A k \in Moves :
             /\ mv'[k].from = mv[k].from /\ mv'[k].to = mv[k].to /\ mv'[k].copy = mv[k].copy
             /\ mv'[k].bundle = mv[k].bundle
             /\ mv'[k].cli = "idle" <=> mv[k].cli = "idle"
             /\ mv'[k].source /\ mv'[k].cli \notin {"idle", "fenced"} => mv[k].source /\ mv[k].cli \notin {"idle", "fenced"}
             /\ Transferable(mv'[k]) => Transferable(mv[k])
             /\ Pending(mv'[k]) => Pending(mv[k])
             /\ mv[k].to # t => mv'[k].inbound = mv[k].inbound /\ mv'[k].undo = mv[k].undo
             /\ mv[k].to = t /\ ~mv[k].copy => mv'[k].inbound # "importing",
           \/ own'[t] = own[t] /\ ~Pending(mv'[m])
           \/ own'[t] = mv[m].undo.own /\ index'[t] = mv[m].undo.index
    PROVE  Safe'
<1> USE DEF Safe
<1> DEFINE f == mv[m].from
<1>1. ~mv[m].copy /\ mv[m].inbound = "importing" /\ mv[m].to = t
  BY DEF Importer
<1>2. /\ f \in Hosts /\ f # t /\ FencedBy(f, m) /\ Listed(f) /\ Claim(f)
      /\ mv[m].bundle.epoch \in Nat /\ mv[m].bundle.epoch = Epoch(f)
  BY <1>1, SourceClaims DEF Bundles
<1>3. /\ index[t] # None /\ own[t] # None /\ own[t].epoch > mv[m].bundle.epoch /\ Restorable(m, t)
      /\ Importing(t)
  BY <1>1 DEF Structure, ImportsAreAlone, Importing
<1>4. /\ \A k \in Moves, h \in Hosts : Importer(k, h)' <=> Importer(k, h) /\ h # t
      /\ \A h \in Hosts : Importing(h)' <=> Importing(h) /\ h # t
  <2>1. \A k \in Moves, h \in Hosts : Importer(k, h)' <=> Importer(k, h) /\ h # t
    BY DEF Importer
  <2>2. \A h \in Hosts : (Importing(h) <=> \E k \in Moves : Importer(k, h)) /\ (Importing(h)' <=> \E k \in Moves : Importer(k, h)')
    BY DEF Importing, Importer
  <2>3. QED
    BY <2>1, <2>2
<1>5. \A h \in Hosts \ {t} : Epoch(h)' = Epoch(h) /\ (Unblocked(h)' <=> Unblocked(h)) /\ (Listed(h)' <=> Listed(h))
  BY <1>4 DEF Epoch, Unblocked, Listed
<1>6. \A h \in Hosts \ {t}, k \in Moves : FencedBy(h, k)' <=> FencedBy(h, k)
  BY DEF FencedBy
<1>7. ASSUME own'[t] = mv[m].undo.own PROVE own'[t] # None => own'[t].state = "moved"
  BY <1>3, <1>7 DEF Restorable
<1>8. \A k \in Moves : FencedBy(t, k)' => FencedBy(t, k) /\ own'[t] = own[t]
  BY <1>7 DEF FencedBy
<1>9. \A k \in Moves : FencedBy(t, k) => mv[k].bundle = None /\ ~(mv[k].source /\ mv[k].cli \notin {"idle", "fenced"})
  BY <1>3 DEF Structure, SourcesAreStill
<1>10. NothingIsSeen' /\ HostsInOrder'
  <2>1. Listed(t)' => disk'[t] # None
    BY DEF Listed
  <2>2. \A h \in Hosts \ {t} : /\ live'[h] => index'[h] # None
                               /\ disk'[h] # None => index'[h] # None
                               /\ Listed(h)' => disk'[h] # None
    BY <1>5 DEF Structure, HostsInOrder
  <2>3. QED
    BY <2>1, <2>2 DEF Structure, NothingIsSeen, HostsInOrder
<1>11. FencesAreKnown'
  <2> SUFFICES ASSUME NEW h \in Hosts, own'[h] # None, own'[h].state \in {"fenced", "moved"}
               PROVE  own'[h].move \in Moves /\ mv'[own'[h].move].from = h /\ mv'[own'[h].move].cli # "idle"
    BY DEF FencesAreKnown
  <2>1. CASE own'[h] = own[h]
    BY <2>1 DEF Structure, FencesAreKnown
  <2>2. CASE own'[h] # own[h]
    <3>1. h = t /\ own'[h] = mv[m].undo.own
      BY <2>2
    <3>2. QED
      BY <1>3, <3>1 DEF Restorable
  <2>3. QED
    BY <2>1, <2>2
<1>12. ImportsAreAlone'
  <2> SUFFICES ASSUME NEW k \in Moves, NEW h \in Hosts, Importer(k, h)'
               PROVE  /\ index'[h] # None /\ ~live'[h]
                      /\ own'[h] # None /\ own'[h].state \in {"owned", "fenced"}
                      /\ own'[h].epoch > mv'[k].bundle.epoch
                      /\ own'[h].state = "owned" => own'[h].move = k
                      /\ Restorable(k, h)'
                      /\ \A j \in Moves : Importer(j, h)' => j = k
    BY DEF ImportsAreAlone
  <2>1. Importer(k, h) /\ h # t /\ mv'[k].undo = mv[k].undo /\ mv'[k].bundle = mv[k].bundle
    BY <1>4 DEF Importer
  <2>2. Restorable(k, h)'
    <3>1. Restorable(k, h)
      BY <2>1 DEF Structure, ImportsAreAlone
    <3>2. QED
      BY <2>1, <3>1, RestorableStays
  <2>3. QED
    BY <1>4, <2>1, <2>2 DEF Structure, ImportsAreAlone
<1>13. CommitsAreFenced'
  <2> SUFFICES ASSUME NEW k \in Moves, ~mv'[k].copy, Transferable(mv'[k]) \/ mv'[k].inbound = "importing"
               PROVE  FencedBy(mv[k].from, k)' /\ mv'[k].from = mv[k].from
    BY DEF CommitsAreFenced
  <2>1. ~mv[k].copy /\ (Transferable(mv[k]) \/ mv[k].inbound = "importing")
    OBVIOUS
  <2>2. FencedBy(mv[k].from, k) /\ mv[k].from \in Hosts /\ mv[k].bundle \in Bundles
    BY <2>1, SourceClaims
  <2>3. mv[k].from # t
    BY <1>9, <2>2, NoneAssumption
  <2>4. QED
    BY <2>2, <2>3 DEF FencedBy
<1>14. SourcesAreStill'
  BY <1>4, <1>6, <1>8, <1>9 DEF Structure, SourcesAreStill
<1>15. BundlesAreCurrent'
  BY <1>5, <1>6, <1>8, <1>9 DEF Structure, BundlesAreCurrent
<1>16. ASSUME NEW h \in Hosts \ {t}, Claim(h)' PROVE Claim(h) /\ (h = f => Pending(mv'[m]))
  <2>1. Listed(h) /\ (Unblocked(h)' <=> Unblocked(h))
    BY <1>5, <1>16 DEF Claim
  <2>2. Claim(h)
    BY <1>6, <1>16, <2>1 DEF Claim
  <2>3. ASSUME h = f PROVE Pending(mv'[m])
    <3>1. ~Unblocked(f) /\ \A k \in Moves : FencedBy(f, k) => k = m
      BY <1>2 DEF FencedBy, Unblocked
    <3>2. QED
      BY <1>1, <1>6, <1>16, <2>1, <2>3, <3>1 DEF Claim
  <2>4. QED
    BY <2>2, <2>3
<1>17. OneClaim' /\ ClaimIsLatest'
  <2>1. CASE own'[t] = own[t] /\ ~Pending(mv'[m])
    <3>1. \A h \in Hosts : Claim(h)' => h = t
      BY <1>2, <1>16, <2>1 DEF OneClaim
    <3>2. Epoch(f) < Epoch(t)'
      BY <1>2, <1>3, <2>1 DEF Epoch
    <3>3. QED
      BY <1>2, <1>5, <3>1, <3>2, ClaimPasses
  <2>2. CASE own'[t] = mv[m].undo.own /\ index'[t] = mv[m].undo.index
    <3>1. ~Claim(t)'
      <4>1. Listed(t)' => own'[t] # None /\ own'[t].state = "moved"
        BY <1>3, <2>2 DEF Restorable, Listed
      <4>2. QED
        BY <4>1 DEF Claim, Unblocked, FencedBy
    <3>2. OneClaim'
      BY <1>16, <3>1 DEF OneClaim
    <3>3. Listed(t)' => Epoch(t)' < Epoch(f)
      BY <1>2, <1>3, <2>2 DEF Restorable, Listed, Epoch
    <3>4. ASSUME NEW g \in Hosts, NEW h \in Hosts, Claim(h)', g # h, Listed(g)' PROVE Epoch(g)' < Epoch(h)'
      <4>1. h # t /\ Claim(h) /\ h = f /\ Epoch(h)' = Epoch(f)
        BY <1>2, <1>5, <1>16, <3>1, <3>4 DEF OneClaim
      <4>2. CASE g = t
        BY <3>3, <3>4, <4>1, <4>2
      <4>3. CASE g # t
        BY <1>5, <3>4, <4>1, <4>3 DEF ClaimIsLatest
      <4>4. QED
        BY <4>2, <4>3
    <3>5. QED
      BY <3>2, <3>4 DEF ClaimIsLatest
  <2>3. QED
    BY <2>1, <2>2
<1>18. QED
  BY <1>10, <1>11, <1>12, <1>13, <1>14, <1>15, <1>17 DEF Structure

LEMMA SafeArrives ==
    ASSUME TypeInv, TypeInv', Safe, NEW m \in Moves, ~mv[m].copy, StartImport(m) \/ LocalImport(m)
    PROVE  Safe'
<1>1. mv[m].to \in Hosts /\ CanStartImport(m)
  BY CommitFields DEF StartImport, LocalImport
<1>2. Arrives(m, mv[m].to)
  BY <1>1, ImportArrives
<1>3. QED
  BY <1>1, <1>2, ArrivesAtTarget DEF Arrives

\* What the end of an import into t does to a move.
Leaves(k, t) ==
  /\ mv'[k].from = mv[k].from /\ mv'[k].to = mv[k].to /\ mv'[k].copy = mv[k].copy
  /\ mv'[k].bundle = mv[k].bundle
  /\ mv'[k].cli = "idle" <=> mv[k].cli = "idle"
  /\ mv'[k].source /\ mv'[k].cli \notin {"idle", "fenced"} => mv[k].source /\ mv[k].cli \notin {"idle", "fenced"}
  /\ Transferable(mv'[k]) => Transferable(mv[k])
  /\ Pending(mv'[k]) => Pending(mv[k])
  /\ mv[k].to # t => mv'[k].inbound = mv[k].inbound /\ mv'[k].undo = mv[k].undo
  /\ mv[k].to = t /\ ~mv[k].copy => mv'[k].inbound # "importing"

\* The import is done, is rolled back, or is cut off by a restart.
Stops(m, t) ==
  /\ Importer(m, t) /\ UNCHANGED <<newest, seen>>
  /\ \A h \in Hosts \ {t} : own'[h] = own[h] /\ index'[h] = index[h] /\ disk'[h] = disk[h] /\ live'[h] = live[h]
  /\ live'[t] => index'[t] # None
  /\ disk'[t] = index'[t]
  /\ \A k \in Moves : Leaves(k, t)
  /\ \A k \in Moves \ {m} : (Spent(mv'[k]) => Spent(mv[k])) /\ (Delivered(mv'[k]) => Delivered(mv[k]))
  /\ \/ own'[t] = own[t] /\ ~Pending(mv'[m]) /\ index'[t] = index[t]
     \/ /\ own'[t] = own[t] /\ ~Pending(mv'[m]) /\ index'[t] = disk[t]
        /\ ~Delivered(mv'[m]) /\ "crash" \in scenario.faults
     \/ own'[t] = mv[m].undo.own /\ index'[t] = mv[m].undo.index /\ ~Delivered(mv'[m])

LEMMA ImportStops ==
    ASSUME TypeInv, Safe, NEW m \in Moves, ~mv[m].copy,
           \/ \E word \in {"ack", "error"} : ImportDone(m, word)
           \/ ImportFails(m, TRUE),
           NEW t \in Hosts, t = mv[m].to
    PROVE  Stops(m, t)
<1>1. mv[m].inbound = "importing"
  BY DEF ImportDone, ImportFails
<1>2. mv[m] \in Transfers /\ InOrder(mv[m]) /\ ~Over(mv[m]) /\ mv[m].cli # "idle"
  BY <1>1, SourceClaims DEF InOrder, Idle
<1>3. Importer(m, t) /\ index[t] # None /\ ~live[t] /\ \A k \in Moves : Importer(k, t) => k = m
  BY <1>1, <1>2 DEF Importer, Safe, Structure, ImportsAreAlone
<1>4. ASSUME NEW i \in {"acked", "failed"}, NEW w \in {"ack", "error", "quiet"}, NEW r,
             r.from = mv[m].from, r.to = mv[m].to, r.copy = mv[m].copy, r.bundle = mv[m].bundle, r.cli = mv[m].cli,
             r.source = mv[m].source, r.target = mv[m].target, r.inbound = i, r.wire = w, r.told = mv[m].told,
             mv'[m] = r, \A k \in Moves \ {m} : mv'[k] = mv[k]
      PROVE  /\ \A k \in Moves : Leaves(k, t)
             /\ \A k \in Moves \ {m} : (Spent(mv'[k]) => Spent(mv[k])) /\ (Delivered(mv'[k]) => Delivered(mv[k]))
             /\ i = "acked" => ~Pending(mv'[m])
             /\ i = "failed" => ~Delivered(mv'[m])
  <2>1. ~Transferable(r) /\ Pending(mv[m]) /\ (i = "acked" => ~Pending(r))
    BY <1>1, <1>2, <1>4 DEF Transferable, Pending, Over
  <2>2. \A k \in Moves \ {m} : mv[k].to = t /\ ~mv[k].copy => mv[k].inbound # "importing"
    BY <1>3 DEF Importer
  <2>3. i = "failed" => ~Delivered(r)
    BY <1>2, <1>4 DEF Delivered, Over
  <2>4. Leaves(m, t)
    BY <1>1, <1>4, <2>1 DEF Leaves
  <2>5. \A k \in Moves \ {m} : Leaves(k, t)
    BY <1>4, <2>2 DEF Leaves
  <2>6. QED
    BY <1>4, <2>1, <2>3, <2>4, <2>5
<1>5. ASSUME NEW word \in {"ack", "error"}, ImportDone(m, word) PROVE Stops(m, t)
  <2> DEFINE w == Answer(m, word)
             r == Ended(mv[m], "acked", w)
  <2>1. mv'[m] = r /\ \A k \in Moves \ {m} : mv'[k] = mv[k]
    BY <1>5 DEF ImportDone, Ended, Step, TypeInv, TypeOK
  <2>2. w \in {"ack", "error", "quiet"}
    BY DEF Answer
  <2>3. /\ live' = [live EXCEPT ![t] = Unblocked(t)] /\ disk' = [disk EXCEPT ![t] = index[t]]
        /\ UNCHANGED <<own, index, newest, seen>>
    BY <1>5 DEF ImportDone
  <2>4. /\ \A h \in Hosts \ {t} : /\ own'[h] = own[h] /\ index'[h] = index[h]
                                  /\ disk'[h] = disk[h] /\ live'[h] = live[h]
        /\ index'[t] # None /\ disk'[t] = index'[t] /\ own'[t] = own[t]
    BY <1>2, <1>3, <2>3 DEF TypeInv, TypeOK
  <2> HIDE DEF w
  <2>5. /\ r.from = mv[m].from /\ r.to = mv[m].to /\ r.copy = mv[m].copy /\ r.bundle = mv[m].bundle
        /\ r.cli = mv[m].cli
        /\ r.source = mv[m].source /\ r.target = mv[m].target /\ r.inbound = "acked" /\ r.wire = w /\ r.told = mv[m].told
    BY <1>1, <1>2, <2>2, EndedGoes
  <2> HIDE DEF r
  <2>6. /\ \A k \in Moves : Leaves(k, t)
        /\ \A k \in Moves \ {m} : (Spent(mv'[k]) => Spent(mv[k])) /\ (Delivered(mv'[k]) => Delivered(mv[k]))
        /\ ~Pending(mv'[m])
    BY <1>4, <2>1, <2>2, <2>5
  <2>7. QED
    BY <1>3, <2>3, <2>4, <2>6 DEF Stops
<1>6. CASE ImportFails(m, TRUE)
  <2> DEFINE w == Answer(m, "error")
             r == Ended(mv[m], "failed", w)
  <2>1. mv'[m] = r /\ \A k \in Moves \ {m} : mv'[k] = mv[k]
    BY <1>6 DEF ImportFails, Ended, Step, TypeInv, TypeOK
  <2>2. w \in {"error", "quiet"}
    BY DEF Answer
  <2>3. /\ index' = [index EXCEPT ![t] = mv[m].undo.index] /\ own' = [own EXCEPT ![t] = mv[m].undo.own]
        /\ disk' = [disk EXCEPT ![t] = mv[m].undo.index] /\ UNCHANGED <<live, newest, seen>>
    BY <1>6 DEF ImportFails
  <2>4. /\ \A h \in Hosts \ {t} : /\ own'[h] = own[h] /\ index'[h] = index[h]
                                  /\ disk'[h] = disk[h] /\ live'[h] = live[h]
        /\ ~live'[t] /\ disk'[t] = index'[t] /\ own'[t] = mv[m].undo.own /\ index'[t] = mv[m].undo.index
    BY <1>2, <1>3, <2>3 DEF TypeInv, TypeOK
  <2> HIDE DEF w
  <2>5. /\ r.from = mv[m].from /\ r.to = mv[m].to /\ r.copy = mv[m].copy /\ r.bundle = mv[m].bundle
        /\ r.cli = mv[m].cli
        /\ r.source = mv[m].source /\ r.target = mv[m].target /\ r.inbound = "failed" /\ r.wire = w /\ r.told = mv[m].told
    BY <1>1, <1>2, <2>2, EndedGoes
  <2> HIDE DEF r
  <2>6. /\ \A k \in Moves : Leaves(k, t)
        /\ \A k \in Moves \ {m} : (Spent(mv'[k]) => Spent(mv[k])) /\ (Delivered(mv'[k]) => Delivered(mv[k]))
        /\ ~Delivered(mv'[m])
    BY <1>4, <2>1, <2>2, <2>5
  <2>7. QED
    BY <1>3, <2>3, <2>4, <2>6 DEF Stops
<1>7. QED
  BY <1>5, <1>6

LEMMA SafeStops ==
    ASSUME TypeInv, TypeInv', Safe, NEW m \in Moves, NEW t \in Hosts, Stops(m, t)
    PROVE  Safe'
  BY ImportEnds DEF Stops, Leaves

LEMMA SafeImportEnds ==
    ASSUME TypeInv, TypeInv', Safe, NEW m \in Moves, ~mv[m].copy,
           \/ \E word \in {"ack", "error"} : ImportDone(m, word)
           \/ ImportFails(m, TRUE)
    PROVE  Safe'
<1>1. mv[m].to \in Hosts
  BY CommitFields DEF ImportDone, ImportFails
<1>2. QED
  BY <1>1, ImportStops, SafeStops

-----------------------------------------------------------------------------
(* A daemon restarts *)

LEMMA RestartGoesOn ==
    ASSUME TypeInv, NEW h \in Hosts, ~Importing(h), mv' = [m \in Moves |-> Restarted(h, m)]
    PROVE  GoOn
<1> SUFFICES ASSUME NEW k \in Moves PROVE Follows(mv[k], mv'[k]) /\ Sound(k, mv'[k])
  BY DEF GoOn
<1> DEFINE n == mv[k]
           r == mv'[k]
<1>1. n \in Transfers /\ InOrder(n) /\ r = Restarted(h, k)
  BY MoveFields
<1>2. /\ r.from = n.from /\ r.to = n.to /\ r.copy = n.copy /\ r.bundle = n.bundle
      /\ r.inbound = IF n.to = h THEN "none" ELSE n.inbound
      /\ r.undo = IF n.to = h THEN None ELSE n.undo
      /\ r.cli = "idle" <=> n.cli = "idle"
      /\ r.source => n.source
      /\ r.source /\ r.cli \notin {"idle", "fenced"} => n.source /\ n.cli \notin {"idle", "fenced"}
      /\ Transferable(r) => Transferable(n)
      /\ Pending(r) => Pending(n)
      /\ Spent(r) => Spent(n)
      /\ Delivered(r) => Delivered(n)
  BY <1>1, RestartGoes
<1>3. ~n.copy /\ n.inbound = "importing" => n.to # h
  BY DEF Importing
<1>4. r.inbound = "importing" => n.inbound = "importing"
  BY <1>2
<1>5. Follows(n, r)
  <2>1. ~n.copy => /\ r.inbound = "importing" <=> n.inbound = "importing"
                   /\ n.inbound = "importing" => r.undo = n.undo
    BY <1>2, <1>3, <1>4
  <2> HIDE DEF n, r
  <2>2. QED
    BY <1>2, <2>1 DEF Follows
<1>6. Sound(k, r)
  BY <1>2 DEF Sound
<1>7. QED
  BY <1>5, <1>6
LEMMA RestartLeavesRest ==
    ASSUME TypeInv, Safe, NEW h \in Hosts, ~Importing(h), UNCHANGED <<own, seen>>,
           index' = [index EXCEPT ![h] = disk[h]], disk' = [disk EXCEPT ![h] = index'[h]],
           NEW resumes \in BOOLEAN, live' = [live EXCEPT ![h] = resumes], resumes => index'[h] # None,
           mv' = [m \in Moves |-> Restarted(h, m)]
    PROVE  Safe'
<1>1. GoOn
  BY RestartGoesOn
<1>2. /\ \A g \in Hosts : index'[g] = IF g = h THEN disk[h] ELSE index[g]
      /\ \A g \in Hosts : disk'[g] = disk[g]
      /\ \A g \in Hosts : live'[g] = IF g = h THEN resumes ELSE live[g]
  BY DEF TypeInv, TypeOK
<1>3. \A g \in Hosts : index'[g] = None <=> index[g] = None
  BY <1>2 DEF Safe, Structure, HostsInOrder, Listed
<1>4. \A g \in Hosts : Importing(g) => ~live'[g]
  BY <1>2 DEF Safe, Structure, ImportsAreAlone, Importing, Importer
<1>5. HostsInOrder'
  BY <1>1, <1>2, <1>3, FollowImports DEF Safe, Structure, HostsInOrder, Listed
<1>6. QED
  BY <1>1, <1>3, <1>4, <1>5, RecordsStay

\* What a restart does, when a roll-back does not fail half-way.
Restarts(h) ==
  /\ index' = [index EXCEPT ![h] = disk[h]] /\ disk' = [disk EXCEPT ![h] = index'[h]]
  /\ \E resumes \in BOOLEAN : live' = [live EXCEPT ![h] = resumes] /\ (resumes => index'[h] # None)
  /\ mv' = [m \in Moves |-> Restarted(h, m)]
  /\ UNCHANGED <<own, newest, seen>>

LEMMA CrashRestarts ==
    ASSUME Plain, NEW h \in Hosts, Crash(h)
    PROVE  Restarts(h) /\ "crash" \in scenario.faults
<1>1. PICK resumes \in BOOLEAN : Restart(h, resumes, FALSE)
  BY DEF Crash, Restart, Plain
<1>2. QED
  BY <1>1 DEF Restart, Restarts

LEMMA CrashStops ==
    ASSUME TypeInv, Safe, NEW h \in Hosts, Restarts(h), "crash" \in scenario.faults,
           NEW m \in Moves, Importer(m, h)
    PROVE  Stops(m, h)
<1>1. /\ \A g \in Hosts \ {h} : /\ own'[g] = own[g] /\ index'[g] = index[g]
                                /\ disk'[g] = disk[g] /\ live'[g] = live[g]
      /\ live'[h] => index'[h] # None
      /\ disk'[h] = index'[h] /\ own'[h] = own[h] /\ index'[h] = disk[h]
  BY DEF Restarts, TypeInv, TypeOK
<1>2. ~Over(mv[m])
  BY SourceClaims DEF Importer
<1>3. \A k \in Moves :
           /\ mv'[k].from = mv[k].from /\ mv'[k].to = mv[k].to /\ mv'[k].copy = mv[k].copy
           /\ mv'[k].bundle = mv[k].bundle
           /\ mv'[k].inbound = IF mv[k].to = h THEN "none" ELSE mv[k].inbound
           /\ mv'[k].undo = IF mv[k].to = h THEN None ELSE mv[k].undo
           /\ mv'[k].cli = "idle" <=> mv[k].cli = "idle"
           /\ mv'[k].source /\ mv'[k].cli \notin {"idle", "fenced"} => mv[k].source /\ mv[k].cli \notin {"idle", "fenced"}
           /\ Transferable(mv'[k]) => Transferable(mv[k])
           /\ Pending(mv'[k]) => Pending(mv[k])
           /\ mv[k].to = h /\ mv[k].cli # "undo" => ~Pending(mv'[k])
           /\ Spent(mv'[k]) => Spent(mv[k])
           /\ Delivered(mv'[k]) => Delivered(mv[k])
  <2> TAKE k \in Moves
  <2>1. mv'[k] = Restarted(h, k)
    BY DEF Restarts
  <2>2. QED
    BY <2>1, RestartGoes
<1>4. \A k \in Moves : Leaves(k, h)
  BY <1>3 DEF Leaves
<1>5. ~Pending(mv'[m])
  BY <1>2, <1>3 DEF Importer, Over
<1>6. ~Delivered(mv'[m])
  <2>1. ~Delivered(mv[m])
    BY <1>2 DEF Importer, Delivered, Over
  <2>2. QED
    BY <1>3, <2>1
<1>7. UNCHANGED <<newest, seen>>
  BY DEF Restarts
<1>8. QED
  BY <1>1, <1>3, <1>4, <1>5, <1>6, <1>7 DEF Stops

LEMMA SafeCrash ==
    ASSUME TypeInv, TypeInv', Safe, Plain, NEW h \in Hosts, Crash(h)
    PROVE  Safe'
<1>1. Restarts(h) /\ "crash" \in scenario.faults
  BY CrashRestarts
<1>2. CASE ~Importing(h)
  BY <1>1, <1>2, RestartLeavesRest DEF Restarts
<1>3. CASE Importing(h)
  <2>1. PICK m \in Moves : Importer(m, h)
    BY <1>3 DEF Importing, Importer
  <2>2. QED
    BY <1>1, <2>1, CrashStops, SafeStops
<1>4. QED
  BY <1>2, <1>3

-----------------------------------------------------------------------------
(* At most one host writes, and it is the latest *)

LEMMA SafeInit == Init => Safe
<1> SUFFICES ASSUME Init PROVE Safe
  OBVIOUS
<1> DEFINE s == scenario.first
<1>1. /\ \A m \in Moves : mv[m] = Idle
      /\ \A h \in Hosts : /\ own[h] = None /\ seen[h] = None /\ disk[h] = index[h]
                          /\ index[h] # None <=> h = s
                          /\ live[h] => h = s
  <2>1. [status |-> "running", text |-> 0] # None
    BY MoveAssumption, NoneAssumption DEF Entries
  <2>2. QED
    BY <2>1 DEF Init
<1>2. \A m \in Moves : ~mv[m].copy /\ mv[m].inbound = "none" /\ mv[m].wire = "quiet"
  BY <1>1 DEF Idle
<1>3. /\ \A h \in Hosts : ~Importing(h) /\ Unblocked(h) /\ (Listed(h) <=> h = s)
      /\ \A h \in Hosts, m \in Moves : ~FencedBy(h, m) /\ ~Importer(m, h)
  BY <1>1, <1>2 DEF Importing, Importer, Unblocked, Listed, FencedBy
<1>4. NothingIsSeen /\ HostsInOrder /\ FencesAreKnown /\ ImportsAreAlone
  BY <1>1, <1>3 DEF NothingIsSeen, HostsInOrder, FencesAreKnown, ImportsAreAlone
<1>5. CommitsAreFenced /\ SourcesAreStill /\ BundlesAreCurrent
  BY <1>2, <1>3 DEF CommitsAreFenced, SourcesAreStill, BundlesAreCurrent, Transferable
<1>6. OneClaim /\ ClaimIsLatest
  BY <1>3 DEF OneClaim, ClaimIsLatest, Claim
<1>7. QED
  BY <1>4, <1>5, <1>6 DEF Safe, Structure

LEMMA SafeStep ==
    ASSUME TypeInv, Safe, Plain, [Next]_vars
    PROVE  Safe'
<1>1. TypeInv'
  BY TypeStep
<1>2. CASE UNCHANGED vars
  <2>1. GoOn
    BY <1>2, AdvanceGoesOn DEF vars, moving
  <2>2. HostsInOrder' /\ (\A h \in Hosts : Importing(h) => ~live'[h])
    BY <1>2 DEF vars, moving, Safe, Structure, HostsInOrder, Listed, Importing, ImportsAreAlone, Importer
  <2>3. QED
    BY <1>2, <2>1, <2>2, RecordsStay DEF vars, moving
<1>3. ASSUME NEW m \in Moves, Passes(m) PROVE Safe'
  <2>1. CASE \E s, t \in Hosts : FenceFails(m, s, t) \/ \E c, heard \in BOOLEAN : Fence(m, s, t, c, heard)
    BY <1>1, <2>1, SafeFence
  <2>2. CASE Undo(m) \/ Finish(m)
    BY <1>1, <2>2, SafeEnds
  <2>3. CASE \E heard \in BOOLEAN : CloseRetired(m, heard)
    BY <2>3, SafeCloseRetired
  <2>4. CASE ~mv[m].copy /\ (StartImport(m) \/ LocalImport(m))
    BY <1>1, <2>4, SafeArrives
  <2>5. CASE ~mv[m].copy /\ \/ \E word \in {"ack", "error"} : ImportDone(m, word)
                            \/ \E clean \in BOOLEAN : ImportFails(m, clean)
    <3>1. ~ImportFails(m, FALSE)
      BY DEF ImportFails, Plain
    <3>2. QED
      BY <1>1, <2>5, <3>1, SafeImportEnds
  <2>6. QED
    BY <1>3, <2>1, <2>2, <2>3, <2>4, <2>5 DEF Passes
<1>4. ASSUME NEW h \in Hosts, Use(h) \/ Crash(h) \/ Operate(h) PROVE Safe'
  <2>1. \A m \in Moves : ~Look(h, m)
    BY DEF Look, May, Plain
  <2>2. ~GiveBack(h) /\ ~Retire(h)
    BY DEF GiveBack, Retire, Safe, Structure, NothingIsSeen
  <2>3. QED
    BY <1>1, <1>4, <2>1, <2>2, SafeUse, SafeCrash DEF Operate
<1>5. QED
  BY <1>2, <1>3, <1>4, Steps, SafeQuiet

\* Whoever can write has a claim, since no import into it is under way.
LEMMA WriterClaims ==
    ASSUME TypeInv, Safe, NEW h \in Hosts, Writable(h)
    PROVE  Claim(h)
<1>1. ~Importing(h)
  <2> SUFFICES ASSUME NEW m \in Moves, Importer(m, h) PROVE FALSE
    BY DEF Importing, Importer
  <2>1. h \in Daemons
    BY MoveFields DEF Importer, InOrder
  <2>2. QED
    BY <2>1 DEF Writable, Safe, Structure, ImportsAreAlone
<1>2. QED
  BY <1>1 DEF Writable, Claim, Listed

LEMMA SafeImplies ==
    ASSUME TypeInv, Safe
    PROVE  HandOverIsSafe
<1>1. \A h \in Hosts : Writable(h) => Claim(h)
  BY WriterClaims
<1>2. ASSUME NEW g \in Hosts, NEW h \in Hosts, Writable(h), g # h PROVE ~Importing(g)
  <2> SUFFICES ASSUME NEW m \in Moves, Importer(m, g) PROVE FALSE
    BY DEF Importing, Importer
  <2>1. FencedBy(mv[m].from, m) /\ Claim(mv[m].from) /\ mv[m].from \in Hosts
    BY SourceClaims DEF Importer
  <2>2. mv[m].from = h
    BY <1>1, <1>2, <2>1 DEF Safe, OneClaim
  <2>3. QED
    BY <1>2, <2>1, <2>2 DEF Writable, Unblocked, FencedBy
<1>3. OneWriter
  BY <1>1 DEF OneWriter, Safe, OneClaim
<1>4. LatestEpochWrites
  BY <1>1, <1>2 DEF LatestEpochWrites, Listed, Safe, ClaimIsLatest
<1>5. QED
  BY <1>3, <1>4 DEF HandOverIsSafe

LEMMA SafeInvariant == Spec => [](TypeInv /\ (Plain => Safe))
<1>1. Init => TypeInv /\ (Plain => Safe)
  BY InitType, SafeInit
<1>2. TypeInv /\ (Plain => Safe) /\ [Next]_vars => (TypeInv /\ (Plain => Safe))'
  <2> SUFFICES ASSUME TypeInv, Plain => Safe, [Next]_vars PROVE (TypeInv /\ (Plain => Safe))'
    OBVIOUS
  <2>1. TypeInv'
    BY TypeStep
  <2>2. Plain' <=> Plain
    BY DEF Plain, Next, vars
  <2>3. QED
    BY <2>1, <2>2, SafeStep
<1>3. QED
  BY <1>1, <1>2, PTL DEF Spec

\* Whatever breaks on the way of a hand-over, one host at most accepts commands, and its
\* epoch is above that of every other host that lists the session.
THEOREM HandOverSafe == Spec => [](Plain => HandOverIsSafe)
<1>1. TypeInv /\ (Plain => Safe) => (Plain => HandOverIsSafe)
  BY SafeImplies
<1>2. QED
  BY <1>1, SafeInvariant, PTL

-----------------------------------------------------------------------------
(* Where the newest transcript is *)

\* The entry of a host that has the session names the transcript that was saved and that moves
\* carry; a claimant has the newest, and what a move has delivered is there.
KeptAt(h) ==
  /\ index[h] # None => index[h].text <= newest
  /\ disk[h] # None => disk[h].text <= newest
  /\ Listed(h) => disk[h].text = index[h].text
  /\ \A m \in Moves : Importer(m, h) =>
       /\ index[h].text = mv[m].bundle.text
       /\ mv[m].undo.index # None => mv[m].undo.index.text <= newest
  /\ \A m \in Moves : FencedBy(h, m) /\ mv[m].bundle # None => index[h].text = mv[m].bundle.text
  /\ "crash" \notin scenario.faults /\ Claim(h) => index[h].text = newest
  /\ \A m \in Moves :
       mv[m].to = h /\ Delivered(mv[m]) /\ own[h] # None /\ own[h].state = "owned" /\ own[h].move = m =>
         Listed(h) /\ index[h].text >= mv[m].bundle.text

\* The host has the newest transcript, and will not be retired before another has it.
Keeper(h) ==
  /\ Listed(h) /\ index[h].text = newest
  /\ own[h] = None \/ own[h].state \in {"owned", "fenced"}
  /\ \A m \in Moves : FencedBy(h, m) => ~Spent(mv[m])

Kept == (\A h \in Hosts : KeptAt(h)) /\ \E h \in Hosts : Keeper(h)

\* Nothing happens to the host but a save, a change of status or of what it hosts.
Rests(h) ==
  /\ own'[h] = own[h]
  /\ Listed(h)' <=> Listed(h)
  /\ index'[h] = None <=> index[h] = None
  /\ index[h] # None => index'[h].text = index[h].text
  /\ disk'[h] = disk[h] \/ disk'[h] = index'[h]

\* What the move does elsewhere does not concern the host.
GoesBy(k, h) ==
  /\ Importer(k, h)' => Importer(k, h) /\ mv'[k].bundle = mv[k].bundle /\ mv'[k].undo = mv[k].undo
  /\ FencedBy(h, k) =>
       /\ mv'[k].copy \/ Pending(mv'[k]) => mv[k].copy \/ Pending(mv[k])
       /\ \/ mv'[k].bundle = mv[k].bundle
          \/ index[h] # None /\ mv'[k].bundle.text = index[h].text
  /\ mv'[k].to = h /\ Delivered(mv'[k]) =>
       mv[k].to = h /\ Delivered(mv[k]) /\ mv'[k].bundle = mv[k].bundle

LEMMA RestKeeps ==
    ASSUME NEW h \in Hosts, KeptAt(h), Rests(h), \A k \in Moves : GoesBy(k, h),
           UNCHANGED <<scenario, newest>>, BundlesAreCurrent, ImportsAreAlone
    PROVE  KeptAt(h)'
<1>1. \A k \in Moves : FencedBy(h, k)' <=> FencedBy(h, k)
  BY DEF Rests, FencedBy
<1>2. Unblocked(h)' <=> Unblocked(h)
  BY DEF Rests, Unblocked
<1>3. /\ index'[h] # None => index'[h].text <= newest'
      /\ disk'[h] # None => disk'[h].text <= newest'
      /\ Listed(h)' => disk'[h].text = index'[h].text
  <2>1. /\ index'[h] # None => index'[h].text <= newest
        /\ disk'[h] # None => disk'[h].text <= newest
    BY DEF KeptAt, Rests
  <2>2. Listed(h)' => Listed(h) /\ index[h] # None
    BY DEF Rests, Listed
  <2>3. QED
    BY <2>1, <2>2 DEF KeptAt, Rests
<1>4. ASSUME NEW k \in Moves, Importer(k, h)'
      PROVE  /\ index'[h].text = mv'[k].bundle.text
             /\ mv'[k].undo.index # None => mv'[k].undo.index.text <= newest'
  <2>1. Importer(k, h) /\ mv'[k].bundle = mv[k].bundle /\ mv'[k].undo = mv[k].undo
    BY <1>4 DEF GoesBy
  <2>2. index'[h].text = index[h].text
    BY <2>1 DEF Rests, ImportsAreAlone
  <2>3. QED
    BY <2>1, <2>2 DEF KeptAt
<1>5. ASSUME NEW k \in Moves, FencedBy(h, k)', mv'[k].bundle # None
      PROVE  index'[h].text = mv'[k].bundle.text
  <2>1. FencedBy(h, k)
    BY <1>1, <1>5
  <2>2. \/ mv'[k].bundle = mv[k].bundle /\ index[h] # None
        \/ index[h] # None /\ mv'[k].bundle.text = index[h].text
    BY <1>5, <2>1 DEF GoesBy, BundlesAreCurrent
  <2>3. QED
    BY <1>5, <2>1, <2>2 DEF KeptAt, Rests
<1>6. ASSUME "crash" \notin scenario'.faults, Claim(h)' PROVE index'[h].text = newest'
  <2>1. Listed(h)' /\ Listed(h) /\ index[h] # None
    BY <1>6 DEF Claim, Rests, Listed
  <2>2. Claim(h)
    BY <1>1, <1>2, <1>6, <2>1 DEF Claim, GoesBy
  <2>3. QED
    BY <1>6, <2>1, <2>2 DEF KeptAt, Rests
<1>7. ASSUME NEW k \in Moves, mv'[k].to = h, Delivered(mv'[k]), own'[h] # None, own'[h].state = "owned", own'[h].move = k
      PROVE  Listed(h)' /\ index'[h].text >= mv'[k].bundle.text
  <2>1. mv[k].to = h /\ Delivered(mv[k]) /\ mv'[k].bundle = mv[k].bundle /\ own'[h] = own[h]
    BY <1>7 DEF GoesBy, Rests
  <2>2. Listed(h) /\ index[h].text >= mv[k].bundle.text /\ index[h] # None
    BY <1>7, <2>1 DEF KeptAt, Listed
  <2>3. QED
    BY <2>1, <2>2 DEF Rests
<1>8. QED
  BY <1>3, <1>4, <1>5, <1>6, <1>7 DEF KeptAt

LEMMA KeeperRests ==
    ASSUME NEW h \in Hosts, Keeper(h), Rests(h), UNCHANGED newest,
           \A k \in Moves : FencedBy(h, k) /\ Spent(mv'[k]) => Spent(mv[k])
    PROVE  Keeper(h)'
<1>1. \A k \in Moves : FencedBy(h, k)' <=> FencedBy(h, k)
  BY DEF Rests, FencedBy
<1>2. Listed(h)' /\ index'[h].text = newest
  BY DEF Keeper, Rests, Listed
<1>3. QED
  BY <1>1, <1>2 DEF Keeper, Rests

\* A move that goes on concerns no host.
LEMMA GoOnGoesBy ==
    ASSUME TypeInv, Safe, GoOn
    PROVE  \A k \in Moves, h \in Hosts : GoesBy(k, h) /\ (FencedBy(h, k) /\ Spent(mv'[k]) => Spent(mv[k]))
<1> SUFFICES ASSUME NEW k \in Moves, NEW h \in Hosts
             PROVE  GoesBy(k, h) /\ (Spent(mv'[k]) => Spent(mv[k]))
  OBVIOUS
<1>1. Follows(mv[k], mv'[k]) /\ Sound(k, mv'[k]) /\ mv[k] \in Transfers /\ InOrder(mv[k])
  BY MoveFields DEF GoOn
<1>2. mv[k].cli # "fenced" => mv'[k].bundle = mv[k].bundle
  BY <1>1 DEF Sound
<1>3. Importer(k, h)' => Importer(k, h) /\ mv'[k].bundle = mv[k].bundle /\ mv'[k].undo = mv[k].undo
  <2>1. Importer(k, h)' => Importer(k, h) /\ mv'[k].undo = mv[k].undo
    BY <1>1 DEF Follows, Importer
  <2>2. Importer(k, h) => mv[k].cli # "fenced"
    BY <1>1 DEF Importer, InOrder
  <2>3. QED
    BY <1>2, <2>1, <2>2
<1>4. FencedBy(h, k) => /\ mv'[k].copy \/ Pending(mv'[k]) => mv[k].copy \/ Pending(mv[k])
                        /\ \/ mv'[k].bundle = mv[k].bundle
                           \/ index[h] # None /\ mv'[k].bundle.text = index[h].text
  <2>1. FencedBy(h, k) => mv[k].from = h
    BY FenceIsOfSource DEF Safe, Structure
  <2>2. mv'[k].copy \/ Pending(mv'[k]) => mv[k].copy \/ Pending(mv[k])
    BY <1>1 DEF Follows
  <2>3. \/ mv'[k].bundle = mv[k].bundle
        \/ index[mv[k].from] # None /\ mv'[k].bundle.text = index[mv[k].from].text
    BY <1>1 DEF Sound
  <2>4. QED
    BY <2>1, <2>2, <2>3
<1>5. mv'[k].to = h /\ Delivered(mv'[k]) =>
        mv[k].to = h /\ Delivered(mv[k]) /\ mv'[k].bundle = mv[k].bundle
  <2>1. mv'[k].to = h /\ Delivered(mv'[k]) => mv[k].to = h /\ Delivered(mv[k])
    BY <1>1 DEF Follows
  <2>2. Delivered(mv[k]) => mv[k].cli # "fenced"
    BY <1>1 DEF Delivered, InOrder
  <2>3. QED
    BY <1>2, <2>1, <2>2
<1>6. QED
  BY <1>1, <1>3, <1>4, <1>5 DEF GoesBy, Follows

\* Every host rests.
LEMMA HostsRest ==
    ASSUME TypeInv, Safe, Kept, GoOn, UNCHANGED <<scenario, newest>>, \A h \in Hosts : Rests(h)
    PROVE  Kept'
<1>1. \A h \in Hosts : KeptAt(h)'
  BY GoOnGoesBy, RestKeeps DEF Kept, Safe, Structure
<1>2. \A h \in Hosts : Keeper(h) => Keeper(h)'
  BY GoOnGoesBy, KeeperRests
<1>3. QED
  BY <1>1, <1>2 DEF Kept

\* One host does not rest.
LEMMA OthersRest ==
    ASSUME TypeInv, Safe, Kept, UNCHANGED <<scenario, newest>>, NEW x \in Hosts, KeptAt(x)',
           \A h \in Hosts \ {x} : Rests(h) /\ \A k \in Moves : GoesBy(k, h)
    PROVE  \A h \in Hosts : KeptAt(h)'
<1>1. \A h \in Hosts \ {x} : KeptAt(h)'
  BY RestKeeps DEF Kept, Safe, Structure
<1>2. QED
  BY <1>1

-----------------------------------------------------------------------------
(* Steps at which the hosts rest *)

LEMMA KeptQuiet ==
    ASSUME TypeInv, Safe, Kept, NEW m \in Moves, Quiet(m), UNCHANGED scenario
    PROVE  Kept'
<1>1. GoOn
  BY AdvanceGoesOn DEF Quiet, Advances
<1>2. \A h \in Hosts : Rests(h)
  BY <1>1, FollowImports DEF Quiet, HostsStay, Rests, Listed
<1>3. QED
  BY <1>1, <1>2, HostsRest DEF Quiet, HostsStay

LEMMA KeptClose ==
    ASSUME TypeInv, Safe, Kept, NEW h \in Hosts, Close(h), GoOn, UNCHANGED <<own, newest, scenario>>
    PROVE  Kept'
<1>1. /\ \A g \in Hosts : index'[g] = None <=> index[g] = None
      /\ \A g \in Hosts : index[g] # None => index'[g].text = index[g].text
      /\ \A g \in Hosts : disk'[g] = IF g = h THEN index'[g] ELSE disk[g]
  <2>1. index[h] # None => /\ [index[h] EXCEPT !.status = "closed"] # None
                           /\ [index[h] EXCEPT !.status = "closed"].text = index[h].text
    <3>1. index[h] # None => index[h] \in Entries
      BY EntryTypes
    <3>2. QED
      BY <3>1, EntryTypes, NoneAssumption DEF Entries
  <2>2. QED
    BY <2>1 DEF Close, TypeInv, TypeOK
<1>2. \A g \in Hosts : Rests(g)
  BY <1>1, FollowImports DEF Rests, Listed
<1>3. QED
  BY <1>2, HostsRest

LEMMA KeptCloseRetired ==
    ASSUME TypeInv, Safe, Kept, NEW m \in Moves, NEW heard \in BOOLEAN, CloseRetired(m, heard), UNCHANGED scenario
    PROVE  Kept'
<1>1. CASE mv[m].from \notin Daemons
  BY <1>1, QuietEnd, KeptQuiet
<1>2. CASE mv[m].from \in Daemons
  <2>1. GoOn
    BY EndsAdvance, AdvanceGoesOn
  <2>2. Close(mv[m].from) /\ UNCHANGED <<own, newest>>
    BY <1>2 DEF CloseRetired
  <2>3. QED
    BY <1>2, <2>1, <2>2, KeptClose DEF Hosts
<1>3. QED
  BY <1>1, <1>2

\* A turn makes the transcript of the writer the newest.
LEMMA KeptTurn ==
    ASSUME TypeInv, Safe, Kept, NEW h \in Hosts, Turn(h), UNCHANGED scenario
    PROVE  Kept'
<1>1. Claim(h) /\ index[h] \in Entries /\ Unblocked(h) /\ newest \in Nat /\ Listed(h)
  <2>1. Writable(h)
    BY DEF Turn
  <2>2. QED
    BY <2>1, WriterClaims DEF Writable, Claim, TypeInv, TypeOK
<1>2. /\ newest' = newest + 1 /\ index'[h] # None /\ index'[h].text = newest + 1 /\ disk'[h] = index'[h]
      /\ \A g \in Hosts \ {h} : index'[g] = index[g] /\ disk'[g] = disk[g]
      /\ UNCHANGED <<own, mv>>
  <2>1. newest < MaxTurns /\ newest + 1 \in 0..MaxTurns
    BY MoveAssumption DEF Turn, TypeInv, TypeOK, Scenario
  <2>2. [index[h] EXCEPT !.text = newest + 1].text = newest + 1 /\ [index[h] EXCEPT !.text = newest + 1] # None
    BY <1>1, <2>1, EntryTypes, NoneAssumption DEF Entries
  <2>3. QED
    BY <2>2 DEF Turn, TypeInv, TypeOK
<1>3. /\ \A g \in Hosts, k \in Moves : (FencedBy(g, k)' <=> FencedBy(g, k)) /\ (Importer(k, g)' <=> Importer(k, g))
      /\ \A g \in Hosts : (Importing(g)' <=> Importing(g)) /\ (Unblocked(g)' <=> Unblocked(g))
      /\ \A g \in Hosts : Listed(g)' <=> Listed(g)
  <2>1. /\ \A g \in Hosts, k \in Moves : (FencedBy(g, k)' <=> FencedBy(g, k)) /\ (Importer(k, g)' <=> Importer(k, g))
        /\ \A g \in Hosts : (Importing(g)' <=> Importing(g)) /\ (Unblocked(g)' <=> Unblocked(g))
    BY <1>2 DEF FencedBy, Importer, Importing, Unblocked
  <2>2. QED
    BY <1>1, <1>2, <2>1 DEF Listed
<1>4. \A k \in Moves : ~FencedBy(h, k) /\ ~Importer(k, h)
  BY <1>1 DEF FencedBy, Unblocked, Listed, Importing, Importer
<1>5. KeptAt(h)'
  <2>1. ASSUME NEW k \in Moves, mv'[k].to = h, Delivered(mv'[k]), own'[h] # None, own'[h].state = "owned", own'[h].move = k
        PROVE  index'[h].text >= mv'[k].bundle.text
    <3>1. mv[k] \in Transfers /\ InOrder(mv[k]) /\ Delivered(mv[k]) /\ mv[k].to = h
      BY <1>2, <2>1, MoveFields
    <3>2. mv[k].bundle \in Bundles
      BY <3>1 DEF InOrder, Delivered, Transfers
    <3>3. index[h].text >= mv[k].bundle.text /\ index[h].text <= newest
      BY <1>1, <1>2, <2>1, <3>1 DEF Kept, KeptAt, Listed
    <3>4. mv[k].bundle.text \in Nat /\ index[h].text \in Nat
      BY <1>1, <3>2 DEF Bundles, Entries
    <3>5. QED
      BY <1>1, <1>2, <3>3, <3>4
  <2>2. index'[h].text <= newest'
    BY <1>1, <1>2
  <2>3. QED
    BY <1>1, <1>2, <1>3, <1>4, <2>1, <2>2 DEF KeptAt
<1>6. ASSUME NEW g \in Hosts \ {h} PROVE KeptAt(g)'
  <2>1. KeptAt(g)
    BY DEF Kept
  <2>2. \A i \in Nat : i <= newest => i <= newest'
    BY <1>1, <1>2
  <2>3. /\ index'[g] # None => index'[g].text <= newest'
        /\ disk'[g] # None => disk'[g].text <= newest'
        /\ \A k \in Moves : Importer(k, g) /\ mv[k].undo.index # None => mv[k].undo.index.text <= newest'
    <3>1. /\ index[g] # None => index[g].text \in Nat
          /\ disk[g] # None => disk[g].text \in Nat
      BY DEF TypeInv, TypeOK, Entries
    <3>2. ASSUME NEW k \in Moves, Importer(k, g), mv[k].undo.index # None PROVE mv[k].undo.index.text \in Nat
      <4>1. mv[k].undo \in Restored
        BY <3>2, MoveFields DEF Importer, InOrder, Transfers
      <4>2. QED
        BY <3>2, <4>1 DEF Restored, Entries
    <3>3. QED
      BY <1>2, <2>1, <2>2, <3>1, <3>2 DEF KeptAt
  <2>4. ~Claim(g)'
    <3>1. ~Claim(g)
      BY <1>1 DEF Safe, OneClaim
    <3>2. QED
      BY <1>2, <1>3, <3>1 DEF Claim
  <2>5. QED
    BY <1>2, <1>3, <2>1, <2>3, <2>4 DEF KeptAt
<1>7. Keeper(h)'
  BY <1>1, <1>2, <1>3, <1>4 DEF Keeper, Unblocked
<1>8. QED
  BY <1>5, <1>6, <1>7 DEF Kept

LEMMA KeptUse ==
    ASSUME TypeInv, Safe, Kept, NEW h \in Hosts, Use(h), UNCHANGED scenario
    PROVE  Kept'
<1>1. CASE Turn(h)
  BY <1>1, KeptTurn
<1>2. CASE Open(h)
  <2>1. GoOn
    BY <1>2, AdvanceGoesOn DEF Open
  <2>2. /\ \A g \in Hosts : index'[g] = None <=> index[g] = None
        /\ \A g \in Hosts : index[g] # None => index'[g].text = index[g].text
        /\ \A g \in Hosts : disk'[g] = IF g = h THEN index'[g] ELSE disk[g]
        /\ UNCHANGED <<own, newest>>
    <3>1. /\ index[h] # None /\ [index[h] EXCEPT !.status = "running"] # None
          /\ [index[h] EXCEPT !.status = "running"].text = index[h].text
      <4>1. index[h] \in Entries /\ index[h] # None
        BY <1>2, EntryTypes DEF Open
      <4>2. QED
        BY <4>1, EntryTypes, NoneAssumption DEF Entries
    <3>2. QED
      BY <1>2, <3>1 DEF Open, TypeInv, TypeOK
  <2>3. \A g \in Hosts : Rests(g)
    BY <2>1, <2>2, FollowImports DEF Rests, Listed
  <2>4. QED
    BY <2>1, <2>2, <2>3, HostsRest
<1>3. CASE CloseSession(h)
  <2>1. GoOn
    BY <1>3, AdvanceGoesOn DEF CloseSession
  <2>2. QED
    BY <1>3, <2>1, KeptClose DEF CloseSession
<1>4. CASE SaveIndex(h)
  <2>1. GoOn
    BY <1>4, AdvanceGoesOn DEF SaveIndex
  <2>2. /\ \A g \in Hosts : disk'[g] = IF g = h THEN index[g] ELSE disk[g]
        /\ UNCHANGED <<index, own, newest>>
    BY <1>4 DEF SaveIndex, TypeInv, TypeOK
  <2>3. \A g \in Hosts : Rests(g)
    BY <2>1, <2>2, FollowImports DEF Rests, Listed
  <2>4. QED
    BY <2>1, <2>2, <2>3, HostsRest
<1>5. QED
  BY <1>1, <1>2, <1>3, <1>4 DEF Use

-----------------------------------------------------------------------------
(* Steps at the source of a move *)

LEMMA DeliveredHasBundle ==
    ASSUME NEW n \in Transfers, InOrder(n), Delivered(n) \/ Spent(n)
    PROVE  n.bundle \in Bundles
  BY DEF InOrder, Delivered, Spent, Transfers

LEMMA KeptFence ==
    ASSUME TypeInv, TypeInv', Safe, Kept, NEW m \in Moves, NEW s \in Hosts, NEW t \in Hosts,
           \/ FenceFails(m, s, t)
           \/ \E c, heard \in BOOLEAN : Fence(m, s, t, c, heard),
           UNCHANGED scenario
    PROVE  Kept'
<1>1. PICK rec : Begins(m, s, rec)
  BY FenceBegins
<1>2. /\ own'[s] = rec /\ rec # None /\ \A h \in Hosts \ {s} : own'[h] = own[h]
      /\ UNCHANGED <<index, disk, newest>>
      /\ (rec.state = "fenced" /\ rec.move = m) \/ (rec.state = "owned" /\ rec.move = None)
      /\ \A k \in Moves \ {m} : mv'[k] = mv[k]
  BY <1>1, NoneAssumption DEF Begins, TypeInv, TypeOK
<1>3. ~Delivered(mv'[m]) /\ ~Spent(mv'[m]) /\ mv'[m].bundle = None /\ mv'[m].inbound = "none"
  <2>1. mv'[m] \in Transfers /\ InOrder(mv'[m])
    BY DEF TypeInv, TypeOK, MovesInOrder
  <2>2. QED
    BY <1>1, <2>1, DeliveredHasBundle, NoneAssumption DEF Begins
<1>4. mv[m].inbound = "none"
  BY <1>1, MoveFields DEF Begins, InOrder, Idle
<1>5. /\ \A k \in Moves, h \in Hosts : Importer(k, h)' <=> Importer(k, h) /\ k # m
      /\ \A h \in Hosts : Importing(h)' <=> Importing(h)
  <2>1. \A k \in Moves, h \in Hosts : Importer(k, h)' <=> Importer(k, h) /\ k # m
    BY <1>2, <1>3 DEF Importer
  <2>2. \A h \in Hosts : ~Importer(m, h)
    BY <1>4 DEF Importer
  <2>3. \A h \in Hosts : (Importing(h) <=> \E k \in Moves : Importer(k, h)) /\ (Importing(h)' <=> \E k \in Moves : Importer(k, h)')
    BY DEF Importing, Importer
  <2>4. QED
    BY <2>1, <2>2, <2>3
<1>6. \A h \in Hosts : Listed(h)' <=> Listed(h)
  BY <1>2, <1>5 DEF Listed
<1>7. \A h \in Hosts : ~FencedBy(h, m)
  BY <1>1, FenceIsOfSource DEF Begins, Safe, Structure
<1>8. \A k \in Moves : FencedBy(s, k)' => k = m
  BY <1>2 DEF FencedBy
<1>9. KeptAt(s)'
  <2>1. KeptAt(s)
    BY DEF Kept
  <2>2. Claim(s)' => Claim(s)
    BY <1>1, <1>6 DEF Begins, Claim
  <2>3. None \notin Moves
    BY MoveAssumption
  <2>4. QED
    BY <1>2, <1>3, <1>5, <1>6, <1>8, <2>1, <2>2, <2>3 DEF KeptAt
<1>10. \A h \in Hosts \ {s} : Rests(h) /\ \A k \in Moves : GoesBy(k, h)
  <2> SUFFICES ASSUME NEW h \in Hosts \ {s}, NEW k \in Moves PROVE Rests(h) /\ GoesBy(k, h)
    OBVIOUS
  <2>1. Rests(h)
    BY <1>2, <1>6 DEF Rests
  <2>2. GoesBy(k, h)
    BY <1>2, <1>3, <1>5, <1>7 DEF GoesBy
  <2>3. QED
    BY <2>1, <2>2
<1>11. \A h \in Hosts : KeptAt(h)'
  BY <1>2, <1>9, <1>10, OthersRest
<1>12. \A h \in Hosts : Keeper(h) => Keeper(h)'
  <2>1. Keeper(s) => Keeper(s)'
    BY <1>2, <1>3, <1>6, <1>8 DEF Keeper
  <2>2. ASSUME NEW h \in Hosts \ {s}, Keeper(h) PROVE Keeper(h)'
    BY <1>2, <1>3, <1>10, <2>2, KeeperRests
  <2>3. QED
    BY <2>1, <2>2
<1>13. QED
  BY <1>11, <1>12 DEF Kept

LEMMA KeptEnds ==
    ASSUME TypeInv, TypeInv', Safe, Kept, NEW m \in Moves, Undo(m) \/ Finish(m), UNCHANGED scenario
    PROVE  Kept'
<1>1. mv[m] \in Transfers /\ InOrder(mv[m]) /\ mv[m].from \in Hosts /\ Advances(m)
  BY MoveFields, EndsAdvance DEF Undo, Finish, InOrder
<1> PICK s \in Hosts : s = mv[m].from
  BY <1>1
<1>2. GoOn
  BY <1>1, AdvanceGoesOn
<1>3. \A h \in Hosts : Importing(h)' <=> Importing(h)
  BY <1>2, FollowImports
<1>4. \A k \in Moves, h \in Hosts : Importer(k, h)' <=> Importer(k, h)
  BY <1>2, FollowImports
<1>5. CASE ~(mv[m].source /\ FencedBy(s, m))
  BY <1>5, QuietEnd, KeptQuiet
<1>6. CASE mv[m].source /\ FencedBy(s, m)
  <2>1. /\ UNCHANGED <<index, newest>>
        /\ \A h \in Hosts \ {s} : own'[h] = own[h] /\ disk'[h] = disk[h]
        /\ disk'[s] = disk[s] \/ disk'[s] = index'[s]
        /\ own'[s] # None
        /\ \/ own'[s].state = "owned" /\ own'[s].move = None /\ (mv[m].cli = "undo" \/ mv[m].copy)
           \/ own'[s].state = "moved" /\ mv[m].cli = "finish" /\ ~mv[m].copy
    <3>1. own[s] # None /\ own[s] \in Records
      BY <1>1, <1>6 DEF FencedBy, TypeInv, TypeOK
    <3>2. CASE Undo(m)
      <4> DEFINE rec == [own[s] EXCEPT !.state = "owned", !.move = None]
      <4>1. rec.state = "owned" /\ rec.move = None
        BY <3>1 DEF Records
      <4>2. rec \in Records /\ rec # None
        <5>1. rec \in Records
          BY <3>1, RecordTypes
        <5>2. QED
          BY <5>1, NoneAssumption
      <4>3. /\ own' = [own EXCEPT ![s] = rec] /\ UNCHANGED <<index, newest>>
            /\ disk' = [disk EXCEPT ![s] = IF Resumed(s) THEN index[s] ELSE @]
            /\ mv[m].cli = "undo" \/ (mv[m].cli = "finish" /\ mv[m].copy)
        BY <1>6, <3>2 DEF Undo, Unfence
      <4> HIDE DEF rec
      <4>4. QED
        BY <4>1, <4>2, <4>3 DEF TypeInv, TypeOK
    <3>3. CASE Finish(m)
      <4>1. Tombstone(m).state = "moved" /\ Tombstone(m) # None
        <5>1. own[mv[m].from] = own[s]
          OBVIOUS
        <5>2. [own[s] EXCEPT !.state = "moved", !.to = mv[m].to] \in Records
          BY <3>1, <1>1 DEF Records, Transfers
        <5>3. [own[s] EXCEPT !.state = "moved", !.to = mv[m].to].state = "moved"
          BY <3>1 DEF Records
        <5>4. QED
          BY <5>1, <5>2, <5>3, NoneAssumption DEF Tombstone
      <4>2. /\ own' = [own EXCEPT ![s] = Tombstone(m)] /\ UNCHANGED <<index, disk, newest>>
            /\ mv[m].cli = "finish" /\ ~mv[m].copy
        BY <1>6, <3>3 DEF Finish
      <4>3. QED
        BY <4>1, <4>2 DEF TypeInv, TypeOK
    <3>4. QED
      BY <3>2, <3>3
  <2>2. \A h \in Hosts : Listed(h)' <=> Listed(h)
    BY <1>3, <2>1 DEF Listed
  <2>3. \A k \in Moves : ~FencedBy(s, k)'
    BY <2>1 DEF FencedBy
  <2>4. KeptAt(s)'
    <3>1. KeptAt(s)
      BY <1>1 DEF Kept
    <3>2. Claim(s)' => Claim(s)
      <4>1. ASSUME Claim(s)' PROVE own'[s].state = "owned"
        BY <2>1, <2>3, <4>1 DEF Claim, Unblocked
      <4>2. QED
        BY <1>6, <2>1, <2>2, <4>1 DEF Claim, Pending
    <3>3. Listed(s)' => disk'[s].text = index'[s].text
      BY <2>1, <2>2, <3>1 DEF KeptAt
    <3>4. \A k \in Moves : Importer(k, s)' => mv'[k].bundle = mv[k].bundle /\ mv'[k].undo = mv[k].undo
      BY <1>1, <1>2, GoOnGoesBy DEF GoesBy
    <3>5. /\ disk'[s] # None => disk'[s].text <= newest
          /\ index'[s] # None => index'[s].text <= newest
      BY <2>1, <3>1 DEF KeptAt
    <3>6. None \notin Moves
      BY MoveAssumption
    <3>7. \A k \in Moves : Importer(k, s)' =>
            /\ index'[s].text = mv'[k].bundle.text
            /\ mv'[k].undo.index # None => mv'[k].undo.index.text <= newest'
      <4> SUFFICES ASSUME NEW k \in Moves, Importer(k, s)'
                   PROVE  /\ index'[s].text = mv'[k].bundle.text
                          /\ mv'[k].undo.index # None => mv'[k].undo.index.text <= newest'
        OBVIOUS
      <4>1. Importer(k, s) /\ mv'[k].bundle = mv[k].bundle /\ mv'[k].undo = mv[k].undo
        BY <1>4, <3>4
      <4>2. QED
        BY <2>1, <3>1, <4>1 DEF KeptAt
    <3>8. "crash" \notin scenario'.faults /\ Claim(s)' => index'[s].text = newest'
      BY <2>1, <3>1, <3>2 DEF KeptAt
    <3>9. \A k \in Moves : ~(own'[s].state = "owned" /\ own'[s].move = k)
      BY <2>1, <3>6
    <3>10. QED
      BY <2>1, <2>3, <3>3, <3>5, <3>7, <3>8, <3>9 DEF KeptAt
  <2>5. \A h \in Hosts \ {s} : Rests(h)
    BY <2>1, <2>2 DEF Rests
  <2>6. \A h \in Hosts : KeptAt(h)'
    BY <1>1, <1>2, <2>1, <2>4, <2>5, GoOnGoesBy, OthersRest
  <2>7. ASSUME NEW h \in Hosts, Keeper(h) PROVE Keeper(h)'
    <3>1. CASE h # s
      BY <1>2, <2>1, <2>5, <2>7, <3>1, GoOnGoesBy, KeeperRests
    <3>2. CASE h = s
      <4>1. ~(mv[m].cli = "finish" /\ ~mv[m].copy)
        BY <1>6, <2>7, <3>2 DEF Keeper, Spent
      <4>2. QED
        BY <2>1, <2>2, <2>3, <2>7, <3>2, <4>1 DEF Keeper
    <3>3. QED
      BY <3>1, <3>2
  <2>8. QED
    BY <2>6, <2>7 DEF Kept
<1>7. QED
  BY <1>5, <1>6

-----------------------------------------------------------------------------
(* Steps at the target of a move *)

LEMMA KeptArrives ==
    ASSUME TypeInv, TypeInv', Safe, Kept, NEW m \in Moves, NEW t \in Hosts, Arrives(m, t), UNCHANGED scenario
    PROVE  Kept'
<1> USE DEF Safe
<1>1. t = mv[m].to /\ ~mv[m].copy /\ CanStartImport(m) /\ Transferable(mv[m]) /\ Imported(m).text = mv[m].bundle.text
      /\ Imported(m) # None
  BY CommitFields DEF Arrives
<1>2. /\ mv[m] \in Transfers /\ mv[m].from \in Hosts /\ mv[m].from # t
      /\ mv[m].bundle \in Bundles /\ ~Over(mv[m])
      /\ FencedBy(mv[m].from, m) /\ Listed(mv[m].from) /\ Claim(mv[m].from)
  BY <1>1, SourceClaims
<1> PICK f \in Hosts : f = mv[m].from
  BY <1>2
<1>3. /\ ~Importing(t)
      /\ own[t] # None => own[t].state = "moved"
      /\ index[t] # None => own[t] # None
  BY <1>1, TargetIsFree
<1>4. Acquired(m) # None /\ Acquired(m).state = "owned" /\ Acquired(m).move = m
  BY <1>1, AcquiredType
<1>5. /\ own'[t] # None /\ own'[t].state = "owned" /\ own'[t].move = m
      /\ index'[t] # None /\ index'[t].text = mv[m].bundle.text
      /\ \A h \in Hosts \ {t} : own'[h] = own[h] /\ index'[h] = index[h] /\ disk'[h] = disk[h]
      /\ UNCHANGED newest
  BY <1>1, <1>4 DEF Arrives, TypeInv, TypeOK
<1>6. /\ mv'[m].from = f /\ mv'[m].to = t /\ ~mv'[m].copy
      /\ mv'[m].bundle = mv[m].bundle
      /\ mv'[m] \in Transfers /\ InOrder(mv'[m])
      /\ mv'[m].cli = mv[m].cli
      /\ \/ mv'[m].inbound = "importing" /\ mv'[m].undo.index = index[t] /\ disk'[t] = disk[t]
         \/ mv'[m].inbound = "acked" /\ disk'[t] = index'[t]
      /\ \A k \in Moves \ {m} : mv'[k] = mv[k]
  BY <1>1 DEF Arrives, TypeInv, TypeOK, MovesInOrder
<1>7. /\ \A k \in Moves, h \in Hosts \ {t} : Importer(k, h)' <=> Importer(k, h)
      /\ \A k \in Moves : Importer(k, t)' => k = m /\ mv'[m].inbound = "importing"
      /\ \A h \in Hosts \ {t} : Importing(h)' <=> Importing(h)
      /\ Importing(t)' <=> mv'[m].inbound = "importing"
  <2>1. \A k \in Moves \ {m}, h \in Hosts : Importer(k, h)' <=> Importer(k, h)
    BY <1>6 DEF Importer
  <2>2. /\ \A h \in Hosts : Importer(m, h)' <=> h = t /\ mv'[m].inbound = "importing"
        /\ \A h \in Hosts \ {t} : ~Importer(m, h)
    BY <1>1, <1>6 DEF Importer
  <2>3. \A h \in Hosts : (Importing(h) <=> \E k \in Moves : Importer(k, h)) /\ (Importing(h)' <=> \E k \in Moves : Importer(k, h)')
    BY DEF Importing, Importer
  <2>4. \A k \in Moves : ~Importer(k, t)
    BY <1>3, <2>3
  <2>5. QED
    BY <2>1, <2>2, <2>3, <2>4
<1>8. /\ \A h \in Hosts \ {t} : Listed(h)' <=> Listed(h)
      /\ Listed(t)' <=> mv'[m].inbound # "importing"
  BY <1>5, <1>7 DEF Listed
<1>9. Delivered(mv'[m]) => mv'[m].inbound = "acked"
  BY <1>6 DEF Delivered, InOrder, Over
<1>10. index[f].text = mv[m].bundle.text /\ index[f].text <= newest /\ mv[m].bundle.text \in Nat
       /\ ("crash" \notin scenario.faults => index[f].text = newest)
  <2>1. KeptAt(f) /\ index[f] # None
    BY <1>2 DEF Kept, Listed
  <2>2. mv[m].bundle # None /\ mv[m].bundle.text \in Nat
    BY <1>2, NoneAssumption DEF Bundles
  <2>3. QED
    BY <1>2, <2>1, <2>2 DEF KeptAt
<1>11. KeptAt(t)'
  <2>1. KeptAt(t)
    BY DEF Kept
  <2>2. /\ index'[t].text <= newest'
        /\ disk'[t] # None => disk'[t].text <= newest'
        /\ Listed(t)' => disk'[t].text = index'[t].text
    BY <1>5, <1>6, <1>8, <1>10, <2>1 DEF KeptAt
  <2>3. \A k \in Moves : Importer(k, t)' =>
          /\ index'[t].text = mv'[k].bundle.text
          /\ mv'[k].undo.index # None => mv'[k].undo.index.text <= newest'
    <3>1. mv'[m].inbound = "importing" /\ mv'[m].undo.index # None => mv'[m].undo.index.text <= newest'
      BY <1>5, <1>6, <2>1 DEF KeptAt
    <3>2. QED
      BY <1>5, <1>6, <1>7, <3>1
  <2>4. \A k \in Moves : ~FencedBy(t, k)'
    BY <1>5 DEF FencedBy
  <2>5. \A k \in Moves : Delivered(mv'[k]) /\ own'[t].move = k => Listed(t)' /\ index'[t].text >= mv'[k].bundle.text
    <3>1. index'[t].text >= mv'[m].bundle.text
      BY <1>5, <1>6, <1>10
    <3>2. QED
      BY <1>5, <1>8, <1>9, <3>1
  <2>6. "crash" \notin scenario'.faults => index'[t].text = newest'
    BY <1>5, <1>10
  <2>7. QED
    BY <2>2, <2>3, <2>4, <2>5, <2>6 DEF KeptAt
<1>12. \A h \in Hosts \ {t} : Rests(h) /\ \A k \in Moves : GoesBy(k, h)
  <2> SUFFICES ASSUME NEW h \in Hosts \ {t}, NEW k \in Moves PROVE Rests(h) /\ GoesBy(k, h)
    OBVIOUS
  <2>1. Rests(h)
    BY <1>5, <1>8 DEF Rests
  <2>2. CASE k # m
    <3>1. mv'[k] = mv[k] /\ (Importer(k, h)' => Importer(k, h))
      BY <1>6, <1>7, <2>2
    <3>2. QED
      BY <2>1, <3>1 DEF GoesBy
  <2>3. CASE k = m
    <3>1. ~Importer(m, h)'
      BY <1>6 DEF Importer
    <3>2. Pending(mv[m])
      BY <1>1 DEF Pending
    <3>3. mv'[m].to # h /\ mv'[m].bundle = mv[m].bundle
      BY <1>6
    <3>4. QED
      BY <2>1, <2>3, <3>1, <3>2, <3>3 DEF GoesBy
  <2>4. QED
    BY <2>1, <2>2, <2>3
<1>13. \A h \in Hosts : KeptAt(h)'
  BY <1>5, <1>11, <1>12, OthersRest
<1>14. PICK g \in Hosts : Keeper(g)
  BY DEF Kept
<1>15. g # t
  BY <1>3, <1>14 DEF Keeper, Listed
<1>16. CASE g = f /\ mv'[m].inbound = "acked"
  <2>1. index'[t].text = newest' /\ Listed(t)'
    BY <1>5, <1>8, <1>10, <1>14, <1>16 DEF Keeper
  <2>2. \A k \in Moves : ~FencedBy(t, k)'
    BY <1>5 DEF FencedBy
  <2>3. Keeper(t)'
    BY <1>5, <2>1, <2>2 DEF Keeper
  <2>4. QED
    BY <1>13, <2>3 DEF Kept
<1>17. CASE ~(g = f /\ mv'[m].inbound = "acked")
  <2>1. FencedBy(g, m) => g = f
    BY FenceIsOfSource DEF Structure
  <2>2. Spent(mv'[m]) => Delivered(mv'[m])
    BY DEF Spent, Delivered
  <2>3. \A k \in Moves : FencedBy(g, k) /\ Spent(mv'[k]) => Spent(mv[k])
    BY <1>6, <1>9, <1>17, <2>1, <2>2
  <2>4. Keeper(g)'
    BY <1>5, <1>12, <1>14, <1>15, <2>3, KeeperRests
  <2>5. QED
    BY <1>13, <2>4 DEF Kept
<1>18. QED
  BY <1>16, <1>17

LEMMA KeptStops ==
    ASSUME TypeInv, TypeInv', Safe, Kept, NEW m \in Moves, NEW t \in Hosts, Stops(m, t), UNCHANGED scenario
    PROVE  Kept'
<1> USE DEF Safe
<1>1. ~mv[m].copy /\ mv[m].inbound = "importing" /\ mv[m].to = t /\ Importer(m, t)
  BY DEF Stops, Importer
<1>2. /\ mv[m].bundle \in Bundles /\ mv[m].from \in Hosts /\ mv[m].from # t
      /\ FencedBy(mv[m].from, m) /\ Listed(mv[m].from) /\ Claim(mv[m].from)
  BY <1>1, SourceClaims
<1> PICK f \in Hosts : f = mv[m].from
  BY <1>2
<1>3. /\ index[t] # None /\ own[t] # None /\ own[t].state \in {"owned", "fenced"}
      /\ own[t].state = "owned" => own[t].move = m
      /\ Restorable(m, t) /\ Importing(t)
  BY <1>1 DEF Structure, ImportsAreAlone, Importing
<1>4. /\ \A h \in Hosts \ {t} : own'[h] = own[h] /\ index'[h] = index[h] /\ disk'[h] = disk[h]
      /\ disk'[t] = index'[t] /\ UNCHANGED newest
  BY DEF Stops
<1>5. \A k \in Moves :
        /\ mv'[k].to = mv[k].to /\ mv'[k].copy = mv[k].copy /\ mv'[k].bundle = mv[k].bundle
        /\ Pending(mv'[k]) => Pending(mv[k])
        /\ mv[k].to # t => mv'[k].inbound = mv[k].inbound /\ mv'[k].undo = mv[k].undo
        /\ mv[k].to = t /\ ~mv[k].copy => mv'[k].inbound # "importing"
  BY DEF Stops, Leaves
<1>6. \A k \in Moves \ {m} : (Spent(mv'[k]) => Spent(mv[k])) /\ (Delivered(mv'[k]) => Delivered(mv[k]))
  BY DEF Stops
<1>7. \/ own'[t] = own[t] /\ index'[t] = index[t]
      \/ own'[t] = own[t] /\ index'[t] = disk[t] /\ ~Delivered(mv'[m]) /\ "crash" \in scenario.faults
      \/ own'[t] = mv[m].undo.own /\ index'[t] = mv[m].undo.index /\ ~Delivered(mv'[m])
  BY DEF Stops
<1>8. /\ \A k \in Moves, h \in Hosts : Importer(k, h)' <=> Importer(k, h) /\ h # t
      /\ \A h \in Hosts : Importing(h)' <=> Importing(h) /\ h # t
  <2>1. \A k \in Moves, h \in Hosts : Importer(k, h)' <=> Importer(k, h) /\ h # t
    BY <1>5 DEF Importer
  <2>2. \A h \in Hosts : (Importing(h) <=> \E k \in Moves : Importer(k, h)) /\ (Importing(h)' <=> \E k \in Moves : Importer(k, h)')
    BY DEF Importing, Importer
  <2>3. QED
    BY <2>1, <2>2
<1>9. /\ \A h \in Hosts \ {t} : Listed(h)' <=> Listed(h)
      /\ Listed(t)' <=> index'[t] # None
  BY <1>4, <1>8 DEF Listed
<1>10. own'[t] = own[t] \/ (own'[t] # None => own'[t].state = "moved")
  BY <1>3, <1>7 DEF Restorable
<1>11. \A k \in Moves : FencedBy(t, k)' => FencedBy(t, k)
  BY <1>10 DEF FencedBy
<1>12. \A k \in Moves : FencedBy(t, k) => mv[k].bundle = None
  BY <1>3 DEF Structure, SourcesAreStill
<1>13. /\ index[f].text = mv[m].bundle.text /\ mv[m].bundle.text \in Nat
       /\ "crash" \notin scenario.faults => index[f].text = newest
       /\ index[t].text = mv[m].bundle.text
       /\ index[t].text <= newest
       /\ disk[t] # None => disk[t].text <= newest
       /\ mv[m].undo.index # None => mv[m].undo.index.text <= newest
  <2>1. KeptAt(f) /\ KeptAt(t)
    BY DEF Kept
  <2>2. mv[m].bundle # None /\ mv[m].bundle.text \in Nat
    BY <1>2, NoneAssumption DEF Bundles
  <2>3. QED
    BY <1>1, <1>2, <1>3, <2>1, <2>2 DEF KeptAt
<1>14. KeptAt(t)'
  <2>1. /\ index'[t] # None => index'[t].text <= newest'
        /\ disk'[t] # None => disk'[t].text <= newest'
        /\ Listed(t)' => disk'[t].text = index'[t].text
    BY <1>4, <1>7, <1>13
  <2>2. \A k \in Moves : ~Importer(k, t)'
    BY <1>8
  <2>3. \A k \in Moves : FencedBy(t, k)' => mv'[k].bundle = None
    BY <1>5, <1>11, <1>12
  <2>4. "crash" \notin scenario'.faults /\ Claim(t)' => index'[t].text = newest'
    <3>1. CASE own'[t] = mv[m].undo.own /\ index'[t] = mv[m].undo.index
      <4>1. Listed(t)' => own'[t] # None /\ own'[t].state = "moved"
        BY <1>3, <1>9, <3>1 DEF Restorable
      <4>2. QED
        BY <4>1 DEF Claim, Unblocked, FencedBy
    <3>2. CASE index'[t] = index[t]
      BY <1>4, <1>13, <3>2
    <3>3. QED
      BY <1>7, <3>1, <3>2
  <2>5. ASSUME NEW k \in Moves, mv'[k].to = t, Delivered(mv'[k]), own'[t] # None, own'[t].state = "owned", own'[t].move = k
        PROVE  Listed(t)' /\ index'[t].text >= mv'[k].bundle.text
    <3>1. own'[t] = own[t] /\ k = m
      BY <1>3, <1>10, <2>5
    <3>2. index'[t] = index[t]
      BY <1>7, <2>5, <3>1
    <3>3. QED
      BY <1>3, <1>5, <1>9, <1>13, <3>1, <3>2
  <2>6. QED
    BY <2>1, <2>2, <2>3, <2>4, <2>5 DEF KeptAt
<1>15. \A h \in Hosts \ {t} : Rests(h) /\ \A k \in Moves : GoesBy(k, h)
  <2> SUFFICES ASSUME NEW h \in Hosts \ {t}, NEW k \in Moves PROVE Rests(h) /\ GoesBy(k, h)
    OBVIOUS
  <2>1. Rests(h)
    BY <1>4, <1>9 DEF Rests
  <2>2. Importer(k, h)' => Importer(k, h) /\ mv'[k].bundle = mv[k].bundle /\ mv'[k].undo = mv[k].undo
    BY <1>5, <1>8 DEF Importer
  <2>3. mv'[k].to = h /\ Delivered(mv'[k]) => mv[k].to = h /\ Delivered(mv[k]) /\ mv'[k].bundle = mv[k].bundle
    BY <1>1, <1>5, <1>6
  <2>4. mv'[k].copy \/ Pending(mv'[k]) => mv[k].copy \/ Pending(mv[k])
    BY <1>5
  <2>5. GoesBy(k, h)
    BY <1>5, <2>2, <2>3, <2>4 DEF GoesBy
  <2>6. QED
    BY <2>1, <2>5
<1>16. \A h \in Hosts : KeptAt(h)'
  BY <1>4, <1>14, <1>15, OthersRest
<1>17. PICK g \in Hosts : Keeper(g)
  BY DEF Kept
<1>18. g # t
  BY <1>3, <1>17 DEF Keeper, Listed
<1>19. CASE g = f /\ own'[t] = own[t] /\ index'[t] = index[t]
  <2>1. index'[t].text = newest' /\ Listed(t)' /\ own'[t].state \in {"owned", "fenced"}
    BY <1>3, <1>4, <1>9, <1>13, <1>17, <1>19 DEF Keeper
  <2>2. \A k \in Moves : FencedBy(t, k)' => ~Spent(mv'[k])
    <3> SUFFICES ASSUME NEW k \in Moves, FencedBy(t, k)', Spent(mv'[k]) PROVE FALSE
      OBVIOUS
    <3>1. mv'[k] \in Transfers /\ InOrder(mv'[k])
      BY DEF TypeInv, TypeOK, MovesInOrder
    <3>2. mv'[k].bundle \in Bundles
      BY <3>1, DeliveredHasBundle
    <3>3. QED
      BY <1>5, <1>11, <1>12, <3>2, NoneAssumption
  <2>3. Keeper(t)'
    BY <2>1, <2>2 DEF Keeper
  <2>4. QED
    BY <1>16, <2>3 DEF Kept
<1>20. CASE ~(g = f /\ own'[t] = own[t] /\ index'[t] = index[t])
  <2>1. FencedBy(g, m) => g = f
    BY FenceIsOfSource DEF Structure
  <2>2. Spent(mv'[m]) => Delivered(mv'[m])
    BY DEF Spent, Delivered
  <2>3. \A k \in Moves : FencedBy(g, k) /\ Spent(mv'[k]) => Spent(mv[k])
    BY <1>6, <1>7, <1>20, <2>1, <2>2
  <2>4. Keeper(g)'
    BY <1>4, <1>15, <1>17, <1>18, <2>3, KeeperRests
  <2>5. QED
    BY <1>16, <2>4 DEF Kept
<1>21. QED
  BY <1>19, <1>20

LEMMA KeptCrash ==
    ASSUME TypeInv, TypeInv', Safe, Kept, Plain, NEW h \in Hosts, Crash(h), UNCHANGED scenario
    PROVE  Kept'
<1>1. Restarts(h) /\ "crash" \in scenario.faults
  BY CrashRestarts
<1>2. CASE Importing(h)
  <2>1. PICK m \in Moves : Importer(m, h)
    BY <1>2 DEF Importing, Importer
  <2>2. QED
    BY <1>1, <2>1, CrashStops, KeptStops
<1>3. CASE ~Importing(h)
  <2>1. GoOn
    BY <1>1, <1>3, RestartGoesOn DEF Restarts
  <2>2. /\ \A g \in Hosts : index'[g] = IF g = h THEN disk[h] ELSE index[g]
        /\ \A g \in Hosts : disk'[g] = disk[g]
        /\ UNCHANGED <<own, newest>>
    BY <1>1 DEF Restarts, TypeInv, TypeOK
  <2>3. /\ index[h] = None <=> disk[h] = None
        /\ index[h] # None => disk[h].text = index[h].text
    BY <1>3 DEF Safe, Structure, HostsInOrder, Kept, KeptAt, Listed
  <2>4. \A g \in Hosts : Rests(g)
    BY <2>1, <2>2, <2>3, FollowImports DEF Rests, Listed
  <2>5. QED
    BY <2>1, <2>2, <2>4, HostsRest
<1>4. QED
  BY <1>2, <1>3

-----------------------------------------------------------------------------
(* The newest transcript is kept *)

LEMMA KeptInit == Init => Kept
<1> SUFFICES ASSUME Init PROVE Kept
  OBVIOUS
<1> DEFINE s == scenario.first
           e == [status |-> "running", text |-> 0]
<1>1. e # None /\ e.text = 0 /\ s \in Hosts /\ newest = 0
  <2>1. e \in Entries
    BY MoveAssumption DEF Entries
  <2>2. s \in Hosts
    <3>1. scenario \in Scenario /\ s \in scenario.hosts
      BY MoveAssumption DEF Init
    <3>2. QED
      BY <3>1 DEF Scenario
  <2>3. QED
    BY <2>1, <2>2, NoneAssumption DEF Init
<1>2. \A h \in Hosts : own[h] = None /\ disk[h] = index[h] /\ index[h] = (IF h = s THEN e ELSE None)
  BY DEF Init
<1> HIDE DEF e
<1>3. /\ \A h \in Hosts : index[h] # None => h = s /\ index[h].text = 0
      /\ index[s] # None /\ index[s].text = 0
  BY <1>1, <1>2
<1>4. \A m \in Moves : mv[m] = Idle
  BY DEF Init
<1>5. \A m \in Moves : ~mv[m].copy /\ mv[m].inbound = "none"
  BY <1>4 DEF Idle
<1>6. /\ \A h \in Hosts : ~Importing(h)
      /\ \A h \in Hosts, m \in Moves : ~FencedBy(h, m) /\ ~Importer(m, h)
  BY <1>2, <1>5 DEF Importing, Importer, FencedBy
<1>7. \A h \in Hosts : KeptAt(h)
  BY <1>1, <1>2, <1>3, <1>6 DEF KeptAt, Listed, Claim
<1>8. Keeper(s)
  BY <1>1, <1>2, <1>3, <1>6 DEF Keeper, Listed
<1>9. QED
  BY <1>1, <1>7, <1>8 DEF Kept

LEMMA KeptStep ==
    ASSUME TypeInv, Safe, Kept, Plain, [Next]_vars
    PROVE  Kept'
<1>1. TypeInv'
  BY TypeStep
<1>2. CASE UNCHANGED vars
  <2>1. GoOn
    BY <1>2, AdvanceGoesOn DEF vars, moving
  <2>2. \A h \in Hosts : Rests(h)
    BY <1>2 DEF vars, moving, Rests, Listed, Importing
  <2>3. QED
    BY <1>2, <2>1, <2>2, HostsRest DEF vars, moving
<1>3. CASE Next
  <2>1. UNCHANGED scenario
    BY <1>3, Steps
  <2>2. ASSUME NEW m \in Moves, Passes(m) PROVE Kept'
    <3>1. CASE \E s, t \in Hosts : FenceFails(m, s, t) \/ \E c, heard \in BOOLEAN : Fence(m, s, t, c, heard)
      BY <1>1, <2>1, <3>1, KeptFence
    <3>2. CASE Undo(m) \/ Finish(m)
      BY <1>1, <2>1, <3>2, KeptEnds
    <3>3. CASE \E heard \in BOOLEAN : CloseRetired(m, heard)
      BY <2>1, <3>3, KeptCloseRetired
    <3>4. CASE ~mv[m].copy /\ (StartImport(m) \/ LocalImport(m))
      <4>1. mv[m].to \in Hosts
        BY <3>4, CommitFields DEF StartImport, LocalImport
      <4>2. QED
        BY <1>1, <2>1, <3>4, <4>1, ImportArrives, KeptArrives
    <3>5. CASE ~mv[m].copy /\ \/ \E word \in {"ack", "error"} : ImportDone(m, word)
                              \/ \E clean \in BOOLEAN : ImportFails(m, clean)
      <4>1. ~ImportFails(m, FALSE)
        BY DEF ImportFails, Plain
      <4>2. mv[m].to \in Hosts
        BY <3>5, CommitFields DEF ImportDone, ImportFails
      <4>3. (\E word \in {"ack", "error"} : ImportDone(m, word)) \/ ImportFails(m, TRUE)
        BY <3>5, <4>1
      <4>4. Stops(m, mv[m].to)
        BY <3>5, <4>2, <4>3, ImportStops
      <4>5. QED
        BY <1>1, <2>1, <4>2, <4>4, KeptStops
    <3>6. QED
      BY <2>2, <3>1, <3>2, <3>3, <3>4, <3>5 DEF Passes
  <2>3. ASSUME NEW h \in Hosts, Use(h) \/ Crash(h) \/ Operate(h) PROVE Kept'
    <3>1. \A m \in Moves : ~Look(h, m)
      BY DEF Look, May, Plain
    <3>2. ~GiveBack(h) /\ ~Retire(h)
      BY DEF GiveBack, Retire, Safe, Structure, NothingIsSeen
    <3>3. QED
      BY <1>1, <2>1, <2>3, <3>1, <3>2, KeptUse, KeptCrash DEF Operate
  <2>4. QED
    BY <1>3, <2>1, <2>2, <2>3, Steps, KeptQuiet
<1>4. QED
  BY <1>2, <1>3

LEMMA KeptImplies ==
    ASSUME TypeInv, Safe, Kept
    PROVE  NothingIsLost
<1>1. NewestIsKept
  BY DEF NewestIsKept, Kept, Keeper, Listed
<1>2. WriterIsNewest
  BY WriterClaims DEF WriterIsNewest, Kept, KeptAt
<1>3. MovedIsSaved
  <2> SUFFICES ASSUME NEW m \in Moves, mv[m].told \in {"moved", "retire"}, ~mv[m].copy,
                      own[mv[m].to] # None, own[mv[m].to].move = m
               PROVE  disk[mv[m].to] # None /\ disk[mv[m].to].text >= mv[m].bundle.text
    BY DEF MovedIsSaved
  <2> PICK h : h = mv[m].to
    OBVIOUS
  <2>1. mv[m] \in Transfers /\ InOrder(mv[m]) /\ mv[m].cli = "done"
    BY MoveFields DEF InOrder
  <2>2. h \in Hosts /\ mv[m].from # h
    BY <2>1 DEF InOrder
  <2>3. own[h].state = "owned"
    <3>1. own[h].state \in {"owned", "fenced", "moved"}
      BY <2>2 DEF TypeInv, TypeOK, Records
    <3>2. QED
      BY <2>2, <3>1 DEF Safe, Structure, FencesAreKnown
  <2>4. Listed(h) /\ index[h].text >= mv[m].bundle.text
    BY <2>2, <2>3 DEF Kept, KeptAt, Delivered
  <2>5. disk[h] # None /\ disk[h].text = index[h].text
    BY <2>2, <2>4 DEF Safe, Structure, HostsInOrder, Kept, KeptAt
  <2>6. QED
    BY <2>4, <2>5
<1>4. QED
  BY <1>1, <1>2, <1>3 DEF NothingIsLost

\* Whatever breaks on the way of a hand-over, the newest transcript is at a host that can still
\* hand it on, and what was delivered is saved. Where no daemon dies (WriterIsNewest claims
\* nothing where one may), whoever goes on with the session goes on from the newest one.
THEOREM NothingGetsLost == Spec => [](Plain => NothingIsLost)
<1>1. Init => TypeInv /\ (Plain => Safe /\ Kept)
  BY InitType, SafeInit, KeptInit
<1>2. TypeInv /\ (Plain => Safe /\ Kept) /\ [Next]_vars => (TypeInv /\ (Plain => Safe /\ Kept))'
  <2> SUFFICES ASSUME TypeInv, Plain => Safe /\ Kept, [Next]_vars
               PROVE  (TypeInv /\ (Plain => Safe /\ Kept))'
    OBVIOUS
  <2>1. TypeInv'
    BY TypeStep
  <2>2. Plain' <=> Plain
    BY DEF Plain, Next, vars
  <2>3. QED
    BY <2>1, <2>2, SafeStep, KeptStep
<1>3. TypeInv /\ (Plain => Safe /\ Kept) => (Plain => NothingIsLost)
  BY KeptImplies
<1>4. QED
  BY <1>1, <1>2, <1>3, PTL DEF Spec

-----------------------------------------------------------------------------
(* A failure that was answered with "unchanged" is final *)

\* The host owns the session since the move brought it.
OwnedBy(h, m) == own[h] # None /\ own[h].state = "owned" /\ own[h].move = m

\* The process gives the session back or is gone, and nothing of the move is on its way.
Closed(n) == n.cli \in {"undo", "done", "dead"} /\ n.inbound = "none" /\ n.wire = "quiet"

\* A move that made a host the owner went there; on the user's machine its process knows.
OwnersAreKnown ==
  \A h \in Hosts, m \in Moves : OwnedBy(h, m) =>
    /\ mv[m].cli # "idle" /\ mv[m].to = h /\ ~mv[m].copy
    /\ h \in Daemons \/ mv[m].inbound = "acked" \/ mv[m].cli = "dead"

\* A move that was aborted is closed, did not bring the session, and has ended only when the
\* source is free.
AbortsAreFinal ==
  \A m \in Moves : mv[m].told = "unchanged" =>
    /\ Closed(mv[m]) /\ ~OwnedBy(mv[m].to, m)
    /\ mv[m].cli = "done" => ~FencedBy(mv[m].from, m)

Final == OwnersAreKnown /\ AbortsAreFinal

\* The move says "unchanged" in a step only when it has been closed, and ends with it only when
\* the source is free.
KeepsWord(k) ==
  LET n == mv[k]  r == mv'[k] IN
  /\ n.cli = "idle" \/ (r.from = n.from /\ r.to = n.to /\ r.copy = n.copy)
  /\ r.cli = "idle" => n.cli = "idle"
  /\ n.inbound = "acked" => r.inbound = "acked" \/ r.cli = "dead" \/ n.to \in Daemons
  /\ n.cli = "dead" => r.cli = "dead"
  /\ r.told = "unchanged" =>
       /\ Closed(r) /\ n.cli # "idle"
       /\ n.told = "unchanged" \/ ~OwnedBy(n.to, k)
       /\ r.cli = "done" => (n.told = "unchanged" /\ n.cli = "done") \/ ~FencedBy(mv[k].from, k)'

\* Who becomes an owner does so by a move that is not closed, and no closed move fences.
KeepsRecords ==
  \A h \in Hosts, k \in Moves :
    /\ OwnedBy(h, k)' =>
         \/ OwnedBy(h, k)
         \/ /\ mv'[k].told # "unchanged" /\ mv'[k].to = h /\ ~mv'[k].copy /\ mv'[k].cli # "idle"
            /\ h \in Daemons \/ mv'[k].inbound = "acked"
    /\ mv[k].told = "unchanged" /\ FencedBy(h, k)' => FencedBy(h, k)

LEMMA FinalStays ==
    ASSUME TypeInv, TypeInv', Final, \A k \in Moves : KeepsWord(k), KeepsRecords
    PROVE  Final'
<1>1. ASSUME NEW h \in Hosts, NEW k \in Moves, OwnedBy(h, k)'
      PROVE  /\ mv'[k].cli # "idle" /\ mv'[k].to = h /\ ~mv'[k].copy
             /\ h \in Daemons \/ mv'[k].inbound = "acked" \/ mv'[k].cli = "dead"
             /\ mv'[k].told # "unchanged"
  <2>1. CASE ~OwnedBy(h, k)
    BY <1>1, <2>1 DEF KeepsRecords
  <2>2. CASE OwnedBy(h, k)
    <3>1. /\ mv[k].cli # "idle" /\ mv[k].to = h /\ ~mv[k].copy
          /\ h \in Daemons \/ mv[k].inbound = "acked" \/ mv[k].cli = "dead"
      BY <2>2 DEF Final, OwnersAreKnown
    <3>2. mv[k].told # "unchanged"
      BY <2>2, <3>1 DEF Final, AbortsAreFinal
    <3>3. QED
      BY <2>2, <3>1, <3>2 DEF KeepsWord
  <2>3. QED
    BY <2>1, <2>2
<1>2. OwnersAreKnown'
  BY <1>1 DEF OwnersAreKnown
<1>3. ASSUME NEW k \in Moves, mv'[k].told = "unchanged", mv'[k].cli = "done",
             NEW h \in Hosts, h = mv'[k].from
      PROVE  ~FencedBy(h, k)'
  <2>1. (mv[k].told = "unchanged" /\ mv[k].cli = "done") \/ ~FencedBy(mv[k].from, k)'
    BY <1>3 DEF KeepsWord
  <2>2. mv[k].from = h
    BY <1>3 DEF KeepsWord
  <2>3. mv[k].told = "unchanged" /\ mv[k].cli = "done" => ~FencedBy(h, k)
    BY <2>2 DEF Final, AbortsAreFinal
  <2>4. QED
    BY <1>3, <2>1, <2>2, <2>3 DEF KeepsRecords, FencedBy
<1>4. AbortsAreFinal'
  <2> SUFFICES ASSUME NEW k \in Moves, mv'[k].told = "unchanged"
               PROVE  /\ Closed(mv[k])' /\ ~OwnedBy(mv[k].to, k)'
                      /\ mv'[k].cli = "done" => ~FencedBy(mv[k].from, k)'
    BY DEF AbortsAreFinal
  <2>1. Closed(mv'[k])
    BY DEF KeepsWord
  <2>2. mv'[k].to \in Hosts /\ mv'[k].from \in Hosts
    BY <2>1 DEF Closed, TypeInv, MovesInOrder, InOrder
  <2>3. PICK f \in Hosts, t \in Hosts : f = mv'[k].from /\ t = mv'[k].to
    BY <2>2
  <2>4. ~OwnedBy(t, k)' /\ (mv'[k].cli = "done" => ~FencedBy(f, k)')
    BY <1>1, <1>3, <2>3
  <2>5. QED
    BY <2>1, <2>3, <2>4 DEF OwnedBy, FencedBy, Closed
<1>5. QED
  BY <1>2, <1>4 DEF Final

\* What a move says does not change, unless it has got farther.
Speaks(n, r) ==
  /\ r.from = n.from /\ r.to = n.to /\ r.copy = n.copy
  /\ n.cli # "idle" /\ r.cli # "idle"
  /\ n.inbound = "acked" => r.inbound = "acked" \/ r.cli = "dead" \/ n.to \in Daemons
  /\ n.cli = "dead" => r.cli = "dead"
  /\ r.told = "unchanged" =>
       /\ n.told = "unchanged"
       /\ Closed(n) => Closed(r)
       /\ r.cli = "done" => n.cli = "done"

LEMMA SpeaksKeeps ==
    ASSUME Final, NEW k \in Moves, Speaks(mv[k], mv'[k]) \/ mv'[k] = mv[k]
    PROVE  KeepsWord(k)
<1>1. mv[k].told = "unchanged" => Closed(mv[k]) /\ mv[k].cli # "idle"
  BY DEF Final, AbortsAreFinal, Closed
<1>2. QED
  BY <1>1 DEF Speaks, KeepsWord

LEMMA StepFields ==
    ASSUME TypeInv, NEW m \in Moves, NEW r, Step(m, r)
    PROVE  mv'[m] = r /\ \A k \in Moves \ {m} : mv'[k] = mv[k]
  BY DEF Step, TypeInv, TypeOK

LEMMA ProcessSpeaks ==
    ASSUME TypeInv, Final, NEW m \in Moves,
           \/ Export(m) \/ Begin(m) \/ SendCommit(m) \/ Break(m) \/ HearAck(m) \/ AbortFails(m) \/ Retry(m)
           \/ Finish(m) \/ \E heard \in BOOLEAN : CloseRetired(m, heard)
    PROVE  Speaks(mv[m], mv'[m]) /\ \A k \in Moves \ {m} : mv'[k] = mv[k]
<1>1. mv[m] \in Transfers /\ InOrder(mv[m])
  BY MoveFields
<1>2. mv[m].told = "unchanged" => mv[m].cli \in {"undo", "done", "dead"}
  BY DEF Final, AbortsAreFinal, Closed
<1>3. \A k \in Moves \ {m} : mv'[k] = mv[k]
  BY StepFields DEF Export, Begin, SendCommit, Break, HearAck, AbortFails, Retry, Finish, CloseRetired, Tell
<1>4. CASE Export(m)
  BY <1>1, <1>2, <1>4 DEF Export, Step, Speaks, Transfers, TypeInv, TypeOK
<1>5. CASE Begin(m)
  BY <1>1, <1>2, <1>5 DEF Begin, InOrder, Step, Speaks, Transfers, TypeInv, TypeOK
<1>6. CASE SendCommit(m)
  BY <1>1, <1>2, <1>6 DEF SendCommit, Step, Speaks, Transfers, TypeInv, TypeOK
<1>7. CASE Break(m)
  <2>1. mv[m].cli \in {"fenced", "bundled", "begun", "committing"}
    BY <1>1, <1>7 DEF Break, Throws, Transfers, Stages
  <2>2. QED
    BY <1>1, <1>2, <1>7, <2>1 DEF Break, Step, Speaks, Transfers, TypeInv, TypeOK
<1>8. CASE HearAck(m)
  BY <1>1, <1>2, <1>8 DEF HearAck, Step, Speaks, Transfers, TypeInv, TypeOK
<1>9. CASE AbortFails(m)
  BY <1>1, <1>2, <1>9 DEF AbortFails, Unknown, Step, Speaks, Transfers, TypeInv, TypeOK
<1>10. CASE Retry(m)
  BY <1>1, <1>2, <1>10 DEF Retry, Step, Speaks, Transfers, TypeInv, TypeOK
<1>11. CASE mv[m].cli \in {"finish", "closing"} /\ (Tell(m, "moved") \/ Tell(m, "retire"))
  <2>1. CASE Tell(m, "moved")
    BY <1>1, <1>2, <1>11, <2>1 DEF Tell, Step, Speaks, Transfers, TypeInv, TypeOK
  <2>2. CASE Tell(m, "retire")
    BY <1>1, <1>2, <1>11, <2>2 DEF Tell, Step, Speaks, Transfers, TypeInv, TypeOK
  <2>3. QED
    BY <1>3, <1>11, <2>1, <2>2
<1>12. CASE Finish(m)
  <2>1. CASE Step(m, [mv[m] EXCEPT !.cli = "closing"])
    BY <1>1, <1>2, <1>3, <1>12, <2>1 DEF Finish, Step, Speaks, Transfers, TypeInv, TypeOK
  <2>2. QED
    BY <1>11, <1>12, <2>1 DEF Finish
<1>13. CASE \E heard \in BOOLEAN : CloseRetired(m, heard)
  BY <1>11, <1>13 DEF CloseRetired
<1>14. QED
  BY <1>3, <1>4, <1>5, <1>6, <1>7, <1>8, <1>9, <1>10, <1>12, <1>13

LEMMA DisturbSpeaks ==
    ASSUME TypeInv, Final, NEW m \in Moves, Disturb(m)
    PROVE  Speaks(mv[m], mv'[m]) /\ \A k \in Moves \ {m} : mv'[k] = mv[k]
<1>1. mv[m] \in Transfers
  BY MoveFields
<1>2. mv[m].told = "unchanged" => Closed(mv[m])
  BY DEF Final, AbortsAreFinal
<1>3. \A k \in Moves \ {m} : mv'[k] = mv[k]
  BY StepFields DEF Disturb, LoseSource, LoseTarget, Die
<1>4. CASE LoseSource(m)
  BY <1>1, <1>2, <1>4 DEF LoseSource, Closed, Step, Speaks, Transfers, TypeInv, TypeOK
<1>5. ASSUME NEW arrives \in BOOLEAN, LoseTarget(m, arrives) PROVE Speaks(mv[m], mv'[m])
  BY <1>1, <1>2, <1>5 DEF LoseTarget, Closed, Step, Speaks, Transfers, TypeInv, TypeOK
<1>6. ASSUME NEW arrives \in BOOLEAN, Die(m, arrives) PROVE Speaks(mv[m], mv'[m])
  <2> DEFINE w == IF arrives THEN "commit" ELSE "quiet"
             i == IF mv[m].to \in Daemons THEN mv[m].inbound ELSE "none"
  <2>1. /\ mv[m].cli \notin {"idle", "dead"}
        /\ mv[m].wire = "quiet" => w = "quiet"
        /\ mv[m].inbound = "none" => i = "none"
        /\ mv'[m] = [mv[m] EXCEPT !.cli = "dead", !.source = FALSE, !.target = FALSE, !.wire = w, !.inbound = i]
    BY <1>6, StepFields DEF Die
  <2> HIDE DEF w, i
  <2>2. QED
    BY <1>1, <1>2, <2>1 DEF Closed, Speaks, Transfers
<1>7. QED
  BY <1>3, <1>4, <1>5, <1>6 DEF Disturb

LEMMA ImportSpeaks ==
    ASSUME TypeInv, Final, NEW m \in Moves, Import(m)
    PROVE  Speaks(mv[m], mv'[m]) /\ mv[m].told # "unchanged" /\ \A k \in Moves \ {m} : mv'[k] = mv[k]
<1>1. mv[m] \in Transfers /\ InOrder(mv[m])
  BY MoveFields
<1>2. mv[m].wire = "commit" \/ mv[m].inbound = "importing"
  BY DEF Import, StartImport, LocalImport, CanStartImport, RefuseCommit, ImportDone, ImportFails
<1>3. mv[m].told # "unchanged" /\ mv[m].cli # "idle"
  BY <1>1, <1>2 DEF Final, AbortsAreFinal, Closed, InOrder
<1>4. \A k \in Moves \ {m} : mv'[k] = mv[k]
  BY StepFields DEF Import, StartImport, LocalImport, RefuseCommit, ImportDone, ImportFails
<1>5. CASE StartImport(m)
  BY <1>1, <1>3, <1>5 DEF StartImport, CanStartImport, Step, Speaks, Transfers, TypeInv, TypeOK
<1>6. CASE LocalImport(m)
  BY <1>1, <1>3, <1>6 DEF LocalImport, Step, Speaks, Transfers, TypeInv, TypeOK
<1>7. CASE RefuseCommit(m)
  BY <1>1, <1>3, <1>7 DEF RefuseCommit, Step, Speaks, Transfers, TypeInv, TypeOK
<1>8. CASE \E word \in {"ack", "error"} : ImportDone(m, word)
  BY <1>1, <1>3, <1>8 DEF ImportDone, Step, Speaks, Transfers, TypeInv, TypeOK
<1>9. CASE \E clean \in BOOLEAN : ImportFails(m, clean)
  BY <1>1, <1>3, <1>9 DEF ImportFails, Step, Speaks, Transfers, TypeInv, TypeOK
<1>10. QED
  BY <1>3, <1>4, <1>5, <1>6, <1>7, <1>8, <1>9 DEF Import

LEMMA AbortKeepsWord ==
    ASSUME TypeInv, Final, NEW m \in Moves, NEW heard \in BOOLEAN, Abort(m, heard)
    PROVE  \A k \in Moves : KeepsWord(k)
<1>1. mv[m] \in Transfers /\ InOrder(mv[m]) /\ mv[m].cli = "catch" /\ mv[m].told # "unchanged"
  BY MoveFields DEF Abort, Final, AbortsAreFinal, Closed
<1>2. \A k \in Moves \ {m} : mv'[k] = mv[k]
  BY StepFields DEF Abort
<1>3. CASE ~Committed(m) /\ heard
  <2>1. mv'[m] = [mv[m] EXCEPT !.aborted = TRUE, !.inbound = "none", !.wire = "quiet", !.cli = "undo", !.told = "unchanged"]
    BY <1>1, <1>3, StepFields DEF Abort, Aborted, Transfers
  <2>2. ~OwnedBy(mv[m].to, m) /\ mv[m].inbound # "acked"
    BY <1>1, <1>3 DEF Committed, OwnedBy, Final, OwnersAreKnown, InOrder
  <2>3. KeepsWord(m)
    BY <1>1, <2>1, <2>2 DEF KeepsWord, Closed, Transfers
  <2>4. QED
    BY <1>2, <2>3, SpeaksKeeps
<1>4. CASE Committed(m) /\ heard
  <2>1. mv'[m] = [mv[m] EXCEPT !.cli = "retry", !.wire = "quiet"]
    BY <1>4, StepFields DEF Abort
  <2>2. Speaks(mv[m], mv'[m])
    BY <1>1, <2>1 DEF Speaks, Transfers
  <2>3. QED
    BY <1>2, <2>2, SpeaksKeeps
<1>5. CASE ~heard
  <2> DEFINE n == IF Committed(m) THEN mv[m] ELSE Aborted(m)
  <2>1. mv'[m] = Unknown(n)
    BY <1>5, StepFields DEF Abort
  <2>2. /\ n \in Transfers /\ n.from = mv[m].from /\ n.to = mv[m].to /\ n.copy = mv[m].copy
        /\ mv[m].inbound = "acked" => n.inbound = "acked"
    <3>1. CASE Committed(m)
      BY <1>1, <3>1
    <3>2. CASE ~Committed(m)
      <4>1. n = [mv[m] EXCEPT !.aborted = TRUE, !.inbound = "none", !.wire = "quiet"] /\ mv[m].inbound # "acked"
        BY <3>2 DEF Aborted, Committed
      <4>2. "none" \in Receptions
        BY DEF Receptions
      <4> HIDE DEF n
      <4>3. QED
        BY <1>1, <4>1, <4>2 DEF Transfers
    <3>3. QED
      BY <3>1, <3>2
  <2> HIDE DEF n
  <2>3. Speaks(mv[m], mv'[m])
    BY <1>1, <2>1, <2>2 DEF Unknown, Speaks, Transfers
  <2>4. QED
    BY <1>2, <2>3, SpeaksKeeps
<1>6. QED
  BY <1>3, <1>4, <1>5

\* The source is given back before the move says that it is unchanged.
LEMMA UndoKeepsWord ==
    ASSUME TypeInv, Final, NEW m \in Moves, Undo(m)
    PROVE  (\A k \in Moves : KeepsWord(k)) /\ KeepsRecords
<1>1. mv[m] \in Transfers /\ InOrder(mv[m]) /\ mv[m].cli \in {"undo", "finish"}
  BY MoveFields DEF Undo
<1>2. mv[m].told = "unchanged" => Closed(mv[m]) /\ mv[m].cli = "undo"
  BY <1>1 DEF Final, AbortsAreFinal, Closed
<1>3. \A k \in Moves \ {m} : mv'[k] = mv[k]
  BY StepFields DEF Undo, Tell
<1>4. mv[m].from \in Hosts
  BY <1>1 DEF InOrder
<1>5. CASE mv[m].source /\ FencedBy(mv[m].from, m)
  <2> DEFINE w == IF mv[m].cli = "finish" THEN "copied" ELSE mv[m].told
             f == mv[m].from
             rec == [own[f] EXCEPT !.state = "owned", !.move = None]
  <2>1. mv'[m] = [mv[m] EXCEPT !.cli = "done", !.told = w] /\ own' = [own EXCEPT ![f] = rec]
    BY <1>5, StepFields DEF Undo, Unfence
  <2>2. own[f] \in Records /\ rec.state = "owned" /\ rec.move = None /\ None \notin Moves
    BY <1>4, <1>5, MoveAssumption DEF FencedBy, TypeInv, TypeOK, Records
  <2>3. mv'[m].from = f /\ mv'[m].to = mv[m].to /\ mv'[m].copy = mv[m].copy /\ mv'[m].cli = "done"
        /\ mv'[m].inbound = mv[m].inbound /\ mv'[m].wire = mv[m].wire /\ mv'[m].told = w
    BY <1>1, <2>1 DEF Transfers
  <2> HIDE DEF rec
  <2>4. own'[f] = rec /\ \A h \in Hosts \ {f} : own'[h] = own[h]
    BY <1>4, <2>1 DEF TypeInv, TypeOK
  <2>5. ~FencedBy(mv[m].from, m)'
    BY <2>2, <2>3, <2>4 DEF FencedBy
  <2>6. KeepsWord(m)
    BY <1>1, <1>2, <2>3, <2>5 DEF KeepsWord, Closed
  <2>7. KeepsRecords
    BY <2>2, <2>4 DEF KeepsRecords, OwnedBy, FencedBy
  <2>8. QED
    BY <1>3, <2>6, <2>7, SpeaksKeeps
<1>6. CASE ~(mv[m].source /\ FencedBy(mv[m].from, m))
  <2>1. mv'[m] = [mv[m] EXCEPT !.cli = "done", !.told = "stuck"] /\ UNCHANGED own
    BY <1>6, StepFields DEF Undo, Tell
  <2>2. Speaks(mv[m], mv'[m])
    BY <1>1, <2>1 DEF Speaks, Transfers
  <2>3. KeepsRecords
    BY <2>1 DEF KeepsRecords, OwnedBy, FencedBy
  <2>4. QED
    BY <1>3, <2>2, <2>3, SpeaksKeeps
<1>7. QED
  BY <1>5, <1>6

LEMMA FenceKeepsWord ==
    ASSUME TypeInv, Safe, Final, NEW m \in Moves, NEW s \in Hosts, NEW t \in Hosts,
           \/ FenceFails(m, s, t)
           \/ \E c, heard \in BOOLEAN : Fence(m, s, t, c, heard)
    PROVE  (\A k \in Moves : KeepsWord(k)) /\ KeepsRecords
<1>1. PICK rec : Begins(m, s, rec)
  BY FenceBegins
<1>2. mv[m] \in Transfers /\ mv[m].told = "nothing" /\ mv[m].inbound = "none" /\ mv[m].cli = "idle"
  <2>1. mv[m] = Idle /\ mv[m] \in Transfers
    BY <1>1, MoveFields DEF Begins, InOrder
  <2>2. QED
    BY <2>1 DEF Idle
<1>3. mv'[m].told # "unchanged"
  <2>1. CASE FenceFails(m, s, t)
    BY <1>2, <2>1 DEF FenceFails, Step, Transfers, TypeInv, TypeOK
  <2>2. CASE \E c, heard \in BOOLEAN : Fence(m, s, t, c, heard)
    <3>1. PICK c \in BOOLEAN, heard \in BOOLEAN : Fence(m, s, t, c, heard)
      BY <2>2
    <3> DEFINE w == IF heard THEN "nothing" ELSE "failed"
               g == IF heard THEN "fenced" ELSE "done"
    <3>2. mv'[m] = [mv[m] EXCEPT !.from = s, !.to = t, !.copy = c, !.source = heard, !.cli = g, !.told = w]
      BY <3>1, StepFields DEF Fence
    <3>3. w # "unchanged"
      OBVIOUS
    <3> HIDE DEF w, g
    <3>4. QED
      BY <1>2, <3>2, <3>3 DEF Transfers
  <2>3. QED
    BY <2>1, <2>2
<1>4. KeepsWord(m)
  BY <1>1, <1>2, <1>3 DEF Begins, KeepsWord
<1>5. KeepsRecords
  <2>1. own'[s] = rec /\ \A h \in Hosts \ {s} : own'[h] = own[h]
    BY <1>1 DEF Begins, TypeInv, TypeOK
  <2>2. mv[m].told # "unchanged" /\ None \notin Moves
    BY <1>2, MoveAssumption
  <2>3. QED
    BY <1>1, <2>1, <2>2 DEF Begins, KeepsRecords, OwnedBy, FencedBy
<1>6. QED
  BY <1>1, <1>4, <1>5, SpeaksKeeps DEF Begins

LEMMA RestartKeepsWord ==
    ASSUME TypeInv, Final, NEW h \in Daemons, mv' = [m \in Moves |-> Restarted(h, m)], UNCHANGED own
    PROVE  (\A k \in Moves : KeepsWord(k)) /\ KeepsRecords
<1>1. ASSUME NEW k \in Moves PROVE KeepsWord(k)
  <2>1. mv[k] \in Transfers /\ InOrder(mv[k]) /\ mv'[k] = Restarted(h, k) /\ h \in Hosts
    BY MoveFields DEF Hosts
  <2>2. mv[k].told = "unchanged" => Closed(mv[k])
    BY DEF Final, AbortsAreFinal
  <2>3. CASE ~(mv[k].from = h \/ mv[k].to = h)
    BY <2>1, <2>3, SpeaksKeeps DEF Restarted
  <2>4. CASE mv[k].from = h \/ mv[k].to = h
    <3> DEFINE i == IF mv[k].to = h THEN "none" ELSE mv[k].inbound
               w == IF mv[k].to = h THEN "quiet" ELSE mv[k].wire
               c == IF mv[k].from = h /\ mv[k].cli = "closing" THEN "done" ELSE mv[k].cli
               o == IF mv[k].from = h /\ mv[k].cli = "closing" THEN "retire" ELSE mv[k].told
    <3>1. /\ mv'[k].from = mv[k].from /\ mv'[k].to = mv[k].to /\ mv'[k].copy = mv[k].copy
          /\ mv'[k].inbound = i /\ mv'[k].wire = w /\ mv'[k].cli = c /\ mv'[k].told = o
      BY <2>1, <2>4 DEF Restarted, Transfers
    <3>2. mv[k].cli # "idle"
      <4>1. mv[k] = Idle => mv[k].from = None /\ mv[k].to = None
        BY DEF Idle
      <4>2. QED
        BY <2>1, <2>4, <4>1, MoveAssumption DEF InOrder
    <3>3. Speaks(mv[k], mv'[k])
      BY <2>2, <2>4, <3>1, <3>2 DEF Speaks, Closed
    <3>4. QED
      BY <3>3, SpeaksKeeps
  <2>5. QED
    BY <2>3, <2>4
<1>2. KeepsRecords
  BY DEF KeepsRecords, OwnedBy, FencedBy
<1>3. QED
  BY <1>1, <1>2

LEMMA FinalStep ==
    ASSUME TypeInv, Safe, Final, Plain, [Next]_vars
    PROVE  Final'
<1>1. TypeInv'
  BY TypeStep
<1>2. UNCHANGED own => KeepsRecords
  BY DEF KeepsRecords, OwnedBy, FencedBy
<1>3. CASE UNCHANGED vars
  BY <1>1, <1>2, <1>3, SpeaksKeeps, FinalStays DEF vars, moving
<1>4. ASSUME NEW m \in Moves, Orchestrate(m) PROVE Final'
  <2>1. CASE Undo(m)
    BY <1>1, <2>1, UndoKeepsWord, FinalStays
  <2>2. CASE \E heard \in BOOLEAN : Abort(m, heard)
    BY <1>1, <1>2, <2>2, AbortKeepsWord, FinalStays DEF Abort
  <2>3. CASE ~Undo(m) /\ ~\E heard \in BOOLEAN : Abort(m, heard)
    <3>1. \A k \in Moves : KeepsWord(k)
      BY <1>4, <2>3, ProcessSpeaks, SpeaksKeeps DEF Orchestrate
    <3>2. KeepsRecords
      <4>1. CASE ~Finish(m)
        BY <1>2, <1>4, <2>3, <4>1 DEF Orchestrate, Export, Begin, SendCommit, Break, HearAck, AbortFails, Retry, CloseRetired
      <4>2. CASE Finish(m)
        <5>1. own' = own \/ own' = [own EXCEPT ![mv[m].from] = Tombstone(m)]
          BY <4>2 DEF Finish
        <5>2. mv[m].cli = "finish" /\ mv[m].from \in Hosts
          BY <4>2, MoveFields DEF Finish, InOrder
        <5>3. own' # own => Tombstone(m).state = "moved"
          BY <4>2, <5>2 DEF Finish, FencedBy, Tombstone, TypeInv, TypeOK, Records
        <5>4. QED
          BY <1>2, <5>1, <5>2, <5>3 DEF KeepsRecords, OwnedBy, FencedBy, TypeInv, TypeOK
      <4>3. QED
        BY <4>1, <4>2
    <3>3. QED
      BY <1>1, <3>1, <3>2, FinalStays
  <2>4. QED
    BY <2>1, <2>2, <2>3
<1>5. ASSUME NEW m \in Moves, Import(m) PROVE Final'
  <2>1. \A k \in Moves : KeepsWord(k)
    BY <1>5, ImportSpeaks, SpeaksKeeps
  <2>2. CASE UNCHANGED own
    BY <1>1, <1>2, <2>1, <2>2, FinalStays
  <2>3. CASE ~mv[m].copy /\ (StartImport(m) \/ LocalImport(m))
    <3>1. PICK t \in Hosts : t = mv[m].to
      BY <2>3, CommitFields DEF StartImport, LocalImport
    <3>2. Arrives(m, t) /\ mv[m].cli # "idle" /\ mv'[m].told # "unchanged"
      BY <1>5, <2>3, <3>1, ImportArrives, ImportSpeaks DEF Speaks
    <3>3. own'[t] = Acquired(m) /\ \A h \in Hosts \ {t} : own'[h] = own[h]
      BY <3>2 DEF Arrives, TypeInv, TypeOK
    <3>4. Acquired(m).state = "owned" /\ Acquired(m).move = m
      BY DEF Acquired
    <3>5. KeepsRecords
      BY <3>2, <3>3, <3>4 DEF Arrives, KeepsRecords, OwnedBy, FencedBy, Hosts
    <3>6. QED
      BY <1>1, <2>1, <3>5, FinalStays
  <2>4. CASE ~mv[m].copy /\ ImportFails(m, TRUE)
    <3>1. PICK t \in Hosts : t = mv[m].to
      BY <2>4, CommitFields DEF ImportFails
    <3>2. Importer(m, t)
      BY <2>4, <3>1 DEF ImportFails, Importer
    <3>3. mv[m].undo.own # None => mv[m].undo.own.state = "moved"
      BY <3>2 DEF Safe, Structure, ImportsAreAlone, Restorable
    <3>4. own'[t] = mv[m].undo.own /\ \A h \in Hosts \ {t} : own'[h] = own[h]
      BY <2>4, <3>1 DEF ImportFails, TypeInv, TypeOK
    <3>5. KeepsRecords
      BY <3>3, <3>4 DEF KeepsRecords, OwnedBy, FencedBy
    <3>6. QED
      BY <1>1, <2>1, <3>5, FinalStays
  <2>5. QED
    BY <1>5, <2>2, <2>3, <2>4 DEF Import, StartImport, LocalImport, RefuseCommit, ImportDone, ImportFails, Plain
<1>6. ASSUME NEW m \in Moves, Ask(m) PROVE Final'
  <2>1. scenario.hosts \subseteq Hosts
    BY MoveAssumption DEF TypeInv, TypeOK, Scenario
  <2>2. PICK s \in Hosts, t \in Hosts : FenceFails(m, s, t) \/ \E c, heard \in BOOLEAN : Fence(m, s, t, c, heard)
    BY <1>6, <2>1 DEF Ask
  <2>3. QED
    BY <1>1, <2>2, FenceKeepsWord, FinalStays
<1>7. ASSUME NEW m \in Moves, Disturb(m) PROVE Final'
  <2>1. UNCHANGED own
    BY <1>7 DEF Disturb, LoseSource, LoseTarget, Die
  <2>2. \A k \in Moves : KeepsWord(k)
    BY <1>7, DisturbSpeaks, SpeaksKeeps
  <2>3. QED
    BY <1>1, <1>2, <2>1, <2>2, FinalStays
<1>8. ASSUME NEW h \in Hosts, Use(h) PROVE Final'
  <2>1. UNCHANGED <<own, mv>>
    BY <1>8 DEF Use, Turn, Open, CloseSession, SaveIndex
  <2>2. QED
    BY <1>1, <1>2, <2>1, SpeaksKeeps, FinalStays
<1>9. ASSUME NEW h \in Hosts, Crash(h) PROVE Final'
  <2>1. Restarts(h) /\ h \in Daemons
    BY <1>9, CrashRestarts DEF Crash, Restart
  <2>2. QED
    BY <1>1, <2>1, RestartKeepsWord, FinalStays DEF Restarts
<1>10. ASSUME NEW h \in Hosts PROVE ~Operate(h)
  BY DEF Operate, Look, May, Plain, GiveBack, Retire, Safe, Structure, NothingIsSeen
<1>11. QED
  BY <1>3, <1>4, <1>5, <1>6, <1>7, <1>8, <1>9, <1>10 DEF Next

LEMMA FinalImplies ==
    ASSUME TypeInv, Safe, Final
    PROVE  UnchangedIsFinal
<1> SUFFICES ASSUME NEW m \in Moves, mv[m].told = "unchanged", mv[m].cli = "done"
             PROVE  ~FencedBy(mv[m].from, m) /\ (own[mv[m].to] = None \/ own[mv[m].to].move # m)
  BY DEF UnchangedIsFinal
<1>1. ~FencedBy(mv[m].from, m) /\ ~OwnedBy(mv[m].to, m)
  BY DEF Final, AbortsAreFinal
<1>2. mv[m].from # mv[m].to /\ mv[m].to \in Hosts
  BY MoveFields DEF InOrder
<1>3. own[mv[m].to] # None => own[mv[m].to].state \in {"owned", "fenced", "moved"}
  BY <1>2 DEF TypeInv, TypeOK, Records
<1>4. QED
  BY <1>1, <1>2, <1>3 DEF OwnedBy, Safe, Structure, FencesAreKnown

LEMMA FinalInit == Init => Final
<1> SUFFICES ASSUME Init PROVE Final
  OBVIOUS
<1>1. \A m \in Moves : mv[m].told = "nothing"
  BY DEF Init, Idle
<1>2. \A h \in Hosts : own[h] = None
  BY DEF Init
<1>3. QED
  BY <1>1, <1>2 DEF Final, OwnersAreKnown, AbortsAreFinal, OwnedBy

\* When a user was told that a move failed and the source is unchanged, the source is not left
\* fenced, and the target does not come to own the session by that move, however late the rest
\* of its messages arrive.
THEOREM UnchangedStaysFinal == Spec => [](Plain => UnchangedIsFinal)
<1>1. Init => TypeInv /\ (Plain => Safe /\ Final)
  BY InitType, SafeInit, FinalInit
<1>2. TypeInv /\ (Plain => Safe /\ Final) /\ [Next]_vars => (TypeInv /\ (Plain => Safe /\ Final))'
  <2> SUFFICES ASSUME TypeInv, Plain => Safe /\ Final, [Next]_vars
               PROVE  (TypeInv /\ (Plain => Safe /\ Final))'
    OBVIOUS
  <2>1. TypeInv'
    BY TypeStep
  <2>2. Plain' <=> Plain
    BY DEF Plain, Next, vars
  <2>3. QED
    BY <2>1, <2>2, SafeStep, FinalStep
<1>3. TypeInv /\ (Plain => Safe /\ Final) => (Plain => UnchangedIsFinal)
  BY FinalImplies
<1>4. QED
  BY <1>1, <1>2, <1>3, PTL DEF Spec
=============================================================================
