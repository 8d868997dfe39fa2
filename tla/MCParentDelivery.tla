--------------------------- MODULE MCParentDelivery ---------------------------
(* Small instances of the delivery to the parent for TLC. *)
EXTENDS ParentDelivery, TLC

CONSTANTS p1, p2, w1, w2

Quiet ==
    [processes |-> {p1}, opens |-> MaxOpen, waits |-> {}, views |-> Views,
     reuse |-> FALSE, refusals |-> FALSE, tools |-> TRUE]

\* One process through its openings, with reused instances, two waits and refusals.
Reloads == [Quiet EXCEPT !.waits = {w1, w2}, !.reuse = TRUE, !.refusals = TRUE]

\* Two processes in front of the owner, and a wait.
TwoHosts ==
    [Quiet EXCEPT !.processes = {p1, p2}, !.opens = 1, !.waits = {w1}, !.views = {"owner"},
                  !.tools = FALSE]

AllScenarios == {Quiet, [Quiet EXCEPT !.reuse = TRUE], Reloads, TwoHosts}
=============================================================================
