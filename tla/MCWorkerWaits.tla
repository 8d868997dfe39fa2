------------------------------ MODULE MCWorkerWaits ------------------------------
(* One assignment, parked once. *)
EXTENDS WorkerWaits, TLC

CONSTANTS h1, h2

Alone ==
    [first |-> h1, sessions |-> {h1}, crashes |-> FALSE, closes |-> FALSE,
     stops |-> TRUE, unserved |-> FALSE]

\* Two sessions: they die and are closed; they die and the user stops runs; they die and
\* the user stops a run before the store is reachable.
Together == [Alone EXCEPT !.sessions = {h1, h2}, !.crashes = TRUE]

AllScenarios ==
    {Alone,
     Together,
     [Together EXCEPT !.stops = FALSE, !.closes = TRUE],
     [Together EXCEPT !.stops = FALSE, !.unserved = TRUE]}
================================================================================
