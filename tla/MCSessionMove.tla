---- MODULE MCSessionMove ----
(***************************************************************************)
(* Small instances of SessionMove for TLC.                                 *)
(***************************************************************************)
EXTENDS SessionMove, TLC

CONSTANTS d1, d2, home

\* Two moves between daemons: connections break, requests come late, steps fail, processes
\* and daemons die.
Broken == [hosts |-> {d1, d2}, first |-> d1, moves |-> 2, turns |-> 1,
           faults |-> {"lose", "late", "fail", "die", "crash"}, recover |-> "never"]

\* The same from the user's machine.
Detached == [Broken EXCEPT !.hosts = {home, d1}, !.first = home]

\* Moves, copies and returns between the user's machine and a daemon, whose steps may fail.
Returns == [Detached EXCEPT !.moves = 3, !.faults = {"fail"}]

\* The same with a second daemon, and no failure.
Travels == [Returns EXCEPT !.hosts = {home, d1, d2}, !.faults = {}]

\* One move, whose roll-back may fail half-way.
RolledBack == [Broken EXCEPT !.moves = 1, !.turns = 2, !.faults = @ \cup {"dirty"}]

\* One detach, and the recovery that its message names.
Recovered == [Detached EXCEPT !.moves = 1, !.turns = 2, !.recover = "told",
                              !.faults = {"lose", "fail", "die", "crash"}]

AllScenarios == {Broken, Detached, Returns, Travels, RolledBack, Recovered}
====
