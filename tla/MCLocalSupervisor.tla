------------------------- MODULE MCLocalSupervisor -------------------------
(* Small instances of LocalSupervisor: runners are interchangeable, and so *)
(* are observers.                                                          *)
EXTENDS LocalSupervisor, FiniteSets, TLC

Symmetric == Permutations(Runner) \cup Permutations(Observer)

SpawnedRunners == {r \in Runner : pc[r] # "off"}
CallingObservers == {b \in Observer : at[b] # "idle" \/ emptied[b]}
StoppingObservers == {b \in Observer : plan[b] # "inspect"}

\* Two slices of one instance: beside one observer, two runners of a process that
\* race or one watch that checks again; and beside one runner of a process, a stop
\* that races with an inspection.
OneSideRaces ==
    \/ /\ Cardinality(CallingObservers) <= 1
       /\ Cardinality(SpawnedRunners) <= 1 \/ launch # "watch"
    \/ /\ Cardinality(StoppingObservers) <= 1
       /\ Cardinality(SpawnedRunners) <= 1 /\ launch # "watch"
=============================================================================
