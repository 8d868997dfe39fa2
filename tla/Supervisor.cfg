SPECIFICATION Spec
CONSTANTS
    Runner = {r1, r2}
    Observer = {b1, b2}
    MaxChecks = 2
    None = None
SYMMETRY Symmetric
CONSTRAINT OneSideRaces
INVARIANTS TypeOK OneExecution ResultIsTrue LossIsNotReplaced
PROPERTIES EndedIsQuiet
