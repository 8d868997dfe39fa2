SPECIFICATION Spec
CONSTANTS
    Runner = {r1}
    Observer = {b1}
    MaxChecks = 1
    None = None
SYMMETRY Symmetric
INVARIANTS LostIsFinal
