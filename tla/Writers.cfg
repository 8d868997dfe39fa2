SPECIFICATION Spec
CONSTANTS
    Process = {p1, p2}
    Attempt = {first, second, third, fourth}
    First = first
    None = None
SYMMETRY Symmetry
INVARIANTS TypeOK FilesAreTrue
PROPERTY ImplementsOneWriter
CHECK_DEADLOCK FALSE
