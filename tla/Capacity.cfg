SPECIFICATION CapacitySpec
CONSTANTS
    Call = {a, b, c}
    Caps = {1, 3}
    MaxJobs = 3
    NoCall = NoCall
SYMMETRY Symmetric
INVARIANTS CapacityTypeOK LedgerIsExact
PROPERTY PromisesAreKept
