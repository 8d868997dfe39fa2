SPECIFICATION FairSpec
CONSTANTS
    Runner = {r1}
    Observer = {b1}
    MaxChecks = 2
    None = None

PROPERTIES StopEnds
