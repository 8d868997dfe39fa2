SPECIFICATION FairSpec
CONSTANTS
    p1 = p1
    p2 = p2
    w1 = w1
    w2 = w2
    Process = {p1, p2}
    Wait = {w1, w2}
    MaxOpen = 3
    Scenarios <- AllScenarios
    Callback = Callback
    None = None
INVARIANTS TypeOK MessagesAreTrue NoStrandedClaim
PROPERTIES OwnerIsTold
CHECK_DEADLOCK FALSE
