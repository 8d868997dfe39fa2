SPECIFICATION FairSpec
CONSTANTS
    h1 = h1
    h2 = h2
    Host = {h1, h2}
    Original = original
    Resumed = {r1, r2}
    Scenarios <- AllScenarios
    None = None
CHECK_DEADLOCK FALSE
INVARIANTS TypeOK ConversationIsSafe
PROPERTIES EndIsFinal ParkIsResolved
