SPECIFICATION FairSpec
CONSTANTS
    e = e
    f = f
    g = g
    h = h
    Goal = {g, h}
    Evidence = {e, f}
    MaxRetries = 0
    MaxTasks = 2
    MaxFollowUps = 1
    MaxSends = 2
    Scenarios <- AllScenarios
    None = None
INVARIANT TypeOK
PROPERTIES WakesAreWanted RetriesEnd GoalIsContinued
