SPECIFICATION FairSpec
CONSTANTS
    d1 = d1
    d2 = d2
    home = home
    Daemons = {d1, d2}
    Home = home
    MaxMoves = 3
    MaxTurns = 2
    Scenarios <- AllScenarios
    None = None
INVARIANTS TypeOK HandOverIsSafe NothingIsLost
PROPERTY AnswersAreTrue
CHECK_DEADLOCK FALSE
