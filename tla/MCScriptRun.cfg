CONSTANTS
    w1 = w1
    w2 = w2
    Workers <- MCWorkers
    Scores <- MCScores
    StaleAfter = 2
    Grace = 1
    MaxTime = 4
    MaxAttempts = 2
    Published = 0
    Day = 2
    Lookback = 3
    NewsLimit = 2
    MonthOf <- MCMonthOf
    News <- MCNews
    Games <- MCGames
    ContextAnswers <- MCContextAnswers
    PlayerAnswers <- MCPlayerAnswers
    Outages <- MCOutages
SPECIFICATION RunSpec
SYMMETRY Symmetry
INVARIANT RowStaysLoadable LiveRunOwnsAttempt NothingFromTheFuture
PROPERTY RankingScoreIsFixed  NoOutingMissed KeepsLedger
CHECK_DEADLOCK FALSE
