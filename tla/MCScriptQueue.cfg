CONSTANTS
    Undated = Undated
    Ids = {1, 2, 3, 4}
    Relevance <- Scores
    Priority <- Priorities
    Published <- Dates
    Dispatchers = {d1}
    MinScore = 70
    Limit = 2
    BucketWidth = 3600
    TickWidth = 3600
    MaxTime = 7200
SPECIFICATION Spec
INVARIANTS RowsReachedTheBar BestAreChosen RetriesKeepTheScore
