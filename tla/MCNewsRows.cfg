CONSTANTS
    a1 = a1
    m1 = m1
    r1 = r1
    r2 = r2
    p1 = p1
    p2 = p2
    AutoWriters <- OneWorker
    ManualWriters <- OneOperator
    RelevanceRuns <- TwoJudges
    PriorityRuns <- TwoRaters
    Nobody = Nobody
    Undated = Undated
    Scores = {39, 40, 69, 70}
SPECIFICATION RowsSpec
INVARIANT JobFollowsMetadata PriorityMatchesRelevance
CHECK_DEADLOCK FALSE
