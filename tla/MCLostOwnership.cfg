CONSTANTS
    a1 = a1
    a2 = a2
    v1 = v1
    AudioWorkers <- TwoNarrators
    VideoWorkers <- NoRenderer
    StaleAfter = 2
    Grace = 1
    MaxTime = 3
    MaxAttempts = 3
SPECIFICATION PipelineSpec
PROPERTY OnlyOwnerPersists
CHECK_DEADLOCK FALSE
