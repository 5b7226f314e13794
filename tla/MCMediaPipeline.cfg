CONSTANTS
    a1 = a1
    a2 = a2
    v1 = v1
    AudioWorkers <- TwoNarrators
    VideoWorkers <- OneRenderer
    StaleAfter = 2
    Grace = 1
    MaxTime = 4
    MaxAttempts = 2
SPECIFICATION PipelineSpec
INVARIANT StoredHashIsOfArtifact
 
INVARIANT ReadyIsComplete
INVARIANT VideoNamesCanonicalAudio
PROPERTY ProductionIsFinal
PROPERTY NarrationKeepsLedger
CHECK_DEADLOCK FALSE
