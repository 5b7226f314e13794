CONSTANTS
    MaxRetries = 1
    Buckets <- MCBuckets
    Scores <- MCScores
    MaxDeaths = 2
SPECIFICATION ChainSpec
PROPERTY NewsGetsAnalyzed AbandonedScriptsEnd ScriptsGetWritten
CHECK_DEADLOCK FALSE
