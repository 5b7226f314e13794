CONSTANTS
    Productions = {1, 2}
    Limit = 1
    MaxRetries = 1
    MaxFailures = 2
SPECIFICATION FairQueueSpec
INVARIANTS OneNarrator NoJobAhead
PROPERTIES ScriptsAreNarrated
CHECK_DEADLOCK FALSE
