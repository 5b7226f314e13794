CONSTANTS
    Schedulers = {s1, s2}
    NumKinds = 2
    Interval <- SameIntervals
    Wait = 2
    LockTimeout = 1
    ResultTTL = 3
    MaxRun = 1
    MaxTime = 7
    MaxFailures = 1
SYMMETRY Symmetry
SPECIFICATION Spec
INVARIANTS EachSlotOnce OverlapOnlyAfterExpiry
INVARIANTS NoTwoBucketsSkipped
CHECK_DEADLOCK FALSE
