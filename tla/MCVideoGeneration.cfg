CONSTANTS
    w1 = w1
    w2 = w2
    VideoWorkers <- MCWorkers
    StaleAfter = 2
    Grace = 1
    MaxTime = 4
    MaxAttempts = 3
SPECIFICATION Spec
SYMMETRY Symmetry
INVARIANT RowsStayLoadable
INVARIANT ReadyIffGenerated
INVARIANT RunsHoldTheirAttempts
PROPERTY ReadyIsFinal
PROPERTY ImplementsLedger
CHECK_DEADLOCK FALSE
