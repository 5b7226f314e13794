CONSTANTS
    p1 = p1
    p2 = p2
    p3 = p3
    c1 = c1
    c2 = c2
    Processes <- MCProcesses
    Contents <- MCContents
    Absent = Absent
    Empty = Empty
    MaxHostCrashes = 2
SPECIFICATION Spec
SYMMETRY Symmetry
INVARIANT NeverPartial
INVARIANT CreatedIsDurable
INVARIANT ReportsAgree
