SPECIFICATION Spec
CONSTANTS
    Nos = {n1, n2}
    Named = {n1}
    Reqs = {q1, q2}
    MaxUnits = 3
    MaxStarts = 4
    MaxEdits = 1
    MaxStops = 1
    MaxRows = 1
    None = None
    n1 = n1
    n2 = n2
    q1 = q1
    q2 = q2
SYMMETRY Symmetry
INVARIANTS
    TypeOK
    OneCopyUnlessPutTwice
    ClearedIsRefilled
    OrphansNeedRaceOrStop
PROPERTIES
    NewestCopyKeptUnlessChanged
CHECK_DEADLOCK FALSE
