SPECIFICATION Spec
CONSTANTS
    Admins = {a1, a2}
    Runs = {r1, r2}
    MaxStarts = 3
    MaxKills = 1
    MaxFaults = 2
    None = None
    a1 = a1
    a2 = a2
    r1 = r1
    r2 = r2
SYMMETRY Symmetry
INVARIANTS
    TypeOK
    ResendNeedsRaceOrLoss
    FoundIsRecorded
PROPERTIES
    SentRecordStays
CHECK_DEADLOCK FALSE
