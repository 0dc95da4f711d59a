SPECIFICATION Spec
CONSTANTS
    Recipients = {a1, a2}
    Runs = {r1, r2}
    MaxStarts = 3
    MaxStops = 1
    MaxEdits = 2
    None = None
    a1 = a1
    a2 = a2
    r1 = r1
    r2 = r2
SYMMETRY Symmetry
INVARIANTS
    TypeOK
    RemessageNeedsRaceOrStop
    StatusTellsMessage
PROPERTIES
    CancelledIsNotTaken
CHECK_DEADLOCK FALSE
