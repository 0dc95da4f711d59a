SPECIFICATION Spec
CONSTANTS
    Users = {u1, u2}
    Reqs = {q1, q2}
    MaxEvents = 3
    MaxStarts = 3
    MaxFaults = 1
    None = None
    u1 = u1
    u2 = u2
    q1 = q1
    q2 = q2
SYMMETRY Symmetry
INVARIANTS
    TypeOK
    CalendarMatchesVisit
    StraysAreCounted
CHECK_DEADLOCK FALSE
