SPECIFICATION Spec
CONSTANTS
    Numbers = {n1, n2}
    Sids = {s1, s2}
    Batches = {b1, b2}
    Hooks = {h1}
    Chosen = {"paused"}
    Replies = {"initiated"}
    Reports = {"dnp", "pending"}
    Limits = {1, 2}
    MaxStarts = 2
    MaxFaults = 1
    MaxDeliveries = 1
    None = None
    n1 = n1
    n2 = n2
    s1 = s1
    s2 = s2
    b1 = b1
    b2 = b2
    h1 = h1
SYMMETRY Symmetry
VIEW WhatMatters
INVARIANTS
    TypeOK
    CompletedOverlooksOnlyLate
    AttemptsCounted
    RedialNeedsRaceKillOrReport
    CallsAreOfTheirNumber
    FoundIsTried
PROPERTIES
    LinkLostOnlyToEarlyHook
CHECK_DEADLOCK FALSE
