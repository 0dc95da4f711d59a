SPECIFICATION Spec
CONSTANTS
    FollowUps = {f1, f2}
    Calls = {c1}
    Sidless = {}
    Workers = {w1}
    Handlers = {h1, h2}
    MaxDeliveries = 2
    MaxCrashes = 0
    OnVercel = FALSE
    SeedDemoData = TRUE
    LeadKey = LeadKey
    NoKey = NoKey
    None = None
    f1 = f1
    f2 = f2
    c1 = c1
    w1 = w1
    h1 = h1
    h2 = h2
SYMMETRY Symmetry
INVARIANT OneRetryPerCall
CHECK_DEADLOCK FALSE
