SPECIFICATION FairSpec
CONSTANTS
    FollowUps = {f1, f2}
    Calls = {c1}
    Sidless = {}
    Workers = {w1, w2}
    Handlers = {h1}
    MaxDeliveries = 2
    MaxCrashes = 1
    OnVercel = FALSE
    SeedDemoData = TRUE
    LeadKey = LeadKey
    NoKey = NoKey
    None = None
    f1 = f1
    f2 = f2
    c1 = c1
    w1 = w1
    w2 = w2
    h1 = h1
INVARIANTS
    TypeOK
    DialedAtMostOnce
PROPERTIES
    OutcomeIsFinal
    ImplementsOnceDispatch
    DueIsClaimed
    ClaimIsSettled
CHECK_DEADLOCK FALSE
