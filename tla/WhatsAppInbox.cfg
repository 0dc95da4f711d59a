SPECIFICATION Spec
CONSTANTS
    Executives = {e1}
    Pids = {p1}
    SentIds = {s1}
    Reqs = {q1, q2}
    MaxChats = 2
    MaxMsgs = 2
    MaxStarts = 4
    MaxKills = 1
    None = None
    e1 = e1
    p1 = p1
    s1 = s1
    q1 = q1
    q2 = q2
SYMMETRY Symmetry
INVARIANTS
    TypeOK
    StoredOnceUnlessRaced
    UnreadIsCounted
    AccountMessageInOwnChat
CHECK_DEADLOCK FALSE
