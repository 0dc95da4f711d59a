SPECIFICATION FairSpec
CONSTANTS
    NumRows = 2
    Runs = {r1}
    Keys = {k1, k2}
    Leads = {l1, l2}
    Overlap = FALSE
    RowsMove = FALSE
    MaxKills = 1
    MaxErrors = 1
    MaxTouched = 0
    Names = {"none", "ref"}
    Valids = {TRUE, FALSE}
    None = None
    r1 = r1
    k1 = k1
    k2 = k2
    l1 = l1
    l2 = l2
PROPERTIES
    NamedRowIsSynced
CHECK_DEADLOCK FALSE
