SPECIFICATION Spec
CONSTANTS
    NumRows = 1
    Runs = {r1, r2}
    Keys = {k1, k2, k3}
    Leads = {l1, l2, l3}
    Overlap = TRUE
    RowsMove = FALSE
    MaxKills = 1
    MaxErrors = 1
    MaxTouched = 1
    Names = {"none", "ref", "full"}
    Valids = {TRUE}
    None = None
    r1 = r1
    r2 = r2
    k1 = k1
    k2 = k2
    k3 = k3
    l1 = l1
    l2 = l2
    l3 = l3
INVARIANTS
    OneLeadPerRow
CHECK_DEADLOCK FALSE
