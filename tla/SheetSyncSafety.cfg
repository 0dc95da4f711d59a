SPECIFICATION Spec
CONSTANTS
    NumRows = 2
    Runs = {r1}
    Keys = {k1, k2}
    Leads = {l1, l2, l3}
    Overlap = FALSE
    RowsMove = FALSE
    MaxKills = 1
    MaxErrors = 1
    MaxTouched = 1
    Names = {"ref", "full"}
    Valids = {TRUE}
    None = None
    r1 = r1
    k1 = k1
    k2 = k2
    l1 = l1
    l2 = l2
    l3 = l3
SYMMETRY Symmetry
INVARIANTS
    TypeOK
    OneLeadPerRow
    SyncedRowIsStored
    RowLinksItsLead
PROPERTIES
    SyncedRowIsNotResent
    ImplementsRowIntake
CHECK_DEADLOCK FALSE
