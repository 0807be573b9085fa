SPECIFICATION Spec
CONSTANTS
    Leases = {l1, l2}
    Workspaces = {w1}
    IOFaults = TRUE
    Tamper = FALSE
    MaxCrashes = 2
SYMMETRY Symmetry
INVARIANTS
    TypeOK
    GrantedLeaseIntact
    TreeHasJournal
    MarkerOutlivesTree
    NoDanglingMount
    ReleasedMeansGone
    UncertainTreeFlagged
PROPERTIES
    MarkerRemovedLast
