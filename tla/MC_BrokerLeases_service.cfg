SPECIFICATION FairSpec
CONSTANTS
    Leases = {l1}
    Clients = {c1}
    Handlers = {h1, h2}
    Periodic = TRUE
    IOFaults = FALSE
    MaxAttach = 1
    MaxCrashes = 1
INVARIANTS NoLostSession ReleasedMeansGone
PROPERTIES DeadLeaseSettles
CHECK_DEADLOCK FALSE
