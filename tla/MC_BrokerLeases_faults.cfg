SPECIFICATION Spec
CONSTANTS
    Leases = {l1}
    Clients = {c1, c2}
    Handlers = {h1}
    Periodic = TRUE
    IOFaults = TRUE
    MaxAttach = 2
    MaxCrashes = 2
SYMMETRY Symmetry
INVARIANTS TypeOK UndisturbedRetained ReleasedMeansGone SoleClientServed
CHECK_DEADLOCK FALSE
