SPECIFICATION Spec
CONSTANTS
    Leases = {l1}
    Clients = {c1}
    Handlers = {h1}
    Periodic = TRUE
    IOFaults = FALSE
    MaxAttach = 2
    MaxCrashes = 0
INVARIANTS RetainedPreserved
CHECK_DEADLOCK FALSE
