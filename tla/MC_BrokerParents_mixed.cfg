SPECIFICATION Spec
CONSTANTS
    Keys = {k1}
    Builds = {b1, b2}
    Leases = {}
    Handlers = {h1, h2}
    ClientsDie = TRUE
    MaxFaults = 0
    MaxCrashes = 0
SYMMETRY Symmetry
INVARIANTS PublishedIsVerified
CHECK_DEADLOCK FALSE
