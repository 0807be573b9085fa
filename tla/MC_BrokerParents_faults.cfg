SPECIFICATION Spec
CONSTANTS
    Keys = {k1}
    Builds = {b1, b2}
    Leases = {l1}
    Handlers = {h1, h2}
    ClientsDie = TRUE
    MaxFaults = 1
    MaxCrashes = 1
SYMMETRY Symmetry
INVARIANTS TypeOK   
CHECK_DEADLOCK FALSE
