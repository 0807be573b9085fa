SPECIFICATION FairSpec
CONSTANTS
    Leases = {l1}
    Workspaces = {w1}
    IOFaults = TRUE
    Tamper = TRUE
    MaxCrashes = 2
PROPERTIES
    ForeignKept
    DeadLeaseReclaimed
