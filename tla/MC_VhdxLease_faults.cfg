SPECIFICATION FairSpec
CONSTANTS
    Numbers = {1, 2, 3}
    MaxFaults = 3
    MaxCrashes = 1
INVARIANTS
    OwnDiskOnly
    UndoneLeavesNothing
PROPERTIES
    ForeignMountKept
    NativeContract
    RetriedReleaseSucceeds
