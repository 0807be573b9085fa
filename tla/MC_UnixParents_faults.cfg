SPECIFICATION FairSpec
CONSTANTS
    Keys = {k1}
    Txns = {t1, t2}
    Faults = TRUE
INVARIANTS
    TypeOK
    PublishedIsVerifiable
    CommitDurable
    UnfinishedDataKept
PROPERTIES
    GoodParentStays
    RetriedCommitSucceeds
CHECK_DEADLOCK FALSE
