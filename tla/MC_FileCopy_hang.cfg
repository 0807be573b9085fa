SPECIFICATION FairSpec
CONSTANTS
    Workers = {w1, w2}
    Files = 7
    MaxFailures = 1
    MayCancel = FALSE
PROPERTIES CopyReturns
CHECK_DEADLOCK FALSE
