SPECIFICATION FairSpec
CONSTANTS
    Workers = {w1, w2}
    Files = 7
    MaxFailures = 2
    MayCancel = TRUE
INVARIANTS TypeOK NoFileLost SuccessMeansCopied
PROPERTIES CancelReturns
CHECK_DEADLOCK FALSE
