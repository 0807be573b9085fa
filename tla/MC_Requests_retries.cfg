SPECIFICATION FairSpec
CONSTANTS
    Callers = {c1, c2}
    Legacy = {a2}
    Ids = {i1}
    Payloads = {a1, a2, b1}
    Acquires = {a1, a2}
    Leased = {a1, a2}
    Begins = {b1}
    Conns = {k1, k2}
    IOFaults = TRUE
    MaxCalls = 3
    MaxCrashes = 1
INVARIANTS
    AtMostOnce
    AnswerIsOwn
PROPERTIES
    CallEnds
    OneOutcome
CHECK_DEADLOCK FALSE
