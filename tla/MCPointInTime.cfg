\* Valid input, no failing call: do the snapshots reflect one ledger height?
CONSTANTS
    s1 = s1
    s2 = s2
    o1 = o1
    o2 = o2
    t1 = t1
    NoEntry = NoEntry
    OpSets = {s1, s2}
    Operators = {o1, o2}
    Strategies = {t1}
    Stakes = {0, 1}
    LedgerStates <- MC_LedgerStates
    MaxHeight = 3
    Forms = {"ok"}
    MaxKeys = 2
    FutureBlock = 3
    CallCanFail = FALSE
    MalformedReplies = FALSE
SPECIFICATION Spec
INVARIANT
    SinglePointInTime
CHECK_DEADLOCK FALSE
