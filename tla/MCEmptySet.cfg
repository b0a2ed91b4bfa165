\* Does a set with no members or no strategies yield a snapshot?
CONSTANTS
    s1 = s1
    s2 = s2
    o1 = o1
    o2 = o2
    t1 = t1
    NoEntry = NoEntry
    OpSets = {s1, s2}
    Operators = {o1, o2}
    Strategies = {t1}
    Stakes = {0, 1}
    LedgerStates <- MC_LedgerStates
    MaxHeight = 3
    Forms = {"ok"}
    MaxKeys = 2
    FutureBlock = 3
    CallCanFail = FALSE
    MalformedReplies = FALSE
SPECIFICATION Spec
INVARIANT
    EmptySetIsNotAnError
CHECK_DEADLOCK FALSE
