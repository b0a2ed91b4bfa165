\* Every input form, every call may raise, a well-behaved node, and a chain
\* that may move between the reader's calls.
CONSTANTS
    s1 = s1
    s2 = s2
    o1 = o1
    o2 = o2
    t1 = t1
    NoEntry = NoEntry
    OpSets = {s1, s2}
    Operators = {o1, o2}
    Strategies = {t1}
    Stakes = {0, 1}
    LedgerStates <- MC_LedgerStates
    MaxHeight = 3
    Forms = {"ok", "lowerId", "noId", "noAvs", "legacy", "badAvs"}
    MaxKeys = 2
    FutureBlock = 3
    CallCanFail = TRUE
    MalformedReplies = FALSE
SPECIFICATION Spec
INVARIANTS
    ResultFollowsInput
    FailuresSurface
PROPERTIES
    ImplementsAggregate
\* The call returns and then takes no further step.
CHECK_DEADLOCK FALSE
