\* Every method but check_claim; failing calls,
\* short replies, a block mined during the call, the AVSDirectory unset.
CONSTANTS
    a1 = a1
    SetIds = {0, 1}
    Avss = {a1}
    Delays = {0, 7}
    Views = {"v", "w"}
    States <- MC_States
    MaxHeight = 2
    Provided = {"allocation_manager", "delegation_manager", "permissioncontrol", "reward_cordinator"}
    Called <- MC_Audited
    CallsCanFail = TRUE
    MalformedReplies = TRUE
SPECIFICATION Spec
INVARIANTS NoFailureAsData
CHECK_DEADLOCK FALSE
