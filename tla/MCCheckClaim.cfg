\* check_claim alone, with every contract handle set.
CONSTANTS
    a1 = a1
    SetIds = {0, 1}
    Avss = {a1}
    Delays = {0, 7}
    Views = {"v", "w"}
    States <- MC_States
    MaxHeight = 2
    Provided = {"allocation_manager", "avs_directory", "delegation_manager", "permissioncontrol", "reward_cordinator"}
    Called = {"check_claim"}
    CallsCanFail = TRUE
    MalformedReplies = TRUE
SPECIFICATION Spec
INVARIANTS NoFailureAsData
CHECK_DEADLOCK FALSE
