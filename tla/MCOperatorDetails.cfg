\* get_operator_details alone, with every contract handle set.
CONSTANTS
    a1 = a1
    SetIds = {0, 1}
    Avss = {a1}
    Delays = {0, 7}
    Views = {"v", "w"}
    States <- MC_States
    MaxHeight = 2
    Provided = {"allocation_manager", "avs_directory", "delegation_manager", "permissioncontrol", "reward_cordinator"}
    Called = {"get_operator_details"}
    CallsCanFail = TRUE
    MalformedReplies = TRUE
SPECIFICATION Spec
INVARIANTS NoUnsetAsZero
CHECK_DEADLOCK FALSE
