\* The writer as ELWriter.__init__ builds it: every contract handle set, no
\* attribute assigned afterwards, collaborators that never fail.
CONSTANTS
    Provided = {"allocation_manager", "delegation_manager", "permissioncontrol", "reward_cordinator", "strategy_manager"}
    Injected = {}
    Called <- MC_Called
    MaxAttempts = 1
    CallsCanFail = FALSE
    LostResponses = FALSE
SPECIFICATION Spec
INVARIANTS ConstructedWriterWrites
CHECK_DEADLOCK FALSE
