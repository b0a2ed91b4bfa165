\* Every write method and builder, every handle and attribute assigned,
\* failing collaborators and one retry.
CONSTANTS
    Provided = {"allocation_manager", "delegation_manager", "permissioncontrol", "reward_cordinator", "strategy_manager"}
    Injected = {"tx_mgr", "elChainReader", "strategy_manager_addr", "NewRemovePermissionTx", "NewSetPermissionTx", "NewAcceptAdminTx", "NewRemovePendingAdminTx"}
    Called <- MC_Called
    MaxAttempts = 2
    CallsCanFail = TRUE
    LostResponses = TRUE
SPECIFICATION Spec
INVARIANTS NextTxAfterConfirmation ReturnedMeansConfirmed
CHECK_DEADLOCK FALSE
