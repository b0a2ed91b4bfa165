\* Every write method with every attribute assigned; the node and the tx
\* manager may fail (transact() always returns when the node accepted).
CONSTANTS
    Provided = {"allocation_manager", "delegation_manager", "permissioncontrol", "reward_cordinator", "strategy_manager"}
    Injected = {"tx_mgr", "elChainReader", "strategy_manager_addr", "NewRemovePermissionTx", "NewSetPermissionTx", "NewAcceptAdminTx", "NewRemovePendingAdminTx"}
    Called <- MC_Called
    MaxAttempts = 2
    CallsCanFail = TRUE
    LostResponses = FALSE
SPECIFICATION Spec
INVARIANTS RaisedCallLeftNoTx
CHECK_DEADLOCK FALSE
