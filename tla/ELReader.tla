------------------------------ MODULE ELReader ------------------------------
(***************************************************************************)
(* ELReader (src/eigensdk/chainio/clients/elcontracts/reader.py).  Nearly  *)
(* every method checks a contract handle for None, makes one view call at  *)
(* the newest block and reshapes the answer; a few add a check on the      *)
(* input or on the answer, read twice, or swallow the call's exception.   *)
(* As for ELWriter, each method is the sequence of its steps and one       *)
(* action per kind of step runs it; blocks may be mined between two steps. *)
(* Reshaping (tuple to dict) and error wording are left out: a call's      *)
(* answer is kept only where a check or a property looks at it.            *)
(***************************************************************************)
EXTENDS Naturals, Sequences

CONSTANTS
    SetIds,           \* operator-set ids, 0 (legacy) among them
    Avss,             \* AVS addresses
    Delays,           \* allocation delays the contract can hold
    Views,            \* the answers of the views no property looks into
    States,           \* the contract states a block may leave
    MaxHeight,        \* bound on the number of blocks
    Provided,         \* the contract handles passed to __init__ that are not None
    Called,           \* the methods the caller may invoke
    CallsCanFail,     \* whether a view call may raise (revert, node down)
    MalformedReplies  \* whether GetStrategyAllocations may return lists of unequal length

Keys == SetIds \X Avss   \* an operator_set dict {"Id": id, "Avs": avs}

\* What the views of one block return for the operator being asked about.
State ==
    [registered: SUBSET Keys,                  \* GetRegisteredSets(operator)
     avsStatus: {0, 1},                         \* AvsOperatorStatus(avs, operator)
     delay: [isSet: BOOLEAN, value: Delays],    \* GetAllocationDelay(operator)
     claim: BOOLEAN,                            \* CheckClaim(claim)
     view: Views]                               \* any other view

Handles == {"allocation_manager", "avs_directory", "delegation_manager",
            "permissioncontrol", "reward_cordinator"}

(***************************************************************************)
(* The kinds of step.                                                      *)
(***************************************************************************)
Step(kind, need, fn, onError) == [kind |-> kind, need |-> need, fn |-> fn, onError |-> onError]

CheckHandle(h) == Step("guard", h, "-", "-")          \* if self.h is None: raise
NotLegacy == Step("legacy", "-", "-", "-")            \* if Id == 0: raise (legacy AVS)
Read(fn) == Step("read", "-", fn, "raise")            \* x = contract.functions.fn(...).call()
ReadOrFalse(fn) == Step("read", "-", fn, "false")     \* the same, except Exception: return False
DelayIsSet == Step("isSet", "-", "-", "-")            \* if not is_set: raise
SameLengths == Step("lengths", "-", "-", "-")         \* if len(op_sets) != len(info): raise
UndefinedName == Step("undefined", "-", "-", "-")     \* a name the module or class lacks

\* The common shape: check the handle, make one call, return its answer.
\* The permission-controller readers wrap the call's exception in a
\* ValueError; that changes only the message, so they have this shape too.
Getter(h, fn) == <<CheckHandle(h), Read(fn)>>

(***************************************************************************)
(* Plausible bugs, used to check that the properties can fail.             *)
(***************************************************************************)
\* A permission check that, like check_claim, answers False when the call fails.
CanCallDefaultingFalse == <<CheckHandle("permissioncontrol"), ReadOrFalse("CanCall")>>

(***************************************************************************)
(* The programs of the methods, in source order.                           *)
(***************************************************************************)
get_allocatable_magnitude == Getter("allocation_manager", "getAllocatableMagnitude")
get_encumbered_magnitude == Getter("allocation_manager", "EncumberedMagnitude")
get_deallocation_delay == Getter("allocation_manager", "DEALLOCATIONDELAY")
get_allocation_configuration_delay == Getter("allocation_manager", "ALLOCATIONCONFIGURATIONDELAY")
get_max_magnitudes == Getter("allocation_manager", "GetMaxMagnitudes0")
get_allocation_info ==
    <<CheckHandle("allocation_manager"), Read("GetStrategyAllocations"), SameLengths>>
get_operator_sets_for_operator == Getter("allocation_manager", "GetAllocatedSets")
get_allocation_delay ==
    <<CheckHandle("allocation_manager"), Read("GetAllocationDelay"), DelayIsSet>>
get_registered_sets == Getter("allocation_manager", "GetRegisteredSets")
calculate_operator_avs_registration_digestHash ==
    Getter("avs_directory", "CalculateOperatorAVSRegistrationDigestHash")
\* Id 0 (an M2 AVS) asks the AVSDirectory; any other id looks for (Id, Avs)
\* among the operator's registered sets.
is_operator_registered_with_operator_set(k) ==
    IF k[1] = 0 THEN Getter("avs_directory", "AvsOperatorStatus")
    ELSE Getter("allocation_manager", "GetRegisteredSets")
get_operators_for_operator_set ==
    <<NotLegacy, CheckHandle("allocation_manager"), Read("GetMembers")>>
get_num_operators_for_operator_set ==
    <<NotLegacy, CheckHandle("allocation_manager"), Read("GetMemberCount")>>
get_strategies_for_operator_set ==
    <<NotLegacy, CheckHandle("allocation_manager"), Read("GetStrategiesInOperatorSet")>>
is_operator_registered == Getter("delegation_manager", "IsOperator")
get_staker_shares == Getter("delegation_manager", "GetDepositedShares")
get_delegated_operator == Getter("delegation_manager", "DelegatedTo")
\* Two reads; an unset delay is reported as 0.
get_operator_details ==
    <<CheckHandle("delegation_manager"), CheckHandle("allocation_manager"),
      Read("DelegationApprover"), Read("GetAllocationDelay")>>
get_operator_shares_in_strategy == Getter("delegation_manager", "OperatorShares")
calculate_delegation_approval_digest_hash ==
    Getter("delegation_manager", "CalculateDelegationApprovalDigestHash")
\* Defined twice in the class; this second definition is the one that counts.
get_operator_shares == Getter("delegation_manager", "GetOperatorShares")
get_operators_shares == Getter("delegation_manager", "GetOperatorsShares")
get_delegation_approver_salt_is_spent ==
    Getter("delegation_manager", "DelegationApproverSaltIsSpent")
get_pending_withdrawal_status == Getter("delegation_manager", "PendingWithdrawals")
get_cumulative_withdrawals_queued == Getter("delegation_manager", "CumulativeWithdrawalsQueued")
\* Defined twice; both read the block number and then call
\* self.GetSlashableSharesForOperatorSetsBefore, which the class lacks.
get_slashable_shares_for_operator_sets == <<Read("block_number"), UndefinedName>>
can_call == Getter("permissioncontrol", "CanCall")
list_appointees == Getter("permissioncontrol", "GetAppointees")
list_appointee_permissions == Getter("permissioncontrol", "GetAppointeePermissions")
list_pending_admins == Getter("permissioncontrol", "GetPendingAdmins")
list_admins == Getter("permissioncontrol", "GetAdmins")
is_pending_admin == Getter("permissioncontrol", "IsPendingAdmin")
is_admin == Getter("permissioncontrol", "IsAdmin")
get_distribution_roots_length == Getter("reward_cordinator", "GetDistributionRootsLength")
curr_rewards_calculation_end_timestamp ==
    Getter("reward_cordinator", "CurrRewardsCalculationEndTimestamp")
get_current_claimable_distribution_root ==
    Getter("reward_cordinator", "GetCurrentClaimableDistributionRoot")
get_root_index_from_hash == Getter("reward_cordinator", "GetRootIndexFromHash")
get_cumulative_claimed == Getter("reward_cordinator", "CumulativeClaimed")
\* A failed call is reported as an invalid claim.
check_claim == <<CheckHandle("reward_cordinator"), ReadOrFalse("CheckClaim")>>
get_operator_avs_split == Getter("reward_cordinator", "GetOperatorAVSSplit")
get_operator_pi_split == Getter("reward_cordinator", "GetOperatorPISplit")
get_operator_set_split == Getter("reward_cordinator", "GetOperatorSetSplit")
get_calculation_interval_seconds == Getter("reward_cordinator", "CALCULATIONINTERVALSECONDS")
get_max_rewards_duration == Getter("reward_cordinator", "MAXREWARDSDURATION")
get_max_retroactive_length == Getter("reward_cordinator", "MAXRETROACTIVELENGTH")
get_max_future_length == Getter("reward_cordinator", "MAXFUTURELENGTH")
get_genesis_rewards_timestamp == Getter("reward_cordinator", "GENESISREWARDSTIMESTAMP")
get_rewards_updater == Getter("reward_cordinator", "RewardsUpdater")
GetActivationDelay == Getter("reward_cordinator", "ActivationDelay")
get_curr_rewards_calculation_end_timestamp ==
    Getter("reward_cordinator", "CurrRewardsCalculationEndTimestamp")
get_default_operator_split_bips == Getter("reward_cordinator", "DefaultOperatorSplitBips")
get_claimer_for == Getter("reward_cordinator", "ClaimerFor")
get_submission_nonce == Getter("reward_cordinator", "SubmissionNonce")
get_is_avs_rewards_submission_hash == Getter("reward_cordinator", "IsAVSRewardsSubmissionHash")
get_is_rewards_submission_for_all_hash ==
    Getter("reward_cordinator", "IsRewardsSubmissionForAllHash")
get_is_rewards_for_all_submitter == Getter("reward_cordinator", "IsRewardsForAllSubmitter")
get_is_rewards_submission_for_all_earners_hash ==
    Getter("reward_cordinator", "IsRewardsSubmissionForAllEarnersHash")
get_is_operator_directed_avs_rewards_submission_hash ==
    Getter("reward_cordinator", "IsOperatorDirectedAVSRewardsSubmissionHash")
get_is_operator_directed_operator_set_rewards_submission_hash ==
    Getter("reward_cordinator", "IsOperatorDirectedOperatorSetRewardsSubmissionHash")
\* strategy.NewContractIStrategy: the name strategy is never imported.
get_strategy_and_underlying_erc20_token == <<UndefinedName>>

Program ==
    [get_allocatable_magnitude |-> get_allocatable_magnitude,
     get_encumbered_magnitude |-> get_encumbered_magnitude,
     get_deallocation_delay |-> get_deallocation_delay,
     get_allocation_configuration_delay |-> get_allocation_configuration_delay,
     get_max_magnitudes |-> get_max_magnitudes,
     get_allocation_info |-> get_allocation_info,
     get_operator_sets_for_operator |-> get_operator_sets_for_operator,
     get_allocation_delay |-> get_allocation_delay,
     get_registered_sets |-> get_registered_sets,
     calculate_operator_avs_registration_digestHash |-> calculate_operator_avs_registration_digestHash,
     get_operators_for_operator_set |-> get_operators_for_operator_set,
     get_num_operators_for_operator_set |-> get_num_operators_for_operator_set,
     get_strategies_for_operator_set |-> get_strategies_for_operator_set,
     is_operator_registered |-> is_operator_registered,
     get_staker_shares |-> get_staker_shares,
     get_delegated_operator |-> get_delegated_operator,
     get_operator_details |-> get_operator_details,
     get_operator_shares_in_strategy |-> get_operator_shares_in_strategy,
     calculate_delegation_approval_digest_hash |-> calculate_delegation_approval_digest_hash,
     get_operator_shares |-> get_operator_shares,
     get_operators_shares |-> get_operators_shares,
     get_delegation_approver_salt_is_spent |-> get_delegation_approver_salt_is_spent,
     get_pending_withdrawal_status |-> get_pending_withdrawal_status,
     get_cumulative_withdrawals_queued |-> get_cumulative_withdrawals_queued,
     get_slashable_shares_for_operator_sets |-> get_slashable_shares_for_operator_sets,
     can_call |-> can_call,
     list_appointees |-> list_appointees,
     list_appointee_permissions |-> list_appointee_permissions,
     list_pending_admins |-> list_pending_admins,
     list_admins |-> list_admins,
     is_pending_admin |-> is_pending_admin,
     is_admin |-> is_admin,
     get_distribution_roots_length |-> get_distribution_roots_length,
     curr_rewards_calculation_end_timestamp |-> curr_rewards_calculation_end_timestamp,
     get_current_claimable_distribution_root |-> get_current_claimable_distribution_root,
     get_root_index_from_hash |-> get_root_index_from_hash,
     get_cumulative_claimed |-> get_cumulative_claimed,
     check_claim |-> check_claim,
     get_operator_avs_split |-> get_operator_avs_split,
     get_operator_pi_split |-> get_operator_pi_split,
     get_operator_set_split |-> get_operator_set_split,
     get_calculation_interval_seconds |-> get_calculation_interval_seconds,
     get_max_rewards_duration |-> get_max_rewards_duration,
     get_max_retroactive_length |-> get_max_retroactive_length,
     get_max_future_length |-> get_max_future_length,
     get_genesis_rewards_timestamp |-> get_genesis_rewards_timestamp,
     get_rewards_updater |-> get_rewards_updater,
     GetActivationDelay |-> GetActivationDelay,
     get_curr_rewards_calculation_end_timestamp |-> get_curr_rewards_calculation_end_timestamp,
     get_default_operator_split_bips |-> get_default_operator_split_bips,
     get_claimer_for |-> get_claimer_for,
     get_submission_nonce |-> get_submission_nonce,
     get_is_avs_rewards_submission_hash |-> get_is_avs_rewards_submission_hash,
     get_is_rewards_submission_for_all_hash |-> get_is_rewards_submission_for_all_hash,
     get_is_rewards_for_all_submitter |-> get_is_rewards_for_all_submitter,
     get_is_rewards_submission_for_all_earners_hash |-> get_is_rewards_submission_for_all_earners_hash,
     get_is_operator_directed_avs_rewards_submission_hash |-> get_is_operator_directed_avs_rewards_submission_hash,
     get_is_operator_directed_operator_set_rewards_submission_hash |-> get_is_operator_directed_operator_set_rewards_submission_hash,
     get_strategy_and_underlying_erc20_token |-> get_strategy_and_underlying_erc20_token]

Methods == DOMAIN Program \cup {"is_operator_registered_with_operator_set"}

ASSUME ELReaderAssumption ==
    /\ States \subseteq State /\ States # {}
    /\ 0 \in SetIds /\ SetIds \subseteq Nat
    /\ MaxHeight \in Nat \ {0}
    /\ Provided \subseteq Handles
    /\ Called \subseteq Methods /\ Called # {}
    /\ CallsCanFail \in BOOLEAN
    /\ MalformedReplies \in BOOLEAN

\* A view call the method made: the function, the height it was evaluated
\* at, whether it returned, and its answer (when it returned).
Call == [fn: STRING, height: Nat, ok: BOOLEAN, value: Keys \cup SUBSET Keys \cup {0, 1}
           \cup [isSet: BOOLEAN, value: Delays] \cup BOOLEAN \cup Views \cup Nat]

VARIABLES
    chain,   \* chain[h]: the contract state after block h
    method,  \* the method invoked
    key,     \* its operator_set argument, where it has one
    status,  \* "running", "returned" or "raised"
    step,    \* index of the next step
    calls,   \* the view calls it made, in order
    result   \* what it returned

vars == <<chain, method, key, status, step, calls, result>>

Height == Len(chain)

Newest == chain[Height]

ProgramOf(m, k) ==
    IF m = "is_operator_registered_with_operator_set"
    THEN is_operator_registered_with_operator_set(k)
    ELSE Program[m]

Prog == ProgramOf(method, key)

Cur == Prog[step]

Last == calls[Len(calls)]

\* The answer of view fn in contract state s.
Answer(fn, s) ==
    CASE fn = "GetRegisteredSets"  -> s.registered
      [] fn = "AvsOperatorStatus"  -> s.avsStatus
      [] fn = "GetAllocationDelay" -> s.delay
      [] fn = "CheckClaim"         -> s.claim
      [] fn = "block_number"       -> Height
      [] OTHER                     -> s.view

\* What the method returns, built from its calls' answers.
Reshape ==
    CASE method = "is_operator_registered_with_operator_set" ->
             IF key[1] = 0 THEN Last.value = 1 ELSE key \in Last.value
      [] method = "get_operator_details" ->
             IF Last.value.isSet THEN Last.value.value ELSE 0
      [] OTHER -> Last.value

TypeOK ==
    /\ chain \in Seq(States) /\ Height \in 1..MaxHeight
    /\ method \in Called
    /\ key \in Keys
    /\ status \in {"running", "returned", "raised"}
    /\ step \in Nat
    /\ calls \in Seq(Call)

Init ==
    /\ \E s \in States : chain = <<s>>
    /\ method \in Called
    /\ key \in Keys
    /\ status = "running"
    /\ step = 1
    /\ calls = <<>>
    /\ result = "none"

Running(kind) == status = "running" /\ step \in 1..Len(Prog) /\ Cur.kind = kind

Outcomes == IF CallsCanFail THEN BOOLEAN ELSE {TRUE}

\* if self.<handle> is None: raise ValueError("... contract not provided")
ContractGuard ==
    /\ Running("guard")
    /\ IF Cur.need \in Provided THEN step' = step + 1 /\ UNCHANGED status
       ELSE status' = "raised" /\ UNCHANGED step
    /\ UNCHANGED <<chain, method, key, calls, result>>

\* if operator_set.get("Id", 0) == 0: raise ValueError("Legacy AVSs ...")
LegacyCheck ==
    /\ Running("legacy")
    /\ IF key[1] = 0 THEN status' = "raised" /\ UNCHANGED step
       ELSE step' = step + 1 /\ UNCHANGED status
    /\ UNCHANGED <<chain, method, key, calls, result>>

\* x = contract.functions.fn(...).call() at the newest block.  A raise
\* propagates, except in check_claim, which returns False.
ViewCall ==
    /\ Running("read")
    /\ \E ok \in Outcomes :
         /\ calls' = Append(calls, [fn |-> Cur.fn, height |-> Height, ok |-> ok,
                                    value |-> IF ok THEN Answer(Cur.fn, Newest) ELSE FALSE])
         /\ IF ok THEN step' = step + 1 /\ UNCHANGED <<status, result>>
            ELSE IF Cur.onError = "raise" THEN status' = "raised" /\ UNCHANGED <<step, result>>
            ELSE status' = "returned" /\ result' = FALSE /\ UNCHANGED step
    /\ UNCHANGED <<chain, method, key>>

\* get_allocation_delay: if not is_set: raise ValueError("allocation delay not set")
DelayCheck ==
    /\ Running("isSet")
    /\ IF Last.value.isSet THEN step' = step + 1 /\ UNCHANGED status
       ELSE status' = "raised" /\ UNCHANGED step
    /\ UNCHANGED <<chain, method, key, calls, result>>

\* get_allocation_info: if len(op_sets) != len(allocation_info): raise
LengthCheck ==
    /\ Running("lengths")
    /\ \/ step' = step + 1 /\ UNCHANGED status
       \/ MalformedReplies /\ status' = "raised" /\ UNCHANGED step
    /\ UNCHANGED <<chain, method, key, calls, result>>

\* A NameError or AttributeError: the name does not exist.
UndefinedGlobal ==
    /\ Running("undefined")
    /\ status' = "raised"
    /\ UNCHANGED <<chain, method, key, step, calls, result>>

\* return <the reshaped answer>
Return ==
    /\ status = "running"
    /\ step = Len(Prog) + 1
    /\ status' = "returned"
    /\ result' = Reshape
    /\ UNCHANGED <<chain, method, key, step, calls>>

Reader ==
    \/ ContractGuard \/ LegacyCheck \/ ViewCall \/ DelayCheck \/ LengthCheck
    \/ UndefinedGlobal \/ Return

\* A block is mined between two steps of the method.
Produce ==
    /\ Height < MaxHeight
    /\ \E s \in States : chain' = Append(chain, s)
    /\ UNCHANGED <<method, key, status, step, calls, result>>

Next == Reader \/ Produce

Spec == Init /\ [][Next]_vars /\ WF_vars(Reader)

-----------------------------------------------------------------------------
(***************************************************************************)
(* Properties                                                              *)
(***************************************************************************)

\* Spec 7 and 9: a method that returns never turned a failed view call into
\* an answer (a default False, zero or empty value).
NoFailureAsData ==
    status = "returned" => \A c \in 1..Len(calls) : calls[c].ok

\* Spec 9: an allocation delay the contract reports as unset is never
\* returned as a value (in particular not as 0).
NoUnsetAsZero ==
    status = "returned" =>
        \A c \in 1..Len(calls) :
            calls[c].fn = "GetAllocationDelay" => calls[c].value.isSet

=============================================================================
