--------------------------- MODULE ELReaderProofs ---------------------------
(***************************************************************************)
(* Proofs about ELReader: no method but check_claim turns a failed view    *)
(* call into an answer, for every contract state, every set of handles    *)
(* and any chain.  The proof rests on a fact about the method programs: a *)
(* view call's exception propagates, and check_claim alone catches it.    *)
(***************************************************************************)
EXTENDS ELReader, SequenceTheorems, TLAPS

\* Every view call of the program lets its exception propagate.
ReadsRaise(P) == \A j \in 1..Len(P) : P[j].kind = "read" => P[j].onError = "raise"

\* The facts a method's program has, by method.
Facts(m, P) ==
    /\ Len(P) \in Nat
    /\ m # "check_claim" => ReadsRaise(P)

\* A getter lets the exception of its one view call propagate.
LEMMA GetterFacts ==
    ASSUME NEW m, NEW h, NEW fn
    PROVE  Facts(m, Getter(h, fn))
BY DEF Facts, ReadsRaise, Getter, CheckHandle, Read, Step

\* The field of Program for each method is that method's program.
LEMMA ProgramFields ==
    /\ Program["get_allocatable_magnitude"] = get_allocatable_magnitude
    /\ Program["get_encumbered_magnitude"] = get_encumbered_magnitude
    /\ Program["get_deallocation_delay"] = get_deallocation_delay
    /\ Program["get_allocation_configuration_delay"] = get_allocation_configuration_delay
    /\ Program["get_max_magnitudes"] = get_max_magnitudes
    /\ Program["get_allocation_info"] = get_allocation_info
    /\ Program["get_operator_sets_for_operator"] = get_operator_sets_for_operator
    /\ Program["get_allocation_delay"] = get_allocation_delay
    /\ Program["get_registered_sets"] = get_registered_sets
    /\ Program["calculate_operator_avs_registration_digestHash"] = calculate_operator_avs_registration_digestHash
    /\ Program["get_operators_for_operator_set"] = get_operators_for_operator_set
    /\ Program["get_num_operators_for_operator_set"] = get_num_operators_for_operator_set
    /\ Program["get_strategies_for_operator_set"] = get_strategies_for_operator_set
    /\ Program["is_operator_registered"] = is_operator_registered
    /\ Program["get_staker_shares"] = get_staker_shares
    /\ Program["get_delegated_operator"] = get_delegated_operator
    /\ Program["get_operator_details"] = get_operator_details
    /\ Program["get_operator_shares_in_strategy"] = get_operator_shares_in_strategy
    /\ Program["calculate_delegation_approval_digest_hash"] = calculate_delegation_approval_digest_hash
    /\ Program["get_operator_shares"] = get_operator_shares
    /\ Program["get_operators_shares"] = get_operators_shares
    /\ Program["get_delegation_approver_salt_is_spent"] = get_delegation_approver_salt_is_spent
    /\ Program["get_pending_withdrawal_status"] = get_pending_withdrawal_status
    /\ Program["get_cumulative_withdrawals_queued"] = get_cumulative_withdrawals_queued
    /\ Program["get_slashable_shares_for_operator_sets"] = get_slashable_shares_for_operator_sets
    /\ Program["can_call"] = can_call
    /\ Program["list_appointees"] = list_appointees
    /\ Program["list_appointee_permissions"] = list_appointee_permissions
    /\ Program["list_pending_admins"] = list_pending_admins
    /\ Program["list_admins"] = list_admins
    /\ Program["is_pending_admin"] = is_pending_admin
    /\ Program["is_admin"] = is_admin
    /\ Program["get_distribution_roots_length"] = get_distribution_roots_length
    /\ Program["curr_rewards_calculation_end_timestamp"] = curr_rewards_calculation_end_timestamp
    /\ Program["get_current_claimable_distribution_root"] = get_current_claimable_distribution_root
    /\ Program["get_root_index_from_hash"] = get_root_index_from_hash
    /\ Program["get_cumulative_claimed"] = get_cumulative_claimed
    /\ Program["check_claim"] = check_claim
    /\ Program["get_operator_avs_split"] = get_operator_avs_split
    /\ Program["get_operator_pi_split"] = get_operator_pi_split
    /\ Program["get_operator_set_split"] = get_operator_set_split
    /\ Program["get_calculation_interval_seconds"] = get_calculation_interval_seconds
    /\ Program["get_max_rewards_duration"] = get_max_rewards_duration
    /\ Program["get_max_retroactive_length"] = get_max_retroactive_length
    /\ Program["get_max_future_length"] = get_max_future_length
    /\ Program["get_genesis_rewards_timestamp"] = get_genesis_rewards_timestamp
    /\ Program["get_rewards_updater"] = get_rewards_updater
    /\ Program["GetActivationDelay"] = GetActivationDelay
    /\ Program["get_curr_rewards_calculation_end_timestamp"] = get_curr_rewards_calculation_end_timestamp
    /\ Program["get_default_operator_split_bips"] = get_default_operator_split_bips
    /\ Program["get_claimer_for"] = get_claimer_for
    /\ Program["get_submission_nonce"] = get_submission_nonce
    /\ Program["get_is_avs_rewards_submission_hash"] = get_is_avs_rewards_submission_hash
    /\ Program["get_is_rewards_submission_for_all_hash"] = get_is_rewards_submission_for_all_hash
    /\ Program["get_is_rewards_for_all_submitter"] = get_is_rewards_for_all_submitter
    /\ Program["get_is_rewards_submission_for_all_earners_hash"] = get_is_rewards_submission_for_all_earners_hash
    /\ Program["get_is_operator_directed_avs_rewards_submission_hash"] = get_is_operator_directed_avs_rewards_submission_hash
    /\ Program["get_is_operator_directed_operator_set_rewards_submission_hash"] = get_is_operator_directed_operator_set_rewards_submission_hash
    /\ Program["get_strategy_and_underlying_erc20_token"] = get_strategy_and_underlying_erc20_token
BY ZenonT(120) DEF Program

\* Every program has the facts its method is named for.
LEMMA ProgramsFacts == \A m \in DOMAIN Program : Facts(m, Program[m])
<1>1. Facts("get_allocatable_magnitude", get_allocatable_magnitude)
    BY GetterFacts DEF get_allocatable_magnitude
<1>2. Facts("get_encumbered_magnitude", get_encumbered_magnitude)
    BY GetterFacts DEF get_encumbered_magnitude
<1>3. Facts("get_deallocation_delay", get_deallocation_delay)
    BY GetterFacts DEF get_deallocation_delay
<1>4. Facts("get_allocation_configuration_delay", get_allocation_configuration_delay)
    BY GetterFacts DEF get_allocation_configuration_delay
<1>5. Facts("get_max_magnitudes", get_max_magnitudes)
    BY GetterFacts DEF get_max_magnitudes
<1>6. Facts("get_allocation_info", get_allocation_info)
    BY DEF Facts, ReadsRaise, get_allocation_info,
       CheckHandle, NotLegacy, Read, ReadOrFalse, DelayIsSet, SameLengths,
       UndefinedName, Step
<1>7. Facts("get_operator_sets_for_operator", get_operator_sets_for_operator)
    BY GetterFacts DEF get_operator_sets_for_operator
<1>8. Facts("get_allocation_delay", get_allocation_delay)
    BY DEF Facts, ReadsRaise, get_allocation_delay,
       CheckHandle, NotLegacy, Read, ReadOrFalse, DelayIsSet, SameLengths,
       UndefinedName, Step
<1>9. Facts("get_registered_sets", get_registered_sets)
    BY GetterFacts DEF get_registered_sets
<1>10. Facts("calculate_operator_avs_registration_digestHash", calculate_operator_avs_registration_digestHash)
    BY GetterFacts DEF calculate_operator_avs_registration_digestHash
<1>11. Facts("get_operators_for_operator_set", get_operators_for_operator_set)
    BY DEF Facts, ReadsRaise, get_operators_for_operator_set,
       CheckHandle, NotLegacy, Read, ReadOrFalse, DelayIsSet, SameLengths,
       UndefinedName, Step
<1>12. Facts("get_num_operators_for_operator_set", get_num_operators_for_operator_set)
    BY DEF Facts, ReadsRaise, get_num_operators_for_operator_set,
       CheckHandle, NotLegacy, Read, ReadOrFalse, DelayIsSet, SameLengths,
       UndefinedName, Step
<1>13. Facts("get_strategies_for_operator_set", get_strategies_for_operator_set)
    BY DEF Facts, ReadsRaise, get_strategies_for_operator_set,
       CheckHandle, NotLegacy, Read, ReadOrFalse, DelayIsSet, SameLengths,
       UndefinedName, Step
<1>14. Facts("is_operator_registered", is_operator_registered)
    BY GetterFacts DEF is_operator_registered
<1>15. Facts("get_staker_shares", get_staker_shares)
    BY GetterFacts DEF get_staker_shares
<1>16. Facts("get_delegated_operator", get_delegated_operator)
    BY GetterFacts DEF get_delegated_operator
<1>17. Facts("get_operator_details", get_operator_details)
    BY DEF Facts, ReadsRaise, get_operator_details,
       CheckHandle, NotLegacy, Read, ReadOrFalse, DelayIsSet, SameLengths,
       UndefinedName, Step
<1>18. Facts("get_operator_shares_in_strategy", get_operator_shares_in_strategy)
    BY GetterFacts DEF get_operator_shares_in_strategy
<1>19. Facts("calculate_delegation_approval_digest_hash", calculate_delegation_approval_digest_hash)
    BY GetterFacts DEF calculate_delegation_approval_digest_hash
<1>20. Facts("get_operator_shares", get_operator_shares)
    BY GetterFacts DEF get_operator_shares
<1>21. Facts("get_operators_shares", get_operators_shares)
    BY GetterFacts DEF get_operators_shares
<1>22. Facts("get_delegation_approver_salt_is_spent", get_delegation_approver_salt_is_spent)
    BY GetterFacts DEF get_delegation_approver_salt_is_spent
<1>23. Facts("get_pending_withdrawal_status", get_pending_withdrawal_status)
    BY GetterFacts DEF get_pending_withdrawal_status
<1>24. Facts("get_cumulative_withdrawals_queued", get_cumulative_withdrawals_queued)
    BY GetterFacts DEF get_cumulative_withdrawals_queued
<1>25. Facts("get_slashable_shares_for_operator_sets", get_slashable_shares_for_operator_sets)
    BY DEF Facts, ReadsRaise, get_slashable_shares_for_operator_sets,
       CheckHandle, NotLegacy, Read, ReadOrFalse, DelayIsSet, SameLengths,
       UndefinedName, Step
<1>26. Facts("can_call", can_call)
    BY GetterFacts DEF can_call
<1>27. Facts("list_appointees", list_appointees)
    BY GetterFacts DEF list_appointees
<1>28. Facts("list_appointee_permissions", list_appointee_permissions)
    BY GetterFacts DEF list_appointee_permissions
<1>29. Facts("list_pending_admins", list_pending_admins)
    BY GetterFacts DEF list_pending_admins
<1>30. Facts("list_admins", list_admins)
    BY GetterFacts DEF list_admins
<1>31. Facts("is_pending_admin", is_pending_admin)
    BY GetterFacts DEF is_pending_admin
<1>32. Facts("is_admin", is_admin)
    BY GetterFacts DEF is_admin
<1>33. Facts("get_distribution_roots_length", get_distribution_roots_length)
    BY GetterFacts DEF get_distribution_roots_length
<1>34. Facts("curr_rewards_calculation_end_timestamp", curr_rewards_calculation_end_timestamp)
    BY GetterFacts DEF curr_rewards_calculation_end_timestamp
<1>35. Facts("get_current_claimable_distribution_root", get_current_claimable_distribution_root)
    BY GetterFacts DEF get_current_claimable_distribution_root
<1>36. Facts("get_root_index_from_hash", get_root_index_from_hash)
    BY GetterFacts DEF get_root_index_from_hash
<1>37. Facts("get_cumulative_claimed", get_cumulative_claimed)
    BY GetterFacts DEF get_cumulative_claimed
<1>38. Facts("check_claim", check_claim)
    BY DEF Facts, ReadsRaise, check_claim,
       CheckHandle, NotLegacy, Read, ReadOrFalse, DelayIsSet, SameLengths,
       UndefinedName, Step
<1>39. Facts("get_operator_avs_split", get_operator_avs_split)
    BY GetterFacts DEF get_operator_avs_split
<1>40. Facts("get_operator_pi_split", get_operator_pi_split)
    BY GetterFacts DEF get_operator_pi_split
<1>41. Facts("get_operator_set_split", get_operator_set_split)
    BY GetterFacts DEF get_operator_set_split
<1>42. Facts("get_calculation_interval_seconds", get_calculation_interval_seconds)
    BY GetterFacts DEF get_calculation_interval_seconds
<1>43. Facts("get_max_rewards_duration", get_max_rewards_duration)
    BY GetterFacts DEF get_max_rewards_duration
<1>44. Facts("get_max_retroactive_length", get_max_retroactive_length)
    BY GetterFacts DEF get_max_retroactive_length
<1>45. Facts("get_max_future_length", get_max_future_length)
    BY GetterFacts DEF get_max_future_length
<1>46. Facts("get_genesis_rewards_timestamp", get_genesis_rewards_timestamp)
    BY GetterFacts DEF get_genesis_rewards_timestamp
<1>47. Facts("get_rewards_updater", get_rewards_updater)
    BY GetterFacts DEF get_rewards_updater
<1>48. Facts("GetActivationDelay", GetActivationDelay)
    BY GetterFacts DEF GetActivationDelay
<1>49. Facts("get_curr_rewards_calculation_end_timestamp", get_curr_rewards_calculation_end_timestamp)
    BY GetterFacts DEF get_curr_rewards_calculation_end_timestamp
<1>50. Facts("get_default_operator_split_bips", get_default_operator_split_bips)
    BY GetterFacts DEF get_default_operator_split_bips
<1>51. Facts("get_claimer_for", get_claimer_for)
    BY GetterFacts DEF get_claimer_for
<1>52. Facts("get_submission_nonce", get_submission_nonce)
    BY GetterFacts DEF get_submission_nonce
<1>53. Facts("get_is_avs_rewards_submission_hash", get_is_avs_rewards_submission_hash)
    BY GetterFacts DEF get_is_avs_rewards_submission_hash
<1>54. Facts("get_is_rewards_submission_for_all_hash", get_is_rewards_submission_for_all_hash)
    BY GetterFacts DEF get_is_rewards_submission_for_all_hash
<1>55. Facts("get_is_rewards_for_all_submitter", get_is_rewards_for_all_submitter)
    BY GetterFacts DEF get_is_rewards_for_all_submitter
<1>56. Facts("get_is_rewards_submission_for_all_earners_hash", get_is_rewards_submission_for_all_earners_hash)
    BY GetterFacts DEF get_is_rewards_submission_for_all_earners_hash
<1>57. Facts("get_is_operator_directed_avs_rewards_submission_hash", get_is_operator_directed_avs_rewards_submission_hash)
    BY GetterFacts DEF get_is_operator_directed_avs_rewards_submission_hash
<1>58. Facts("get_is_operator_directed_operator_set_rewards_submission_hash", get_is_operator_directed_operator_set_rewards_submission_hash)
    BY GetterFacts DEF get_is_operator_directed_operator_set_rewards_submission_hash
<1>59. Facts("get_strategy_and_underlying_erc20_token", get_strategy_and_underlying_erc20_token)
    BY DEF Facts, ReadsRaise, get_strategy_and_underlying_erc20_token,
       CheckHandle, NotLegacy, Read, ReadOrFalse, DelayIsSet, SameLengths,
       UndefinedName, Step
<1>60. SUFFICES ASSUME NEW m \in DOMAIN Program PROVE Facts(m, Program[m])
    OBVIOUS
<1>61. m \in {"get_allocatable_magnitude", "get_encumbered_magnitude",
        "get_deallocation_delay", "get_allocation_configuration_delay",
        "get_max_magnitudes", "get_allocation_info",
        "get_operator_sets_for_operator", "get_allocation_delay",
        "get_registered_sets",
        "calculate_operator_avs_registration_digestHash",
        "get_operators_for_operator_set",
        "get_num_operators_for_operator_set",
        "get_strategies_for_operator_set", "is_operator_registered",
        "get_staker_shares", "get_delegated_operator", "get_operator_details",
        "get_operator_shares_in_strategy",
        "calculate_delegation_approval_digest_hash", "get_operator_shares",
        "get_operators_shares", "get_delegation_approver_salt_is_spent",
        "get_pending_withdrawal_status", "get_cumulative_withdrawals_queued",
        "get_slashable_shares_for_operator_sets", "can_call",
        "list_appointees", "list_appointee_permissions",
        "list_pending_admins", "list_admins", "is_pending_admin", "is_admin",
        "get_distribution_roots_length",
        "curr_rewards_calculation_end_timestamp",
        "get_current_claimable_distribution_root", "get_root_index_from_hash",
        "get_cumulative_claimed", "check_claim", "get_operator_avs_split",
        "get_operator_pi_split", "get_operator_set_split",
        "get_calculation_interval_seconds", "get_max_rewards_duration",
        "get_max_retroactive_length", "get_max_future_length",
        "get_genesis_rewards_timestamp", "get_rewards_updater",
        "GetActivationDelay", "get_curr_rewards_calculation_end_timestamp",
        "get_default_operator_split_bips", "get_claimer_for",
        "get_submission_nonce", "get_is_avs_rewards_submission_hash",
        "get_is_rewards_submission_for_all_hash",
        "get_is_rewards_for_all_submitter",
        "get_is_rewards_submission_for_all_earners_hash",
        "get_is_operator_directed_avs_rewards_submission_hash",
        "get_is_operator_directed_operator_set_rewards_submission_hash",
        "get_strategy_and_underlying_erc20_token"}
    BY DEF Program
<1>62. CASE m = "get_allocatable_magnitude"
    BY <1>1, <1>62, ProgramFields
<1>63. CASE m = "get_encumbered_magnitude"
    BY <1>2, <1>63, ProgramFields
<1>64. CASE m = "get_deallocation_delay"
    BY <1>3, <1>64, ProgramFields
<1>65. CASE m = "get_allocation_configuration_delay"
    BY <1>4, <1>65, ProgramFields
<1>66. CASE m = "get_max_magnitudes"
    BY <1>5, <1>66, ProgramFields
<1>67. CASE m = "get_allocation_info"
    BY <1>6, <1>67, ProgramFields
<1>68. CASE m = "get_operator_sets_for_operator"
    BY <1>7, <1>68, ProgramFields
<1>69. CASE m = "get_allocation_delay"
    BY <1>8, <1>69, ProgramFields
<1>70. CASE m = "get_registered_sets"
    BY <1>9, <1>70, ProgramFields
<1>71. CASE m = "calculate_operator_avs_registration_digestHash"
    BY <1>10, <1>71, ProgramFields
<1>72. CASE m = "get_operators_for_operator_set"
    BY <1>11, <1>72, ProgramFields
<1>73. CASE m = "get_num_operators_for_operator_set"
    BY <1>12, <1>73, ProgramFields
<1>74. CASE m = "get_strategies_for_operator_set"
    BY <1>13, <1>74, ProgramFields
<1>75. CASE m = "is_operator_registered"
    BY <1>14, <1>75, ProgramFields
<1>76. CASE m = "get_staker_shares"
    BY <1>15, <1>76, ProgramFields
<1>77. CASE m = "get_delegated_operator"
    BY <1>16, <1>77, ProgramFields
<1>78. CASE m = "get_operator_details"
    BY <1>17, <1>78, ProgramFields
<1>79. CASE m = "get_operator_shares_in_strategy"
    BY <1>18, <1>79, ProgramFields
<1>80. CASE m = "calculate_delegation_approval_digest_hash"
    BY <1>19, <1>80, ProgramFields
<1>81. CASE m = "get_operator_shares"
    BY <1>20, <1>81, ProgramFields
<1>82. CASE m = "get_operators_shares"
    BY <1>21, <1>82, ProgramFields
<1>83. CASE m = "get_delegation_approver_salt_is_spent"
    BY <1>22, <1>83, ProgramFields
<1>84. CASE m = "get_pending_withdrawal_status"
    BY <1>23, <1>84, ProgramFields
<1>85. CASE m = "get_cumulative_withdrawals_queued"
    BY <1>24, <1>85, ProgramFields
<1>86. CASE m = "get_slashable_shares_for_operator_sets"
    BY <1>25, <1>86, ProgramFields
<1>87. CASE m = "can_call"
    BY <1>26, <1>87, ProgramFields
<1>88. CASE m = "list_appointees"
    BY <1>27, <1>88, ProgramFields
<1>89. CASE m = "list_appointee_permissions"
    BY <1>28, <1>89, ProgramFields
<1>90. CASE m = "list_pending_admins"
    BY <1>29, <1>90, ProgramFields
<1>91. CASE m = "list_admins"
    BY <1>30, <1>91, ProgramFields
<1>92. CASE m = "is_pending_admin"
    BY <1>31, <1>92, ProgramFields
<1>93. CASE m = "is_admin"
    BY <1>32, <1>93, ProgramFields
<1>94. CASE m = "get_distribution_roots_length"
    BY <1>33, <1>94, ProgramFields
<1>95. CASE m = "curr_rewards_calculation_end_timestamp"
    BY <1>34, <1>95, ProgramFields
<1>96. CASE m = "get_current_claimable_distribution_root"
    BY <1>35, <1>96, ProgramFields
<1>97. CASE m = "get_root_index_from_hash"
    BY <1>36, <1>97, ProgramFields
<1>98. CASE m = "get_cumulative_claimed"
    BY <1>37, <1>98, ProgramFields
<1>99. CASE m = "check_claim"
    BY <1>38, <1>99, ProgramFields
<1>100. CASE m = "get_operator_avs_split"
    BY <1>39, <1>100, ProgramFields
<1>101. CASE m = "get_operator_pi_split"
    BY <1>40, <1>101, ProgramFields
<1>102. CASE m = "get_operator_set_split"
    BY <1>41, <1>102, ProgramFields
<1>103. CASE m = "get_calculation_interval_seconds"
    BY <1>42, <1>103, ProgramFields
<1>104. CASE m = "get_max_rewards_duration"
    BY <1>43, <1>104, ProgramFields
<1>105. CASE m = "get_max_retroactive_length"
    BY <1>44, <1>105, ProgramFields
<1>106. CASE m = "get_max_future_length"
    BY <1>45, <1>106, ProgramFields
<1>107. CASE m = "get_genesis_rewards_timestamp"
    BY <1>46, <1>107, ProgramFields
<1>108. CASE m = "get_rewards_updater"
    BY <1>47, <1>108, ProgramFields
<1>109. CASE m = "GetActivationDelay"
    BY <1>48, <1>109, ProgramFields
<1>110. CASE m = "get_curr_rewards_calculation_end_timestamp"
    BY <1>49, <1>110, ProgramFields
<1>111. CASE m = "get_default_operator_split_bips"
    BY <1>50, <1>111, ProgramFields
<1>112. CASE m = "get_claimer_for"
    BY <1>51, <1>112, ProgramFields
<1>113. CASE m = "get_submission_nonce"
    BY <1>52, <1>113, ProgramFields
<1>114. CASE m = "get_is_avs_rewards_submission_hash"
    BY <1>53, <1>114, ProgramFields
<1>115. CASE m = "get_is_rewards_submission_for_all_hash"
    BY <1>54, <1>115, ProgramFields
<1>116. CASE m = "get_is_rewards_for_all_submitter"
    BY <1>55, <1>116, ProgramFields
<1>117. CASE m = "get_is_rewards_submission_for_all_earners_hash"
    BY <1>56, <1>117, ProgramFields
<1>118. CASE m = "get_is_operator_directed_avs_rewards_submission_hash"
    BY <1>57, <1>118, ProgramFields
<1>119. CASE m = "get_is_operator_directed_operator_set_rewards_submission_hash"
    BY <1>58, <1>119, ProgramFields
<1>120. CASE m = "get_strategy_and_underlying_erc20_token"
    BY <1>59, <1>120, ProgramFields
<1>121. QED
    BY <1>61, <1>62, <1>63, <1>64, <1>65, <1>66, <1>67, <1>68, <1>69, <1>70, <1>71,
       <1>72, <1>73, <1>74, <1>75, <1>76, <1>77, <1>78, <1>79, <1>80, <1>81,
       <1>82, <1>83, <1>84, <1>85, <1>86, <1>87, <1>88, <1>89, <1>90, <1>91,
       <1>92, <1>93, <1>94, <1>95, <1>96, <1>97, <1>98, <1>99, <1>100, <1>101,
       <1>102, <1>103, <1>104, <1>105, <1>106, <1>107, <1>108, <1>109, <1>110,
       <1>111, <1>112, <1>113, <1>114, <1>115, <1>116, <1>117, <1>118, <1>119,
       <1>120

\* is_operator_registered_with_operator_set reads the AVSDirectory or the
\* registered sets depending on the key; both are plain getters.
LEMMA KeyedFacts ==
    ASSUME NEW k
    PROVE  Facts("is_operator_registered_with_operator_set",
                 is_operator_registered_with_operator_set(k))
BY GetterFacts DEF is_operator_registered_with_operator_set

\* The program being run has the facts of its method.
LEMMA ProgFacts ==
    ASSUME method \in Called, key \in Keys
    PROVE  Facts(method, Prog)
<1>1. CASE method = "is_operator_registered_with_operator_set"
    BY <1>1, KeyedFacts DEF Prog, ProgramOf
<1>2. CASE method # "is_operator_registered_with_operator_set"
    <2>1. method \in DOMAIN Program
        BY <1>2, ELReaderAssumption DEF Methods
    <2>2. QED
        BY <1>2, <2>1, ProgramsFacts DEF Prog, ProgramOf
<1>3. QED
    BY <1>1, <1>2

-----------------------------------------------------------------------------
(***************************************************************************)
(* The invariant FailInv: until the method raises, every view call it     *)
(* made returned.                                                          *)
(***************************************************************************)
ReaderSteps ==
    UNION {{ProgramOf(p[1], p[2])[j] : j \in 1..Len(ProgramOf(p[1], p[2]))} : p \in Methods \X Keys}

StateAnswers == UNION {{s.registered, s.avsStatus, s.delay, s.claim, s.view} : s \in States}

CallRec == [fn: {st.fn : st \in ReaderSteps}, height: Nat, ok: BOOLEAN,
            value: StateAnswers \cup Nat \cup BOOLEAN]

TypeInv ==
    /\ chain \in Seq(States) /\ Height \in 1..MaxHeight
    /\ method \in Called /\ key \in Keys
    /\ status \in {"running", "returned", "raised"}
    /\ step \in Nat
    /\ calls \in Seq(CallRec)

FailInv == status # "raised" => \A c \in 1..Len(calls) : calls[c].ok

LEMMA InitTypeInv == Init => TypeInv
BY ELReaderAssumption DEF Init, TypeInv, Height

\* The record a view call appends is a CallRec.
LEMMA ViewCallRec ==
    ASSUME TypeInv, Running("read"), NEW ok \in BOOLEAN
    PROVE  [fn |-> Cur.fn, height |-> Height, ok |-> ok,
            value |-> IF ok THEN Answer(Cur.fn, Newest) ELSE FALSE] \in CallRec
<1>1. Cur \in ReaderSteps
    <2>1. <<method, key>> \in Methods \X Keys
        BY ELReaderAssumption DEF TypeInv
    <2>2. QED
        BY <2>1 DEF Running, Cur, Prog, ReaderSteps
<1>2. Newest \in States /\ Height \in Nat
    BY ElementOfSeq DEF TypeInv, Newest, Height
<1>3. Answer(Cur.fn, Newest) \in StateAnswers \cup Nat \cup BOOLEAN
    BY <1>2 DEF Answer, StateAnswers
<1>4. QED
    BY <1>1, <1>2, <1>3 DEF CallRec

\* A step that leaves the chain and the calls alone and moves status
\* within the three values keeps the type.
LEMMA QuietTypeInv ==
    ASSUME TypeInv, UNCHANGED <<chain, method, key, calls>>,
           status' \in {"running", "returned", "raised"}, step' \in Nat
    PROVE  TypeInv'
BY DEF TypeInv, Height

LEMMA NextTypeInv == TypeInv /\ [Next]_vars => TypeInv'
<1> SUFFICES ASSUME TypeInv, [Next]_vars PROVE TypeInv'
    OBVIOUS
<1>1. CASE ContractGuard \/ LegacyCheck \/ DelayCheck \/ LengthCheck \/ UndefinedGlobal
    BY <1>1, QuietTypeInv
       DEF ContractGuard, LegacyCheck, DelayCheck, LengthCheck, UndefinedGlobal,
           Running, TypeInv
<1>2. CASE Return
    BY <1>2, QuietTypeInv DEF Return, TypeInv
<1>3. CASE ViewCall
    <2>1. PICK ok \in Outcomes :
            calls' = Append(calls, [fn |-> Cur.fn, height |-> Height, ok |-> ok,
                                    value |-> IF ok THEN Answer(Cur.fn, Newest) ELSE FALSE])
        BY <1>3 DEF ViewCall
    <2>2. ok \in BOOLEAN
        BY <2>1, ELReaderAssumption DEF Outcomes
    <2>3. calls' \in Seq(CallRec)
        BY <1>3, <2>1, <2>2, ViewCallRec, AppendProperties DEF ViewCall, TypeInv
    <2>4. status' \in {"running", "returned", "raised"} /\ step' \in Nat
        BY <1>3, <2>1 DEF ViewCall, TypeInv
    <2>5. QED
        BY <1>3, <2>3, <2>4 DEF ViewCall, TypeInv, Height
<1>4. CASE Produce
    <2>1. PICK st \in States : chain' = Append(chain, st)
        BY <1>4 DEF Produce
    <2>2. chain' \in Seq(States) /\ Len(chain') = Len(chain) + 1
        BY <2>1, AppendProperties DEF TypeInv
    <2>3. Len(chain) < MaxHeight /\ Len(chain) \in Nat
        BY <1>4, LenProperties DEF Produce, Height, TypeInv
    <2>4. Height' \in 1..MaxHeight
        BY <2>2, <2>3, ELReaderAssumption DEF Height
    <2>5. UNCHANGED <<method, key, status, step, calls>>
        BY <1>4 DEF Produce
    <2>6. QED
        BY <2>2, <2>4, <2>5 DEF TypeInv
<1>5. CASE UNCHANGED vars
    BY <1>5 DEF vars, TypeInv, Height
<1>6. QED
    BY <1>1, <1>2, <1>3, <1>4, <1>5 DEF Next, Reader

\* The call a view-call step appends, and what it leaves of the others.
LEMMA ViewCallAppends ==
    ASSUME TypeInv, ViewCall
    PROVE  \E ok \in BOOLEAN :
             /\ Len(calls') = Len(calls) + 1
             /\ \A c \in 1..Len(calls) : calls'[c] = calls[c]
             /\ calls'[Len(calls) + 1].fn = Cur.fn
             /\ calls'[Len(calls) + 1].ok = ok
             /\ calls'[Len(calls) + 1].value = IF ok THEN Answer(Cur.fn, Newest) ELSE FALSE
             /\ IF ok THEN step' = step + 1 /\ UNCHANGED <<status, result>>
                ELSE IF Cur.onError = "raise" THEN status' = "raised" /\ UNCHANGED <<step, result>>
                ELSE status' = "returned" /\ result' = FALSE /\ UNCHANGED step
<1>1. PICK ok \in Outcomes :
        /\ calls' = Append(calls, [fn |-> Cur.fn, height |-> Height, ok |-> ok,
                                   value |-> IF ok THEN Answer(Cur.fn, Newest) ELSE FALSE])
        /\ IF ok THEN step' = step + 1 /\ UNCHANGED <<status, result>>
           ELSE IF Cur.onError = "raise" THEN status' = "raised" /\ UNCHANGED <<step, result>>
           ELSE status' = "returned" /\ result' = FALSE /\ UNCHANGED step
    BY DEF ViewCall
<1>2. ok \in BOOLEAN
    BY ELReaderAssumption DEF Outcomes
<1>3. DEFINE new == [fn |-> Cur.fn, height |-> Height, ok |-> ok,
                      value |-> IF ok THEN Answer(Cur.fn, Newest) ELSE FALSE]
<1>4. new \in CallRec
    BY <1>2, ViewCallRec DEF ViewCall
<1>5. /\ Len(calls') = Len(calls) + 1
      /\ \A c \in 1..Len(calls) : calls'[c] = calls[c]
      /\ calls'[Len(calls) + 1] = new
    BY <1>1, <1>4, AppendProperties DEF TypeInv
<1>6. /\ calls'[Len(calls) + 1].fn = Cur.fn
      /\ calls'[Len(calls) + 1].ok = ok
      /\ calls'[Len(calls) + 1].value = IF ok THEN Answer(Cur.fn, Newest) ELSE FALSE
    BY <1>5 DEF new
<1>7. QED
    BY <1>1, <1>2, <1>5, <1>6, Zenon

\* Until the method raises, every view call it made returned: the only
\* read step that catches a failure is check_claim's.
LEMMA NextFailInv ==
    ASSUME "check_claim" \notin Called, TypeInv, FailInv, [Next]_vars
    PROVE  FailInv'
<1>1. CASE /\ UNCHANGED calls /\ status = "running"
    BY <1>1 DEF FailInv
<1>2. CASE ViewCall
    <2>1. PICK ok \in BOOLEAN :
             /\ Len(calls') = Len(calls) + 1
             /\ \A c \in 1..Len(calls) : calls'[c] = calls[c]
             /\ calls'[Len(calls) + 1].ok = ok
             /\ IF ok THEN step' = step + 1 /\ UNCHANGED <<status, result>>
                ELSE IF Cur.onError = "raise" THEN status' = "raised" /\ UNCHANGED <<step, result>>
                ELSE status' = "returned" /\ result' = FALSE /\ UNCHANGED step
        BY <1>2, ViewCallAppends
    <2>2. status = "running" /\ Cur.kind = "read" /\ step \in 1..Len(Prog)
        BY <1>2 DEF ViewCall, Running
    <2>3. Cur.onError = "raise"
        BY <2>2, ProgFacts DEF TypeInv, Facts, ReadsRaise, Cur
    <2>4. \A c \in 1..Len(calls) : calls[c].ok
        BY <2>2 DEF FailInv
    <2>5. Len(calls) \in Nat
        BY LenProperties DEF TypeInv
    <2>6. QED
        BY <2>1, <2>3, <2>4, <2>5 DEF FailInv
<1>3. CASE Produce \/ UNCHANGED vars
    BY <1>3 DEF Produce, vars, FailInv
<1>4. QED
    <2>1. ContractGuard \/ LegacyCheck \/ DelayCheck \/ LengthCheck \/ UndefinedGlobal
            \/ Return => UNCHANGED calls /\ status = "running"
        BY DEF ContractGuard, LegacyCheck, DelayCheck, LengthCheck, UndefinedGlobal,
               Return, Running
    <2>2. QED
        BY <1>1, <1>2, <1>3, <2>1 DEF Next, Reader

\* A method starts with no call made.
LEMMA InitFailInv == Init => FailInv
BY DEF Init, FailInv

\* Spec 6 for every instance whose callers avoid check_claim: a method that
\* returns made only view calls that returned, so no failed call of a
\* getter is passed off as data.  check_claim itself turns a failed
\* CheckClaim call into False (reader.py), the finding of run check_claim.
THEOREM NoFailureAsDataThm ==
    ASSUME "check_claim" \notin Called
    PROVE  Spec => []NoFailureAsData
<1>1. Init => TypeInv /\ FailInv
    BY InitTypeInv, InitFailInv
<1>2. TypeInv /\ FailInv /\ [Next]_vars => (TypeInv /\ FailInv)'
    BY NextTypeInv, NextFailInv
<1>3. TypeInv /\ FailInv => NoFailureAsData
    BY DEF FailInv, NoFailureAsData
<1>4. QED
    BY <1>1, <1>2, <1>3, PTL DEF Spec

=============================================================================
