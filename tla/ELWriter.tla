------------------------------ MODULE ELWriter ------------------------------
(***************************************************************************)
(* ELWriter (src/eigensdk/chainio/clients/elcontracts/writer.py).  Every   *)
(* write method is the same short program of steps, each in its own       *)
(* try/except that re-raises as ValueError:                                *)
(*   check a contract handle for None,                                     *)
(*   tx_opts = self.tx_mgr.GetNoSendTxOpts(),                              *)
(*   tx = contract.functions.F(...).transact(tx_opts),                     *)
(*   receipt = self.tx_mgr.Send(ctx, tx, wait_for_receipt).                *)
(* web3's transact() hands the transaction to the node (it is broadcast    *)
(* there, whatever the comments say), so a step that fails after it leaves *)
(* a transaction behind.  Each method is modelled as the sequence of its   *)
(* steps (its "program"); one action per kind of step runs them.  The      *)
(* caller may invoke the method again after it raised (a retry).           *)
(*                                                                         *)
(* Several attributes the methods read are never set by __init__           *)
(* (self.tx_mgr, self.elChainReader, ...); Python lets a caller assign     *)
(* them afterwards, as the test fixtures do for tx_mgr.  Injected is the   *)
(* set of such attributes the caller has assigned.                         *)
(***************************************************************************)
EXTENDS Naturals, Sequences, FiniteSets

CONSTANTS
    Provided,      \* the contract handles passed to __init__ that are not None
    Injected,      \* attributes __init__ never sets that the caller assigned
    Called,        \* the methods the caller may invoke
    MaxAttempts,   \* how many times the caller may invoke it (retries + 1)
    CallsCanFail,  \* whether a collaborator call (node, tx manager) may raise
    LostResponses  \* whether transact() may raise after the node accepted the tx

Handles == {"allocation_manager", "delegation_manager", "permissioncontrol",
            "reward_cordinator", "strategy_manager"}

Attrs == {"tx_mgr", "elChainReader", "strategy_manager_addr",
          "NewRemovePermissionTx", "NewSetPermissionTx", "NewAcceptAdminTx",
          "NewRemovePendingAdminTx"}

(***************************************************************************)
(* The kinds of step.  need is the handle or attribute the step reads      *)
(* ("-" for none), fn the contract function a transact step calls.         *)
(***************************************************************************)
Step(kind, need, fn) == [kind |-> kind, need |-> need, fn |-> fn]

CheckHandle(h) == Step("guard", h, "-")    \* if self.h is None: raise
NoSendOpts == Step("opts", "tx_mgr", "-")   \* self.tx_mgr.GetNoSendTxOpts()
Via(a) == Step("call", a, "-")              \* a collaborator call through self.a
Alias(a) == Step("alias", a, "-")           \* self.a(...) names a method the class lacks
UndefinedName == Step("undefined", "-", "-") \* a global never defined or imported
NonEmptyClaims == Step("require", "-", "-") \* if not claims: raise
Build(f) == Step("transact", "-", f)        \* contract.functions.f(...).transact(opts)
BuildVia(f, a) == Step("transact", a, f)    \* the same, with self.a among the arguments
SendTx == Step("send", "tx_mgr", "-")       \* self.tx_mgr.Send(ctx, tx, wait)
ReadReceipt == Step("receipt", "-", "-")    \* receipt.txHash, outside any try

(***************************************************************************)
(* The programs of the write methods, in source order.                     *)
(***************************************************************************)
modify_allocations ==
    <<CheckHandle("allocation_manager"), NoSendOpts, Build("ModifyAllocations"), SendTx>>
clear_deallocation_queue ==
    <<CheckHandle("allocation_manager"), NoSendOpts, Build("ClearDeallocationQueue"), SendTx>>
set_allocation_delay ==
    <<CheckHandle("allocation_manager"), NoSendOpts, Build("SetAllocationDelay"), SendTx>>
deregister_from_operator_sets ==
    <<CheckHandle("allocation_manager"), NoSendOpts, Build("DeregisterFromOperatorSets"), SendTx>>
\* getPubkeyRegistrationParams, AbiEncodeRegistrationParams and
\* RegistrationTypeNormal are neither defined nor imported: NameError.
register_for_operator_sets ==
    <<CheckHandle("allocation_manager"), NoSendOpts, UndefinedName, UndefinedName,
      Build("RegisterForOperatorSets"), SendTx>>
update_operator_details ==
    <<CheckHandle("delegation_manager"), NoSendOpts, Build("ModifyOperatorDetails"), SendTx,
      ReadReceipt>>
update_meta_data_uri ==
    <<CheckHandle("delegation_manager"), NoSendOpts, Build("UpdateOperatorMetadataURI"),
      SendTx, ReadReceipt>>
register_as_operator ==
    <<CheckHandle("delegation_manager"), NoSendOpts, Build("RegisterAsOperator"), SendTx,
      ReadReceipt>>
new_remove_permission_tx == <<CheckHandle("permissioncontrol"), Build("RemoveAppointee")>>
new_set_permission_tx == <<CheckHandle("permissioncontrol"), Build("SetAppointee")>>
new_accept_admin_tx == <<CheckHandle("permissioncontrol"), Build("AcceptAdmin")>>
new_add_pending_admin_tx == <<CheckHandle("permissioncontrol"), Build("AddPendingAdmin")>>
new_remove_admin_tx == <<CheckHandle("permissioncontrol"), Build("RemoveAdmin")>>
new_remove_pending_admin_tx == <<CheckHandle("permissioncontrol"), Build("RemovePendingAdmin")>>
\* These call self.NewXTx, which the class does not define; once a caller
\* binds it (to the matching new_x_tx) the body of that method runs.
remove_permission ==
    <<NoSendOpts, Alias("NewRemovePermissionTx")>> \o new_remove_permission_tx \o <<SendTx>>
set_permission ==
    <<NoSendOpts, Alias("NewSetPermissionTx")>> \o new_set_permission_tx \o <<SendTx>>
accept_admin ==
    <<NoSendOpts, Alias("NewAcceptAdminTx")>> \o new_accept_admin_tx \o <<SendTx>>
remove_pending_admin ==
    <<NoSendOpts, Alias("NewRemovePendingAdminTx")>> \o new_remove_pending_admin_tx \o <<SendTx>>
set_claimer_for ==
    <<CheckHandle("reward_cordinator"), NoSendOpts, Build("SetClaimerFor"), SendTx>>
process_claim ==
    <<CheckHandle("reward_cordinator"), NoSendOpts, Build("ProcessClaim"), SendTx>>
set_operator_avs_split ==
    <<CheckHandle("reward_cordinator"), NoSendOpts, Build("SetOperatorAVSSplit"), SendTx>>
set_operator_pi_split ==
    <<CheckHandle("reward_cordinator"), NoSendOpts, Build("SetOperatorPISplit"), SendTx>>
set_operator_set_split ==
    <<CheckHandle("reward_cordinator"), NoSendOpts, Build("SetOperatorSetSplit"), SendTx>>
process_claims ==
    <<CheckHandle("reward_cordinator"), NonEmptyClaims, NoSendOpts, Build("ProcessClaims"),
      SendTx>>
\* A plausible bug: the approval is broadcast without waiting for it.
DepositWithoutWaiting ==
    <<CheckHandle("strategy_manager"), NoSendOpts, Via("elChainReader"),
      BuildVia("Approve", "strategy_manager_addr"),
      Build("DepositIntoStrategy"), SendTx>>

\* Approve the strategy manager, wait for it, then deposit.
deposit_erc20_into_strategy ==
    <<CheckHandle("strategy_manager"), NoSendOpts, Via("elChainReader"),
      BuildVia("Approve", "strategy_manager_addr"), SendTx,
      Build("DepositIntoStrategy"), SendTx>>

Program ==
    [modify_allocations |-> modify_allocations,
     clear_deallocation_queue |-> clear_deallocation_queue,
     set_allocation_delay |-> set_allocation_delay,
     deregister_from_operator_sets |-> deregister_from_operator_sets,
     register_for_operator_sets |-> register_for_operator_sets,
     update_operator_details |-> update_operator_details,
     update_meta_data_uri |-> update_meta_data_uri,
     register_as_operator |-> register_as_operator,
     remove_permission |-> remove_permission,
     new_remove_permission_tx |-> new_remove_permission_tx,
     new_set_permission_tx |-> new_set_permission_tx,
     set_permission |-> set_permission,
     new_accept_admin_tx |-> new_accept_admin_tx,
     accept_admin |-> accept_admin,
     new_add_pending_admin_tx |-> new_add_pending_admin_tx,
     new_remove_admin_tx |-> new_remove_admin_tx,
     new_remove_pending_admin_tx |-> new_remove_pending_admin_tx,
     remove_pending_admin |-> remove_pending_admin,
     set_claimer_for |-> set_claimer_for,
     process_claim |-> process_claim,
     set_operator_avs_split |-> set_operator_avs_split,
     set_operator_pi_split |-> set_operator_pi_split,
     set_operator_set_split |-> set_operator_set_split,
     process_claims |-> process_claims,
     deposit_erc20_into_strategy |-> deposit_erc20_into_strategy]

ASSUME ELWriterAssumption ==
    /\ Provided \subseteq Handles
    /\ Injected \subseteq Attrs
    /\ Called \subseteq DOMAIN Program /\ Called # {}
    /\ MaxAttempts \in Nat \ {0}
    /\ CallsCanFail \in BOOLEAN
    /\ LostResponses \in BOOLEAN

\* A transaction the node accepted: the attempt that broadcast it and the
\* contract function.  Accepted transactions cannot be recalled.
Tx == [attempt: Nat, fn: STRING]

VARIABLES
    method,      \* the method the caller invokes
    claimsEmpty, \* the caller passes an empty claims list (process_claims)
    attempt,     \* how many times it has been invoked so far
    status,      \* "idle", "running", "returned" or "raised"
    step,        \* index of the next step of Program[method]
    tx,          \* index in pool of the local variable tx (0: unassigned)
    pool,        \* every transaction the node accepted, in order
    confirmed    \* indices in pool of the transactions Send returned for

vars == <<method, claimsEmpty, attempt, status, step, tx, pool, confirmed>>

Prog == Program[method]

Cur == Prog[step]

Outcomes == IF CallsCanFail THEN BOOLEAN ELSE {TRUE}

Advance == step' = step + 1

Raise == status' = "raised"

TypeOK ==
    /\ method \in Called
    /\ claimsEmpty \in BOOLEAN
    /\ attempt \in 0..MaxAttempts
    /\ status \in {"idle", "running", "returned", "raised"}
    /\ step \in Nat
    /\ pool \in Seq(Tx)
    /\ tx \in 0..Len(pool)
    /\ confirmed \subseteq 1..Len(pool)

Init ==
    /\ method \in Called
    /\ claimsEmpty \in BOOLEAN
    /\ attempt = 0
    /\ status = "idle"
    /\ step = 0
    /\ tx = 0
    /\ pool = <<>>
    /\ confirmed = {}

(***************************************************************************)
(* Plausible bugs, used to check that the properties can fail.             *)
(***************************************************************************)
\* Return one step too early: the last step is skipped.
ReturnEarly ==
    /\ status = "running"
    /\ step >= Len(Prog)
    /\ status' = "returned"
    /\ UNCHANGED <<method, claimsEmpty, attempt, step, tx, pool, confirmed>>

(***************************************************************************)
(* The caller and the steps.                                               *)
(***************************************************************************)
\* The caller invokes the method: first time, or again after it raised.
Invoke ==
    /\ status \in {"idle", "raised"}
    /\ attempt < MaxAttempts
    /\ attempt' = attempt + 1
    /\ status' = "running"
    /\ step' = 1
    /\ tx' = 0
    /\ UNCHANGED <<method, claimsEmpty, pool, confirmed>>

\* Every step below is taken while running, on the step step points at.
Running(kind) == status = "running" /\ step \in 1..Len(Prog) /\ Cur.kind = kind

\* if self.<handle> is None: raise ValueError("... contract not provided")
ContractGuard ==
    /\ Running("guard")
    /\ IF Cur.need \in Provided THEN Advance /\ UNCHANGED status ELSE Raise /\ UNCHANGED step
    /\ UNCHANGED <<method, claimsEmpty, attempt, tx, pool, confirmed>>

\* A collaborator call through an attribute (self.tx_mgr.GetNoSendTxOpts(),
\* self.elChainReader.GetStrategyAndUnderlyingERC20Token(...)): an
\* AttributeError when the attribute was never assigned, else the
\* collaborator may raise; either is re-raised as ValueError.
CollaboratorCall ==
    /\ Running("opts") \/ Running("call")
    /\ \E ok \in Outcomes :
         IF Cur.need \in Injected /\ ok THEN Advance /\ UNCHANGED status
         ELSE Raise /\ UNCHANGED step
    /\ UNCHANGED <<method, claimsEmpty, attempt, tx, pool, confirmed>>

\* tx = self.NewXTx(tx_opts, request): fails unless the caller bound it.
BoundMethod ==
    /\ Running("alias")
    /\ IF Cur.need \in Injected THEN Advance /\ UNCHANGED status ELSE Raise /\ UNCHANGED step
    /\ UNCHANGED <<method, claimsEmpty, attempt, tx, pool, confirmed>>

\* A name that is neither defined nor imported: NameError, re-raised.
UndefinedGlobal ==
    /\ Running("undefined")
    /\ Raise
    /\ UNCHANGED <<method, claimsEmpty, attempt, step, tx, pool, confirmed>>

\* process_claims: if not claims: raise ValueError("claims is empty ...")
RequireClaims ==
    /\ Running("require")
    /\ IF claimsEmpty THEN Raise /\ UNCHANGED step ELSE Advance /\ UNCHANGED status
    /\ UNCHANGED <<method, claimsEmpty, attempt, tx, pool, confirmed>>

\* tx = contract.functions.F(...).transact(tx_opts).  Building the call may
\* read an unassigned attribute; otherwise the node rejects the transaction
\* (nothing is broadcast), accepts it (tx is its hash), or accepts it and
\* the answer is lost (the call raises, the transaction is out).
Transact ==
    /\ Running("transact")
    /\ LET sent == Append(pool, [attempt |-> attempt, fn |-> Cur.fn]) IN
       IF Cur.need # "-" /\ Cur.need \notin Injected
       THEN Raise /\ UNCHANGED <<step, tx, pool>>
       ELSE \/ pool' = sent /\ tx' = Len(sent) /\ Advance /\ UNCHANGED status
            \/ CallsCanFail /\ Raise /\ UNCHANGED <<step, tx, pool>>
            \/ LostResponses /\ pool' = sent /\ Raise /\ UNCHANGED <<step, tx>>
    /\ UNCHANGED <<method, claimsEmpty, attempt, confirmed>>

\* receipt = self.tx_mgr.Send(ctx, tx, wait_for_receipt); a raise is
\* re-raised as "failed to send tx".
Send ==
    /\ Running("send")
    /\ \E ok \in Outcomes :
         IF ok THEN confirmed' = confirmed \cup {tx} /\ Advance /\ UNCHANGED status
         ELSE Raise /\ UNCHANGED <<step, confirmed>>
    /\ UNCHANGED <<method, claimsEmpty, attempt, tx, pool>>

\* self.logger.info(f"... txHash: {receipt.txHash} ..."), outside the try:
\* raises (AttributeError) when the tx manager's receipt has no txHash.
LogReceipt ==
    /\ Running("receipt")
    /\ \E ok \in Outcomes :
         IF ok THEN Advance /\ UNCHANGED status ELSE Raise /\ UNCHANGED step
    /\ UNCHANGED <<method, claimsEmpty, attempt, tx, pool, confirmed>>

\* return receipt (or tx): the last step is done.
Return ==
    /\ status = "running"
    /\ step = Len(Prog) + 1
    /\ status' = "returned"
    /\ UNCHANGED <<method, claimsEmpty, attempt, step, tx, pool, confirmed>>

Writer ==
    \/ ContractGuard \/ CollaboratorCall \/ BoundMethod \/ UndefinedGlobal
    \/ RequireClaims \/ Transact \/ Send \/ LogReceipt \/ Return

Next == Invoke \/ Writer

\* A running method keeps executing: each step is a blocking call that
\* returns or raises.  The caller owes no retry.
Spec == Init /\ [][Next]_vars /\ WF_vars(Writer)

-----------------------------------------------------------------------------
(***************************************************************************)
(* Properties                                                              *)
(***************************************************************************)

\* The indices in pool of the transactions broadcast by attempt a.
SentBy(a) == {p \in 1..Len(pool) : pool[p].attempt = a}

\* deposit_erc20_into_strategy broadcasts the deposit only after the
\* tx manager returned for the approval: within one invocation, a
\* transaction is broadcast only when every earlier one was confirmed.
NextTxAfterConfirmation ==
    \A p, q \in 1..Len(pool) :
        (p < q /\ pool[p].attempt = pool[q].attempt) => p \in confirmed

\* The program hands a transaction to the tx manager (a write method; the
\* new_*_tx builders return the transaction to their caller instead).
Sends(P) == \E s \in 1..Len(P) : P[s].kind = "send"

\* A write method that returns has had Send return for every transaction it
\* broadcast, and broadcast one per transact step of its program.
ReturnedMeansConfirmed ==
    status = "returned" /\ Sends(Prog) =>
        /\ SentBy(attempt) \subseteq confirmed
        /\ Cardinality(SentBy(attempt))
             = Cardinality({s \in 1..Len(Prog) : Prog[s].kind = "transact"})

\* writer.py's comments say transact() creates and signs the transaction
\* and Send sends it ("failed to send tx"): a write that raised has left no
\* transaction of its own on the node, so the caller may retry it.
RaisedCallLeftNoTx == status = "raised" => SentBy(attempt) = {}

\* A writer built by ELWriter.__init__ with every contract handle, whose
\* node and tx manager never fail, raises only for an empty claims list.
ConstructedWriterWrites == status = "raised" => Cur.kind = "require"

=============================================================================
