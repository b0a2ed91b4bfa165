--------------------------- MODULE SlashableShares ---------------------------
(***************************************************************************)
(* ELReader.get_slashable_shares_for_operator_sets_before                  *)
(* (src/tests/elreader/elreader.py) together with the two readers it       *)
(* calls, get_operators_for_operator_set and                               *)
(* get_strategies_for_operator_set.  For every operator set of the input   *)
(* list, in order, the code normalises and validates the dict, reads the   *)
(* members, reads the strategies and reads the minimum slashable stake     *)
(* matrix, and appends one snapshot; the first error of any kind ends the  *)
(* call with (None, error).  Each contract call is one step, and the chain *)
(* (module Ledger) may produce blocks between any two of them.             *)
(*                                                                         *)
(* An input dict is abstracted to the set it names and its form, the one   *)
(* property of the dict the validation tells apart:                        *)
(*   "ok"      keys "Id" and "Avs", Id # 0, Avs a well-formed address      *)
(*   "lowerId" as "ok" but the id is under the key "id"                    *)
(*   "noId"    neither "Id" nor "id";  "noAvs"  no "Avs" key               *)
(*   "legacy"  Id = 0;  "badAvs"  Avs that to_checksum_address rejects     *)
(***************************************************************************)
EXTENDS Ledger

CONSTANTS
    Forms,            \* the input forms the caller may pass
    MaxKeys,          \* bound on the length of the input list
    FutureBlock,      \* the caller's future_block argument
    CallCanFail,      \* whether a contract call may raise
    MalformedReplies, \* whether the node may return a short stake matrix
    NoEntry           \* marks a matrix cell the reply does not contain

AllForms == {"ok", "lowerId", "noId", "noAvs", "legacy", "badAvs"}

ASSUME SlashableSharesAssumption ==
    /\ Forms \subseteq AllForms
    /\ MaxKeys \in Nat
    /\ FutureBlock \in Nat
    /\ CallCanFail \in BOOLEAN
    /\ MalformedReplies \in BOOLEAN
    /\ NoEntry \notin Stakes

Entry == [set: OpSets, form: Forms \cup {"ok"}]

Matrix == [Operators \X Strategies -> Stakes \cup {NoEntry}]

Snapshot ==
    [set: OpSets, operators: SUBSET Operators,
     strategies: SUBSET Strategies, stakes: Matrix]

Fn == {"getMembers", "getStrategiesInOperatorSet", "getMinimumSlashableStake"}

\* A contract call issued by the reader (a history variable): the function,
\* the index of the input entry, the height it was evaluated at, the block
\* argument passed to it (0 when none) and whether it returned.
Call == [fn: Fn, key: Nat, height: Nat, block: Nat, ok: BOOLEAN]

Errors == {"noAllocationManager", "format", "legacy", "checksum", "call",
           "noOperators", "noStrategies", "stakeCall"}

VARIABLES
    keys,     \* the caller's list of operator_set dicts (mutated in place)
    allocMgr, \* whether self.allocation_manager is set
    pc,       \* where the call is
    i,        \* index of the operator set being processed
    ops,      \* operators read for keys[i]
    strats,   \* strategies read for keys[i]
    result,   \* operator_set_stakes, the snapshots appended so far
    err,      \* the error returned, or "none"
    calls     \* history of the contract calls issued

vars == <<chain, keys, allocMgr, pc, i, ops, strats, result, err, calls>>

Outcomes == IF CallCanFail THEN BOOLEAN ELSE {TRUE}

\* Issue a call of fn for keys[i] against the newest block.
Issue(fn, block, ok) ==
    calls' = Append(calls, [fn |-> fn, key |-> i, height |-> Height,
                            block |-> block, ok |-> ok])

\* return None, error
Fail(e) == pc' = "failed" /\ err' = e

\* What getMinimumSlashableStake(set, o, s, future_block) returns against
\* the newest block: one cell per requested (operator, strategy) pair.
StakeReply(o, s) ==
    [p \in Operators \X Strategies |->
        IF p \in o \X s THEN Newest.stake[p] ELSE NoEntry]

\* The replies the node may send: the right one, or (when it misbehaves)
\* one with a requested cell missing.
Replies(o, s) ==
    {StakeReply(o, s)} \cup
    IF MalformedReplies
    THEN {[StakeReply(o, s) EXCEPT ![p] = NoEntry] : p \in o \X s}
    ELSE {}

TypeOK ==
    /\ LedgerTypeOK
    /\ keys \in Seq(Entry) /\ Len(keys) <= MaxKeys
    /\ allocMgr \in BOOLEAN
    /\ pc \in {"start", "loop", "members", "strategies", "stake", "done", "failed"}
    /\ i \in 1..Len(keys) + 1
    /\ ops \in SUBSET Operators
    /\ strats \in SUBSET Strategies
    /\ result \in Seq(Snapshot)
    /\ err \in Errors \cup {"none"}
    /\ calls \in Seq(Call)

Init ==
    /\ LedgerInit
    /\ keys \in UNION {[1..n -> [set: OpSets, form: Forms]] : n \in 0..MaxKeys}
    /\ allocMgr \in BOOLEAN
    /\ pc = "start"
    /\ i = 1
    /\ ops = {}
    /\ strats = {}
    /\ result = <<>>
    /\ err = "none"
    /\ calls = <<>>

(***************************************************************************)
(* Mutants: plausible bugs in the code below, each of which one of the    *)
(* properties must catch.                                                  *)
(***************************************************************************)

\* The loop condition off by one: the last operator set is never processed.
ReturnStakesEarly ==
    /\ pc = "loop"
    /\ i >= Len(keys)
    /\ pc' = "done"
    /\ UNCHANGED <<chain, keys, allocMgr, i, ops, strats, result, err, calls>>

\* A failed stake call defaulted to zero stake instead of raised.
FetchSlashableStakeDefaulting ==
    /\ pc = "stake"
    /\ \E ok \in Outcomes :
         /\ Issue("getMinimumSlashableStake", FutureBlock, ok)
         /\ result' = Append(result,
                        [set |-> keys[i].set, operators |-> ops,
                         strategies |-> strats,
                         stakes |-> IF ok THEN StakeReply(ops, strats)
                                    ELSE [p \in Operators \X Strategies |->
                                            IF p \in ops \X strats
                                            THEN CHOOSE v \in Stakes : TRUE
                                            ELSE NoEntry]])
         /\ i' = i + 1
         /\ pc' = "loop"
         /\ UNCHANGED err
    /\ UNCHANGED <<chain, keys, allocMgr, ops, strats>>

\* The stake read against the block the call began at (a block number
\* cached before the loop) instead of the newest block.
FetchSlashableStakeAtFirstBlock ==
    /\ pc = "stake"
    /\ \E ok \in Outcomes :
         /\ Issue("getMinimumSlashableStake", FutureBlock, ok)
         /\ IF ~ok THEN Fail("stakeCall") /\ UNCHANGED <<i, result>>
            ELSE /\ result' = Append(result,
                                [set |-> keys[i].set, operators |-> ops,
                                 strategies |-> strats,
                                 stakes |-> [p \in Operators \X Strategies |->
                                               IF p \in ops \X strats
                                               THEN chain[1].stake[p] ELSE NoEntry]])
                 /\ i' = i + 1
                 /\ pc' = "loop"
                 /\ UNCHANGED err
    /\ UNCHANGED <<chain, keys, allocMgr, ops, strats>>

(* if self.allocation_manager is None: return None, ValueError(...) *)
CheckAllocationManager ==
    /\ pc = "start"
    /\ IF allocMgr THEN pc' = "loop" /\ UNCHANGED err
                   ELSE Fail("noAllocationManager")
    /\ UNCHANGED <<chain, keys, allocMgr, i, ops, strats, result, calls>>

(* Loop head for keys[i]: rename "id" to "Id" in the caller's dict, then  *)
(* reject a dict without "Id"/"Avs" and a legacy set (Id = 0).            *)
ValidateOperatorSet ==
    /\ pc = "loop"
    /\ i <= Len(keys)
    /\ LET form == IF keys[i].form = "lowerId" THEN "ok" ELSE keys[i].form
       IN /\ keys' = [keys EXCEPT ![i].form = form]
          /\ CASE form \in {"noId", "noAvs"} -> Fail("format")
               [] form = "legacy"            -> Fail("legacy")
               [] OTHER                      -> pc' = "members" /\ UNCHANGED err
    /\ UNCHANGED <<chain, allocMgr, i, ops, strats, result, calls>>

(* The loop ends: return operator_set_stakes, None. *)
ReturnStakes ==
    /\ pc = "loop"
    /\ i > Len(keys)
    /\ pc' = "done"
    /\ UNCHANGED <<chain, keys, allocMgr, i, ops, strats, result, err, calls>>

(* operators = self.get_operators_for_operator_set(operator_set):         *)
(* to_checksum_address, then getMembers at the newest block; an empty     *)
(* list is an error.                                                      *)
get_operators_for_operator_set ==
    /\ pc = "members"
    /\ \/ /\ keys[i].form = "badAvs"
          /\ Fail("checksum")
          /\ UNCHANGED <<ops, calls>>
       \/ /\ keys[i].form # "badAvs"
          /\ \E ok \in Outcomes :
               /\ Issue("getMembers", 0, ok)
               /\ IF ~ok THEN Fail("call") /\ UNCHANGED ops
                  ELSE /\ ops' = Newest.members[keys[i].set]
                       /\ IF ops' = {} THEN Fail("noOperators")
                          ELSE pc' = "strategies" /\ UNCHANGED err
    /\ UNCHANGED <<chain, keys, allocMgr, i, strats, result>>

(* strategies = self.get_strategies_for_operator_set(operator_set): its   *)
(* key, checksum and legacy checks repeat ones already passed; then       *)
(* getStrategiesInOperatorSet at the newest block; empty is an error.     *)
get_strategies_for_operator_set ==
    /\ pc = "strategies"
    /\ \E ok \in Outcomes :
         /\ Issue("getStrategiesInOperatorSet", 0, ok)
         /\ IF ~ok THEN Fail("call") /\ UNCHANGED strats
            ELSE /\ strats' = Newest.strategies[keys[i].set]
                 /\ IF strats' = {} THEN Fail("noStrategies")
                    ELSE pc' = "stake" /\ UNCHANGED err
    /\ UNCHANGED <<chain, keys, allocMgr, i, ops, result>>

(* getMinimumSlashableStake(set, operators, strategies, future_block);    *)
(* a raise becomes "Failed to fetch slashable shares", a reply is stored  *)
(* as it is with the lists, and the loop moves to the next set.           *)
FetchSlashableStake ==
    /\ pc = "stake"
    /\ \E ok \in Outcomes :
         /\ Issue("getMinimumSlashableStake", FutureBlock, ok)
         /\ IF ~ok THEN Fail("stakeCall") /\ UNCHANGED <<i, result>>
            ELSE \E reply \in Replies(ops, strats) :
                   /\ result' = Append(result,
                                  [set |-> keys[i].set, operators |-> ops,
                                   strategies |-> strats, stakes |-> reply])
                   /\ i' = i + 1
                   /\ pc' = "loop"
                   /\ UNCHANGED err
    /\ UNCHANGED <<chain, keys, allocMgr, ops, strats>>

Reader ==
    \/ CheckAllocationManager
    \/ ValidateOperatorSet
    \/ ReturnStakes
    \/ get_operators_for_operator_set
    \/ get_strategies_for_operator_set
    \/ FetchSlashableStake

Environment ==
    /\ Produce
    /\ UNCHANGED <<keys, allocMgr, pc, i, ops, strats, result, err, calls>>

Next == Reader \/ Environment

\* The reader is a sequential loop of blocking calls: it keeps going as long
\* as it has not returned.  The chain owes it nothing.
Spec == Init /\ [][Next]_vars /\ WF_vars(Reader)

-----------------------------------------------------------------------------
(***************************************************************************)
(* Properties                                                              *)
(***************************************************************************)

\* The snapshot the ledger state at height h gives for operator set s.
ViewAt(h, s) ==
    [set |-> s, operators |-> chain[h].members[s],
     strategies |-> chain[h].strategies[s],
     stakes |-> [p \in Operators \X Strategies |->
                   IF p \in chain[h].members[s] \X chain[h].strategies[s]
                   THEN chain[h].stake[p] ELSE NoEntry]]

\* Spec 4.4 step 4: a successful call returns one snapshot per input
\* operator set, in input order, none dropped or duplicated, although the
\* loop rewrites the caller's dicts and can stop at any set.
ResultFollowsInput ==
    pc = "done" =>
        /\ Len(result) = Len(keys)
        /\ \A j \in 1..Len(result) : result[j].set = keys[j].set

\* Spec 7: a contract call that raised is never turned into data; a call
\* that returns its snapshots issued no call that failed.
FailuresSurface ==
    pc = "done" => \A c \in 1..Len(calls) : calls[c].ok

\* Spec 3: every snapshot of one result reflects the same point-in-time
\* view of the ledger, the members, strategies and stakes of one height.
SinglePointInTime ==
    pc = "done" =>
        \E h \in 1..Height :
            \A j \in 1..Len(result) : result[j] = ViewAt(h, result[j].set)

\* Spec 4.4 step 1 and 8: an invalid operator set in the input is rejected
\* before any contract call is issued.
ValidateBeforeAnyCall ==
    err \in {"format", "legacy", "checksum"} => calls = <<>>

\* Spec 4.4 (zero-member law): an operator set with no operators or no
\* strategies yields a snapshot with an empty stake map, not an error.
EmptySetIsNotAnError ==
    err \notin {"noOperators", "noStrategies"}

\* Spec 4.3: every returned stake matrix has exactly one cell per
\* requested (operator, strategy) pair; a short reply is ShapeMismatch.
StakeShapeMatches ==
    \A j \in 1..Len(result) :
        {p \in Operators \X Strategies : result[j].stakes[p] # NoEntry}
            = result[j].operators \X result[j].strategies


(***************************************************************************)
(* Refinement: the loop implements the one-step promise of AggregateSpec.  *)
(* The caller's list maps to the sets it names (the in-place rename keeps  *)
(* them); pc maps to the outcome, and a returned result to the snapshots.  *)
(***************************************************************************)
Aggregate == INSTANCE AggregateSpec
    WITH input <- [j \in 1..Len(keys) |-> keys[j].set],
         outcome <- CASE pc = "done"   -> "returned"
                      [] pc = "failed" -> "failed"
                      [] OTHER         -> "pending",
         snapshots <- IF pc = "done" THEN result ELSE <<>>

\* Spec 4.4: whatever the chain does between the calls, a returned result is
\* one snapshot per input set whose members, strategies and stakes were read
\* in that order at heights that never go back, within each set and from
\* one set to the next; the reader implements AggregateSpec.
ImplementsAggregate == Aggregate!ASpec

=============================================================================
