------------------------ MODULE SlashableSharesProofs ------------------------
(***************************************************************************)
(* Proofs about SlashableShares for every value of the constants that      *)
(* satisfies LedgerAssumption and SlashableSharesAssumption.               *)
(***************************************************************************)
EXTENDS SlashableShares, SequenceTheorems, TLAPS

USE LedgerAssumption, SlashableSharesAssumption

-----------------------------------------------------------------------------
(* Facts about the helpers the actions are built from.                    *)

\* The newest block is a ledger state whenever the chain is well typed.
LEMMA NewestType ==
    ASSUME LedgerTypeOK
    PROVE  Newest \in LedgerState
BY DEF LedgerTypeOK, Newest, Height

\* Every reply the node may send is a stake matrix.
LEMMA RepliesType ==
    ASSUME Newest \in LedgerState,
           NEW o \in SUBSET Operators, NEW s \in SUBSET Strategies
    PROVE  Replies(o, s) \subseteq Matrix
<1>1. StakeReply(o, s) \in Matrix
    BY DEF StakeReply, Matrix, LedgerState
<1>2. \A p \in o \X s : [StakeReply(o, s) EXCEPT ![p] = NoEntry] \in Matrix
    BY <1>1 DEF Matrix
<1>3. QED
    BY <1>1, <1>2 DEF Replies

\* A call record issued by Issue is a Call.
LEMMA IssueType ==
    ASSUME TypeOK, NEW fn \in Fn, NEW b \in Nat, NEW ok \in BOOLEAN,
           Issue(fn, b, ok)
    PROVE  calls' \in Seq(Call)
<1>1. [fn |-> fn, key |-> i, height |-> Height, block |-> b, ok |-> ok] \in Call
    BY DEF TypeOK, Call, Height, LedgerTypeOK
<1>2. QED
    BY <1>1, AppendProperties DEF Issue, TypeOK

-----------------------------------------------------------------------------
(* Type correctness.  TypeOK alone is not inductive: a step at "members", *)
(* "strategies" or "stake" reads keys[i], which is an Entry only while i   *)
(* indexes the input list.  TypeInv adds that fact.                        *)

Busy == {"members", "strategies", "stake"}

TypeInv ==
    /\ TypeOK
    /\ pc \in Busy => i \in 1..Len(keys)

LEMMA InitTypeInv == Init => TypeInv
<1> SUFFICES ASSUME Init PROVE TypeInv
    OBVIOUS
<1>1. LedgerTypeOK
    BY DEF Init, LedgerInit, LedgerTypeOK, Height
<1>2. PICK n \in 0..MaxKeys : keys \in [1..n -> [set: OpSets, form: Forms]]
    BY DEF Init
<1>3. keys \in Seq(Entry)
    <2>1. keys \in [1..n -> Entry]
        BY <1>2 DEF Entry
    <2>2. QED
        BY <2>1, SeqDef
<1>4. Len(keys) = n
    BY <1>2, <1>3, LenProperties
<1>5. QED
    BY <1>1, <1>3, <1>4 DEF Init, TypeInv, TypeOK, Busy

LEMMA NextTypeInv == TypeInv /\ [Next]_vars => TypeInv'
<1> SUFFICES ASSUME TypeInv, [Next]_vars PROVE TypeInv'
    OBVIOUS
<1> USE DEF TypeInv, TypeOK, LedgerTypeOK, Height, Busy, Errors
<1>0. Newest \in LedgerState
    BY NewestType DEF TypeInv, TypeOK
<1>1. CASE CheckAllocationManager
    BY <1>1 DEF CheckAllocationManager, Fail, TypeInv, TypeOK, Errors, Busy
<1>2. CASE ValidateOperatorSet
    <2> DEFINE form == IF keys[i].form = "lowerId" THEN "ok" ELSE keys[i].form
    <2>1. i \in 1..Len(keys)
        BY <1>2 DEF ValidateOperatorSet, TypeInv, TypeOK
    <2>2. [keys[i] EXCEPT !.form = form] \in Entry
        <3>1. keys[i] \in Entry
            BY <2>1, ElementOfSeq
        <3>2. QED
            BY <3>1 DEF Entry, form
    <2>3. keys' = [keys EXCEPT ![i] = [keys[i] EXCEPT !.form = form]]
        BY <1>2 DEF ValidateOperatorSet
    <2>4. keys' \in Seq(Entry) /\ Len(keys') = Len(keys)
        BY <2>1, <2>2, <2>3, ExceptSeq DEF TypeInv, TypeOK
    <2>5. pc' \in {"members", "failed"} /\ err' \in Errors \cup {"none"}
        BY <1>2 DEF ValidateOperatorSet, Fail, Errors, TypeInv, TypeOK
    <2>6. QED
        BY <1>2, <2>1, <2>4, <2>5
        DEF ValidateOperatorSet, TypeInv, TypeOK, LedgerTypeOK, Height, Busy
<1>3. CASE ReturnStakes
    BY <1>3 DEF ReturnStakes, TypeInv, TypeOK, Busy
<1>4. CASE get_operators_for_operator_set
    <2>1. i \in 1..Len(keys) /\ keys[i] \in Entry
        BY <1>4, ElementOfSeq DEF get_operators_for_operator_set, TypeInv, TypeOK, Busy
    <2>2. Newest.members[keys[i].set] \in SUBSET Operators
        BY <1>0, <2>1 DEF LedgerState, Entry
    <2>3. CASE keys[i].form = "badAvs"
        BY <1>4, <2>3 DEF get_operators_for_operator_set, Fail, TypeInv, TypeOK, Errors, Busy
    <2>4. CASE keys[i].form # "badAvs"
        <3>1. PICK ok \in Outcomes :
                /\ Issue("getMembers", 0, ok)
                /\ IF ~ok THEN Fail("call") /\ UNCHANGED ops
                   ELSE /\ ops' = Newest.members[keys[i].set]
                        /\ IF ops' = {} THEN Fail("noOperators")
                           ELSE pc' = "strategies" /\ UNCHANGED err
            BY <1>4, <2>4 DEF get_operators_for_operator_set
        <3>2. calls' \in Seq(Call)
            BY <3>1, IssueType DEF Outcomes, Fn, TypeInv
        <3>3. QED
            BY <1>4, <2>1, <2>2, <3>1, <3>2
            DEF get_operators_for_operator_set, Fail, TypeInv, TypeOK, Errors, Busy
    <2>5. QED
        BY <2>3, <2>4
<1>5. CASE get_strategies_for_operator_set
    <2>1. i \in 1..Len(keys) /\ keys[i] \in Entry
        BY <1>5, ElementOfSeq DEF get_strategies_for_operator_set, TypeInv, TypeOK, Busy
    <2>2. Newest.strategies[keys[i].set] \in SUBSET Strategies
        BY <1>0, <2>1 DEF LedgerState, Entry
    <2>3. PICK ok \in Outcomes :
            /\ Issue("getStrategiesInOperatorSet", 0, ok)
            /\ IF ~ok THEN Fail("call") /\ UNCHANGED strats
               ELSE /\ strats' = Newest.strategies[keys[i].set]
                    /\ IF strats' = {} THEN Fail("noStrategies")
                       ELSE pc' = "stake" /\ UNCHANGED err
        BY <1>5 DEF get_strategies_for_operator_set
    <2>4. calls' \in Seq(Call)
        BY <2>3, IssueType DEF Outcomes, Fn, TypeInv
    <2>5. QED
        BY <1>5, <2>1, <2>2, <2>3, <2>4
        DEF get_strategies_for_operator_set, Fail, TypeInv, TypeOK, Errors, Busy
<1>6. CASE FetchSlashableStake
    <2>1. i \in 1..Len(keys) /\ keys[i] \in Entry
        BY <1>6, ElementOfSeq DEF FetchSlashableStake, TypeInv, TypeOK, Busy
    <2>2. PICK ok \in Outcomes :
            /\ Issue("getMinimumSlashableStake", FutureBlock, ok)
            /\ IF ~ok THEN Fail("stakeCall") /\ UNCHANGED <<i, result>>
               ELSE \E reply \in Replies(ops, strats) :
                      /\ result' = Append(result,
                                     [set |-> keys[i].set, operators |-> ops,
                                      strategies |-> strats, stakes |-> reply])
                      /\ i' = i + 1
                      /\ pc' = "loop"
                      /\ UNCHANGED err
        BY <1>6 DEF FetchSlashableStake
    <2>3. calls' \in Seq(Call)
        BY <2>2, IssueType DEF Outcomes, Fn, TypeInv
    <2>4. CASE ~ok
        BY <1>6, <2>1, <2>2, <2>3, <2>4
        DEF FetchSlashableStake, Fail, TypeInv, TypeOK, Errors, Busy
    <2>5. CASE ok
        <3>1. PICK reply \in Replies(ops, strats) :
                 /\ result' = Append(result,
                                [set |-> keys[i].set, operators |-> ops,
                                 strategies |-> strats, stakes |-> reply])
                 /\ i' = i + 1
                 /\ pc' = "loop"
                 /\ UNCHANGED err
            BY <2>2, <2>5
        <3>2. reply \in Matrix
            BY <1>0, RepliesType DEF TypeInv, TypeOK
        <3>3. result' \in Seq(Snapshot)
            BY <2>1, <3>1, <3>2, AppendProperties DEF TypeInv, TypeOK, Snapshot, Entry
        <3>4. QED
            BY <1>6, <2>1, <2>3, <3>1, <3>3
            DEF FetchSlashableStake, TypeInv, TypeOK, Busy
    <2>6. QED
        BY <2>4, <2>5
<1>7. CASE Environment
    <2>1. PICK s \in LedgerStates : chain' = Append(chain, s)
        BY <1>7 DEF Environment, Produce
    <2>2. chain' \in Seq(LedgerStates) /\ Len(chain') = Len(chain) + 1
        BY <2>1, AppendProperties DEF TypeInv, TypeOK, LedgerTypeOK
    <2>3. QED
        BY <1>7, <2>2 DEF Environment, Produce, TypeInv, TypeOK, LedgerTypeOK, Height
<1>8. CASE UNCHANGED vars
    BY <1>8 DEF vars, TypeInv, TypeOK, LedgerTypeOK, Height, Busy
<1>9. QED
    BY <1>1, <1>2, <1>3, <1>4, <1>5, <1>6, <1>7, <1>8 DEF Next, Reader

\* Every reachable state is well typed.
THEOREM TypeCorrect == Spec => []TypeOK
<1>1. TypeInv => TypeOK
    BY DEF TypeInv
<1>2. QED
    BY InitTypeInv, NextTypeInv, <1>1, PTL DEF Spec

-----------------------------------------------------------------------------
(* The result follows the input.  The inductive invariant says that the   *)
(* loop has produced exactly one snapshot for each of keys[1..i-1], for    *)
(* that operator set, and that the call returns only past the last one.    *)
(* The renaming of "id" touches only the form of keys[i], never its set.   *)

OrderInv ==
    /\ Len(result) = i - 1
    /\ \A j \in 1..Len(result) : result[j].set = keys[j].set
    /\ pc = "done" => i = Len(keys) + 1

LEMMA InitOrderInv == Init => OrderInv
BY DEF Init, OrderInv

LEMMA NextOrderInv == TypeInv /\ OrderInv /\ [Next]_vars => OrderInv'
<1> SUFFICES ASSUME TypeInv, OrderInv, [Next]_vars PROVE OrderInv'
    OBVIOUS
<1> USE DEF TypeInv, TypeOK, Busy
<1>1. CASE CheckAllocationManager
    BY <1>1 DEF CheckAllocationManager, Fail, OrderInv
<1>2. CASE ValidateOperatorSet
    <2> DEFINE form == IF keys[i].form = "lowerId" THEN "ok" ELSE keys[i].form
    <2>1. i \in 1..Len(keys)
        BY <1>2 DEF ValidateOperatorSet
    <2>2. keys' = [keys EXCEPT ![i] = [keys[i] EXCEPT !.form = form]]
        BY <1>2 DEF ValidateOperatorSet
    <2>3. keys[i] \in Entry
        BY <2>1, ElementOfSeq
    <2>4. Len(keys') = Len(keys) /\ \A j \in 1..Len(keys) : keys'[j].set = keys[j].set
        BY <2>1, <2>2, <2>3 DEF Entry
    <2>5. pc' # "done" /\ UNCHANGED <<i, result>>
        BY <1>2 DEF ValidateOperatorSet, Fail
    <2>6. QED
        BY <2>4, <2>5 DEF OrderInv
<1>3. CASE ReturnStakes
    BY <1>3 DEF ReturnStakes, OrderInv
<1>4. CASE get_operators_for_operator_set
    BY <1>4 DEF get_operators_for_operator_set, Fail, OrderInv
<1>5. CASE get_strategies_for_operator_set
    BY <1>5 DEF get_strategies_for_operator_set, Fail, OrderInv
<1>6. CASE FetchSlashableStake
    <2>1. PICK ok \in Outcomes :
            IF ~ok THEN Fail("stakeCall") /\ UNCHANGED <<i, result>>
            ELSE \E reply \in Replies(ops, strats) :
                   /\ result' = Append(result,
                                  [set |-> keys[i].set, operators |-> ops,
                                   strategies |-> strats, stakes |-> reply])
                   /\ i' = i + 1
                   /\ pc' = "loop"
        BY <1>6 DEF FetchSlashableStake
    <2>2. UNCHANGED keys
        BY <1>6 DEF FetchSlashableStake
    <2>3. CASE ~ok
        BY <2>1, <2>2, <2>3 DEF Fail, OrderInv
    <2>4. CASE ok
        <3>1. PICK reply \in Replies(ops, strats) :
                 /\ result' = Append(result,
                                [set |-> keys[i].set, operators |-> ops,
                                 strategies |-> strats, stakes |-> reply])
                 /\ i' = i + 1
                 /\ pc' = "loop"
            BY <2>1, <2>4
        <3>2. /\ Len(result') = Len(result) + 1
              /\ \A j \in 1..Len(result) : result'[j] = result[j]
              /\ result'[Len(result) + 1].set = keys[i].set
            BY <3>1, AppendProperties
        <3>3. QED
            BY <2>2, <3>1, <3>2 DEF OrderInv
    <2>5. QED
        BY <2>3, <2>4
<1>7. CASE Environment
    BY <1>7 DEF Environment, OrderInv
<1>8. CASE UNCHANGED vars
    BY <1>8 DEF vars, OrderInv
<1>9. QED
    BY <1>1, <1>2, <1>3, <1>4, <1>5, <1>6, <1>7, <1>8 DEF Next, Reader

\* A call that returns success returns one snapshot per input operator set,
\* in input order (the property ResultFollowsInput of the runs).
THEOREM ResultFollowsInputThm == Spec => []ResultFollowsInput
<1>1. OrderInv => ResultFollowsInput
    BY DEF OrderInv, ResultFollowsInput
<1>2. QED
    BY InitTypeInv, NextTypeInv, InitOrderInv, NextOrderInv, <1>1, PTL DEF Spec

-----------------------------------------------------------------------------
(* No failure is masked.  Every step that issues a call that raises also  *)
(* moves to "failed", which no step leaves.                                *)

SurfaceInv == pc # "failed" => \A c \in 1..Len(calls) : calls[c].ok

LEMMA InitSurfaceInv == Init => SurfaceInv
BY DEF Init, SurfaceInv

LEMMA NextSurfaceInv == TypeInv /\ SurfaceInv /\ [Next]_vars => SurfaceInv'
<1> SUFFICES ASSUME TypeInv, SurfaceInv, [Next]_vars PROVE SurfaceInv'
    OBVIOUS
<1> USE DEF TypeInv, TypeOK
\* A call issued with outcome ok, in a step that fails unless ok holds.
<1>0. ASSUME NEW fn, NEW b, NEW ok \in BOOLEAN, Issue(fn, b, ok),
             pc \in Busy, ~ok => pc' = "failed"
      PROVE  SurfaceInv'
    <2>1. /\ Len(calls') = Len(calls) + 1
          /\ \A j \in 1..Len(calls) : calls'[j] = calls[j]
          /\ calls'[Len(calls) + 1].ok = ok
        BY <1>0, AppendProperties DEF Issue
    <2>2. \A c \in 1..Len(calls) : calls[c].ok
        BY <1>0 DEF SurfaceInv, Busy
    <2>3. ASSUME ok, NEW c \in 1..Len(calls') PROVE calls'[c].ok
        <3>1. Len(calls) \in Nat
            OBVIOUS
        <3>2. CASE c \in 1..Len(calls)
            BY <2>1, <2>2, <3>2
        <3>3. CASE c = Len(calls) + 1
            BY <2>1, <2>3, <3>3
        <3>4. QED
            BY <2>1, <3>1, <3>2, <3>3
    <2>4. QED
        BY <1>0, <2>3 DEF SurfaceInv
<1>1. CASE CheckAllocationManager
    BY <1>1 DEF CheckAllocationManager, Fail, SurfaceInv
<1>2. CASE ValidateOperatorSet
    BY <1>2 DEF ValidateOperatorSet, Fail, SurfaceInv
<1>3. CASE ReturnStakes
    BY <1>3 DEF ReturnStakes, SurfaceInv
<1>4. CASE get_operators_for_operator_set
    <2>1. CASE keys[i].form = "badAvs"
        BY <1>4, <2>1 DEF get_operators_for_operator_set, Fail, SurfaceInv
    <2>2. CASE keys[i].form # "badAvs"
        <3>1. PICK ok \in Outcomes :
                /\ Issue("getMembers", 0, ok)
                /\ pc \in Busy
                /\ ~ok => pc' = "failed"
            BY <1>4, <2>2 DEF get_operators_for_operator_set, Fail, Busy
        <3>2. QED
            BY <3>1, <1>0 DEF Outcomes
    <2>3. QED
        BY <2>1, <2>2
<1>5. CASE get_strategies_for_operator_set
    <2>1. PICK ok \in Outcomes :
            /\ Issue("getStrategiesInOperatorSet", 0, ok)
            /\ pc \in Busy
            /\ ~ok => pc' = "failed"
        BY <1>5 DEF get_strategies_for_operator_set, Fail, Busy
    <2>2. QED
        BY <2>1, <1>0 DEF Outcomes
<1>6. CASE FetchSlashableStake
    <2>1. PICK ok \in Outcomes :
            /\ Issue("getMinimumSlashableStake", FutureBlock, ok)
            /\ pc \in Busy
            /\ ~ok => pc' = "failed"
        BY <1>6 DEF FetchSlashableStake, Fail, Busy
    <2>2. QED
        BY <2>1, <1>0 DEF Outcomes
<1>7. CASE Environment
    BY <1>7 DEF Environment, SurfaceInv
<1>8. CASE UNCHANGED vars
    BY <1>8 DEF vars, SurfaceInv
<1>9. QED
    BY <1>1, <1>2, <1>3, <1>4, <1>5, <1>6, <1>7, <1>8 DEF Next, Reader

\* A call that returns success issued no contract call that raised (the
\* property FailuresSurface of the runs).
THEOREM FailuresSurfaceThm == Spec => []FailuresSurface
<1>1. SurfaceInv => FailuresSurface
    BY DEF SurfaceInv, FailuresSurface
<1>2. QED
    BY InitTypeInv, NextTypeInv, InitSurfaceInv, NextSurfaceInv, <1>1, PTL DEF Spec

=============================================================================
