------------------------------- MODULE Ledger -------------------------------
(***************************************************************************)
(* The chain that every ELReader call reads from.  It is the environment  *)
(* of the reader, not code of this repository: a contract call without a  *)
(* block_identifier is evaluated against the newest block, and new blocks  *)
(* (which may change operator-set membership, the strategies of a set and *)
(* slashable stake) are produced at any moment between two calls.         *)
(*                                                                         *)
(* A ledger state is what the AllocationManager's views return:            *)
(*   members[s]     getMembers(s)                                          *)
(*   strategies[s]  getStrategiesInOperatorSet(s)                          *)
(*   stake[o, t]    one entry of getMinimumSlashableStake                  *)
(* Lists are abstracted to sets: the contract answers the stake query for  *)
(* exactly the lists it is given, so the positions line up by themselves.  *)
(***************************************************************************)
EXTENDS Naturals, Sequences

CONSTANTS
    OpSets,        \* operator sets (avs, id) with id # 0
    Operators,     \* operator addresses
    Strategies,    \* strategy addresses
    Stakes,        \* stake amounts the views can return
    LedgerStates,  \* the states a block may leave the contract in
    MaxHeight      \* bound on the number of blocks (modelling artifact)

LedgerState ==
    [members: [OpSets -> SUBSET Operators],
     strategies: [OpSets -> SUBSET Strategies],
     stake: [Operators \X Strategies -> Stakes]]

ASSUME LedgerAssumption ==
    /\ LedgerStates \subseteq LedgerState
    /\ LedgerStates # {}
    /\ MaxHeight \in Nat \ {0}

VARIABLE chain   \* chain[h] is the contract state after block h

Height == Len(chain)

Newest == chain[Height]

LedgerTypeOK == chain \in Seq(LedgerStates) /\ Height \in 1..MaxHeight

LedgerInit == \E s \in LedgerStates : chain = <<s>>

(* A new block is mined; it may change any of the views. *)
Produce ==
    /\ Height < MaxHeight
    /\ \E s \in LedgerStates : chain' = Append(chain, s)

=============================================================================
