------------------------- MODULE MCSlashableShares -------------------------
(***************************************************************************)
(* A small instance of SlashableShares for TLC: two operator sets, two    *)
(* operators, one strategy, and two ledger states between which the chain  *)
(* may move: one where set s2 has members and a strategy, and one where    *)
(* s1 has gained an operator and s2 is empty.                              *)
(***************************************************************************)
EXTENDS SlashableShares, TLC

CONSTANTS s1, s2, o1, o2, t1

\* Block state A: s1 = {o1}, s2 = {o1, o2}; every stake is 1.
StateA ==
    [members |-> (s1 :> {o1} @@ s2 :> {o1, o2}),
     strategies |-> (s1 :> {t1} @@ s2 :> {t1}),
     stake |-> [p \in Operators \X Strategies |-> 1]]

\* Block state B: o2 joins s1, s2 loses its members and its strategy, and
\* o1's slashable stake drops to 0.
StateB ==
    [members |-> (s1 :> {o1, o2} @@ s2 :> {}),
     strategies |-> (s1 :> {t1} @@ s2 :> {}),
     stake |-> [p \in Operators \X Strategies |-> IF p[1] = o1 THEN 0 ELSE 1]]

MC_LedgerStates == {StateA, StateB}

=============================================================================
