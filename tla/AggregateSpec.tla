---------------------------- MODULE AggregateSpec ----------------------------
(***************************************************************************)
(* What an aggregation over operator sets promises its caller (spec.md     *)
(* 4.4), in one step: while the chain grows, the call either fails or      *)
(* returns one snapshot per input set, in input order.  Each snapshot is   *)
(* built from three reads of the ledger, members, then strategies, then    *)
(* stakes, and the reads of the whole call are taken at heights that never *)
(* go back: no snapshot mixes a newer membership with older stakes, and no *)
(* set is read at a block older than one an earlier set was read at.       *)
(* The atomic reading of spec 3 (all reads at one height) is the special   *)
(* case where every height is the same; the code does not promise it (run *)
(* point_in_time), and this specification does not ask it.                 *)
(***************************************************************************)
EXTENDS Ledger

CONSTANT NoEntry   \* a cell the stake answer does not contain

VARIABLES
    input,     \* the operator sets the caller passed, in order
    outcome,   \* "pending", "failed" or "returned"
    snapshots  \* the returned list (empty until the call returns)

avars == <<chain, input, outcome, snapshots>>

\* The snapshot of set s built from members read at height h1, strategies
\* at h2 and the stake matrix at h3.
SnapshotAt(s, h1, h2, h3) ==
    LET ops == chain[h1].members[s]
        strats == chain[h2].strategies[s]
    IN [set |-> s, operators |-> ops, strategies |-> strats,
        stakes |-> [p \in Operators \X Strategies |->
                      IF p \in ops \X strats THEN chain[h3].stake[p] ELSE NoEntry]]

\* Read heights for n sets, three per set, in the order they are read.
ReadHeights(n) ==
    {hs \in [1..3 * n -> 1..Height] : \A k \in 1..3 * n - 1 : hs[k] <= hs[k + 1]}

AInit ==
    /\ LedgerInit
    /\ input \in Seq(OpSets)
    /\ outcome = "pending"
    /\ snapshots = <<>>

\* The call returns its snapshots.
Finish ==
    /\ outcome = "pending"
    /\ outcome' = "returned"
    /\ \E hs \in ReadHeights(Len(input)) :
         snapshots' = [j \in 1..Len(input) |->
                   SnapshotAt(input[j], hs[3 * j - 2], hs[3 * j - 1], hs[3 * j])]
    /\ UNCHANGED <<chain, input>>

\* The call fails (fail fast: one error, no partial list).
Fail ==
    /\ outcome = "pending"
    /\ outcome' = "failed"
    /\ UNCHANGED <<chain, input, snapshots>>

\* A block is mined.
Mine == Produce /\ UNCHANGED <<input, outcome, snapshots>>

ANext == Finish \/ Fail \/ Mine

ASpec == AInit /\ [][ANext]_avars

=============================================================================
