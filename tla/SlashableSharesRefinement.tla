---------------------- MODULE SlashableSharesRefinement ----------------------
(***************************************************************************)
(* Proof that get_slashable_shares_for_operator_sets_before, as modelled   *)
(* by SlashableShares, implements AggregateSpec when the node answers the  *)
(* stake query exactly (no MalformedReplies): every result it returns is   *)
(* one snapshot per input set, each built from a members, a strategies and *)
(* a stake read at heights that never go back.                             *)
(*                                                                         *)
(* The witness for the abstract Finish step is the list of the heights of  *)
(* the calls the loop issued: while the loop has not failed it issued      *)
(* exactly three calls per finished set (members, strategies, stake), in   *)
(* that order, and one or two for the set in progress.  RefInv says so,    *)
(* and says that every snapshot, and the operators and strategies held for *)
(* the set in progress, are what the chain held at those heights.          *)
(***************************************************************************)
EXTENDS SlashableSharesProofs

\* The height the k-th contract call of the loop was evaluated at.
H(k) == calls[k].height

\* How many calls the set in progress has issued so far.
CallsDone == CASE pc = "strategies" -> 1
               [] pc = "stake"      -> 2
               [] OTHER             -> 0

\* Every call read an existing block, and later calls never read older ones.
HeightsInRange == \A k \in 1..Len(calls) : H(k) \in 1..Height

HeightsOrdered == \A k \in 1..Len(calls) - 1 : H(k) <= H(k + 1)

\* Three calls per finished set, one or two for the set in progress.
CallCount == Len(calls) = 3 * (i - 1) + CallsDone

\* AggregateSpec's SnapshotAt with the chain as an argument, so that a
\* proof can tell that a snapshot stays the same while the chain grows.
Snap(c, s, h1, h2, h3) ==
    [set |-> s, operators |-> c[h1].members[s], strategies |-> c[h2].strategies[s],
     stakes |-> [p \in Operators \X Strategies |->
                   IF p \in c[h1].members[s] \X c[h2].strategies[s]
                   THEN c[h3].stake[p] ELSE NoEntry]]

\* Each snapshot is what the chain held at the heights of its three calls.
SnapshotsRead ==
    \A j \in 1..Len(result) :
        result[j] = Snap(chain, keys[j].set, H(3 * j - 2), H(3 * j - 1), H(3 * j))

\* The operators and strategies held for the set in progress are what the
\* chain held at the heights of the calls that read them.
InProgressRead ==
    /\ pc \in {"strategies", "stake"} =>
         ops = chain[H(3 * i - 2)].members[keys[i].set]
    /\ pc = "stake" =>
         strats = chain[H(3 * i - 1)].strategies[keys[i].set]

RefInv ==
    /\ HeightsInRange
    /\ HeightsOrdered
    /\ pc # "failed" => CallCount /\ SnapshotsRead /\ InProgressRead

-----------------------------------------------------------------------------
(* Facts about the history of calls and about the chain.                   *)

\* A call issued while the chain stands still is appended to the history
\* at the newest height, which keeps the heights in range and in order.
LEMMA IssueHeights ==
    ASSUME TypeInv, HeightsInRange, HeightsOrdered, NEW fn, NEW b, NEW ok,
           Issue(fn, b, ok), UNCHANGED chain
    PROVE  /\ Len(calls') = Len(calls) + 1
           /\ \A k \in 1..Len(calls) : calls'[k] = calls[k]
           /\ calls'[Len(calls) + 1].height = Height
           /\ HeightsInRange'
           /\ HeightsOrdered'
<1> USE DEF TypeInv, TypeOK
<1>1. /\ Len(calls') = Len(calls) + 1
      /\ \A k \in 1..Len(calls) : calls'[k] = calls[k]
      /\ calls'[Len(calls) + 1].height = Height
    BY AppendProperties DEF Issue
<1>2. Height' = Height /\ Height \in 1..MaxHeight
    BY DEF Height, LedgerTypeOK
<1>3. \A k \in 1..Len(calls') : H(k)' \in 1..Height'
    <2> SUFFICES ASSUME NEW k \in 1..Len(calls') PROVE H(k)' \in 1..Height'
        OBVIOUS
    <2>1. CASE k \in 1..Len(calls)
        BY <1>1, <1>2, <2>1 DEF HeightsInRange, HeightsOrdered, H
    <2>2. CASE k = Len(calls) + 1
        BY <1>1, <1>2, <2>2 DEF H
    <2>3. QED
        BY <1>1, <2>1, <2>2
<1>4. \A k \in 1..Len(calls') - 1 : H(k)' <= H(k + 1)'
    <2> SUFFICES ASSUME NEW k \in 1..Len(calls') - 1 PROVE H(k)' <= H(k + 1)'
        OBVIOUS
    <2>1. CASE k < Len(calls)
        BY <1>1, <2>1 DEF HeightsInRange, HeightsOrdered, H
    <2>2. CASE k = Len(calls)
        BY <1>1, <1>2, <2>2 DEF HeightsInRange, HeightsOrdered, H
    <2>3. QED
        BY <1>1, <2>1, <2>2
<1>5. QED
    BY <1>1, <1>3, <1>4 DEF HeightsInRange, HeightsOrdered

\* A block appended to the chain leaves every earlier block as it was.
LEMMA ProduceKeepsPrefix ==
    ASSUME LedgerTypeOK, Produce
    PROVE  /\ Height' = Height + 1
           /\ \A h \in 1..Height : chain'[h] = chain[h]
BY AppendProperties DEF Produce, LedgerTypeOK, Height

\* A snapshot read at heights of the chain is the same on a longer chain
\* that keeps those blocks.
LEMMA SnapshotStable ==
    ASSUME NEW c, NEW d, NEW s, NEW h1, NEW h2, NEW h3,
           d[h1] = c[h1], d[h2] = c[h2], d[h3] = c[h3]
    PROVE  Snap(d, s, h1, h2, h3) = Snap(c, s, h1, h2, h3)
BY DEF Snap

\* Snap on the current chain is AggregateSpec's SnapshotAt.
LEMMA SnapIsSnapshotAt ==
    ASSUME NEW s, NEW h1, NEW h2, NEW h3
    PROVE  Aggregate!SnapshotAt(s, h1, h2, h3) = Snap(chain, s, h1, h2, h3)
BY DEF Aggregate!SnapshotAt, Snap

\* The loop starts with no call and no snapshot.
LEMMA InitRefInv == Init => RefInv
BY DEF Init, RefInv, HeightsInRange, HeightsOrdered, CallCount, CallsDone,
       SnapshotsRead, InProgressRead


\* While the loop has not failed, the three calls of every finished set and
\* the calls of the set in progress are in the history.
LEMMA ReadCalls ==
    ASSUME TypeInv, OrderInv, CallCount, pc # "failed"
    PROVE  /\ \A j \in 1..Len(result) : {3 * j - 2, 3 * j - 1, 3 * j} \subseteq 1..Len(calls)
           /\ pc \in {"strategies", "stake"} => 3 * i - 2 \in 1..Len(calls)
           /\ pc = "stake" => 3 * i - 1 \in 1..Len(calls)
<1>1. i \in Nat /\ Len(result) = i - 1 /\ Len(calls) \in Nat
    BY DEF TypeInv, TypeOK, OrderInv
<1>2. CallsDone \in 0..2 /\ (pc = "strategies" => CallsDone = 1) /\ (pc = "stake" => CallsDone = 2)
    BY DEF CallsDone
<1>3. QED
    BY <1>1, <1>2 DEF CallCount

\* Appending to the history, with the chain, the input and the result left
\* alone, keeps every snapshot read at its calls' heights.
LEMMA AppendKeepsSnapshots ==
    ASSUME TypeInv, OrderInv, CallCount, SnapshotsRead, pc # "failed",
           UNCHANGED <<chain, keys, result>>,
           \A k \in 1..Len(calls) : calls'[k] = calls[k]
    PROVE  SnapshotsRead'
<1> SUFFICES ASSUME NEW j \in 1..Len(result)
             PROVE  result[j] = Snap(chain, keys[j].set, calls'[3 * j - 2].height,
                                     calls'[3 * j - 1].height, calls'[3 * j].height)
    BY DEF SnapshotsRead, H
<1>1. {3 * j - 2, 3 * j - 1, 3 * j} \subseteq 1..Len(calls)
    BY ReadCalls
<1>2. QED
    BY <1>1 DEF SnapshotsRead, H

\* A block mined between two calls keeps RefInv: every call read a block
\* that is still there, unchanged.
LEMMA EnvironmentRefInv ==
    ASSUME TypeInv, OrderInv, RefInv, Environment
    PROVE  RefInv'
<1>1. Height' = Height + 1 /\ \A h \in 1..Height : chain'[h] = chain[h]
    BY ProduceKeepsPrefix DEF Environment, TypeInv, TypeOK
<1>2. UNCHANGED <<keys, pc, i, ops, strats, result, calls>>
    BY DEF Environment
<1>3. HeightsInRange' /\ HeightsOrdered'
    <2>1. Height \in Nat
        BY DEF TypeInv, TypeOK, LedgerTypeOK
    <2>2. HeightsInRange'
        <3> SUFFICES ASSUME NEW k \in 1..Len(calls) PROVE calls[k].height \in 1..Height'
            BY <1>2 DEF HeightsInRange, H
        <3>1. calls[k].height \in 1..Height
            BY DEF RefInv, HeightsInRange, H
        <3>2. QED
            BY <1>1, <2>1, <3>1
    <2>3. HeightsOrdered'
        BY <1>2 DEF RefInv, HeightsOrdered, H
    <2>4. QED
        BY <2>2, <2>3
<1>4. ASSUME pc' # "failed" PROVE CallCount' /\ SnapshotsRead' /\ InProgressRead'
    <2>1. pc # "failed" /\ CallCount /\ SnapshotsRead /\ InProgressRead
        BY <1>2, <1>4 DEF RefInv
    <2>2. CallCount'
        BY <1>2, <2>1 DEF CallCount, CallsDone
    <2>3. SnapshotsRead'
        <3> SUFFICES ASSUME NEW j \in 1..Len(result)
                     PROVE  result[j] = Snap(chain', keys[j].set, H(3 * j - 2),
                                             H(3 * j - 1), H(3 * j))
            BY <1>2 DEF SnapshotsRead, H
        <3>1. {H(3 * j - 2), H(3 * j - 1), H(3 * j)} \subseteq 1..Height
            BY <2>1, ReadCalls DEF RefInv, HeightsInRange
        <3>2. QED
            BY <1>1, <2>1, <3>1, SnapshotStable DEF SnapshotsRead
    <2>4. InProgressRead'
        <3>1. pc \in {"strategies", "stake"} => H(3 * i - 2) \in 1..Height
            BY <2>1, ReadCalls DEF RefInv, HeightsInRange
        <3>2. pc = "stake" => H(3 * i - 1) \in 1..Height
            BY <2>1, ReadCalls DEF RefInv, HeightsInRange
        <3>3. QED
            BY <1>1, <1>2, <2>1, <3>1, <3>2 DEF InProgressRead, H
    <2>5. QED
        BY <2>2, <2>3, <2>4
<1>5. QED
    BY <1>3, <1>4 DEF RefInv


\* getMembers is read at the newest block and becomes the first read of
\* the set in progress.
LEMMA MembersRefInv ==
    ASSUME TypeInv, OrderInv, RefInv, get_operators_for_operator_set
    PROVE  RefInv'
<1>1. /\ pc = "members" /\ i \in 1..Len(keys)
      /\ UNCHANGED <<chain, keys, i, strats, result>>
    BY DEF get_operators_for_operator_set, TypeInv, Busy
<1>2. CASE keys[i].form = "badAvs"
    <2>1. pc' = "failed" /\ UNCHANGED calls
        BY <1>2 DEF get_operators_for_operator_set, Fail
    <2>2. QED
        BY <1>1, <2>1 DEF RefInv, HeightsInRange, HeightsOrdered, H, Height
<1>3. CASE keys[i].form # "badAvs"
    <2>1. PICK ok \in Outcomes :
            /\ Issue("getMembers", 0, ok)
            /\ IF ~ok THEN Fail("call") /\ UNCHANGED ops
               ELSE /\ ops' = Newest.members[keys[i].set]
                    /\ IF ops' = {} THEN Fail("noOperators")
                       ELSE pc' = "strategies" /\ UNCHANGED err
        BY <1>3 DEF get_operators_for_operator_set
    <2>2. /\ Len(calls') = Len(calls) + 1
          /\ \A k \in 1..Len(calls) : calls'[k] = calls[k]
          /\ calls'[Len(calls) + 1].height = Height
          /\ HeightsInRange' /\ HeightsOrdered'
        BY <1>1, <2>1, IssueHeights DEF RefInv
    <2>3. CASE pc' = "failed"
        BY <2>2, <2>3 DEF RefInv
    <2>4. CASE pc' # "failed"
        <3>1. ops' = Newest.members[keys[i].set] /\ pc' = "strategies"
            BY <2>1, <2>4 DEF Fail
        <3>2. CallCount /\ SnapshotsRead
            BY <1>1 DEF RefInv
        <3>3. CallCount'
            BY <1>1, <2>2, <3>1, <3>2 DEF CallCount, CallsDone
        <3>4. SnapshotsRead'
            BY <1>1, <2>2, <3>2, AppendKeepsSnapshots
        <3>5. 3 * i - 2 = Len(calls) + 1
            BY <1>1, <3>2 DEF CallCount, CallsDone, TypeInv, TypeOK
        <3>6. InProgressRead'
            BY <1>1, <2>2, <3>1, <3>5 DEF InProgressRead, H, Newest
        <3>7. QED
            BY <2>2, <3>3, <3>4, <3>6 DEF RefInv
    <2>5. QED
        BY <2>3, <2>4
<1>4. QED
    BY <1>2, <1>3

\* getStrategiesInOperatorSet is the second read of the set in progress.
LEMMA StrategiesRefInv ==
    ASSUME TypeInv, OrderInv, RefInv, get_strategies_for_operator_set
    PROVE  RefInv'
<1>1. /\ pc = "strategies" /\ i \in 1..Len(keys)
      /\ UNCHANGED <<chain, keys, i, ops, result>>
    BY DEF get_strategies_for_operator_set, TypeInv, Busy
<1>2. PICK ok \in Outcomes :
        /\ Issue("getStrategiesInOperatorSet", 0, ok)
        /\ IF ~ok THEN Fail("call") /\ UNCHANGED strats
           ELSE /\ strats' = Newest.strategies[keys[i].set]
                /\ IF strats' = {} THEN Fail("noStrategies")
                   ELSE pc' = "stake" /\ UNCHANGED err
    BY DEF get_strategies_for_operator_set
<1>3. /\ Len(calls') = Len(calls) + 1
      /\ \A k \in 1..Len(calls) : calls'[k] = calls[k]
      /\ calls'[Len(calls) + 1].height = Height
      /\ HeightsInRange' /\ HeightsOrdered'
    BY <1>1, <1>2, IssueHeights DEF RefInv
<1>4. CASE pc' = "failed"
    BY <1>3, <1>4 DEF RefInv
<1>5. CASE pc' # "failed"
    <2>1. strats' = Newest.strategies[keys[i].set] /\ pc' = "stake"
        BY <1>2, <1>5 DEF Fail
    <2>2. CallCount /\ SnapshotsRead /\ InProgressRead
        BY <1>1 DEF RefInv
    <2>3. CallCount'
        BY <1>1, <1>3, <2>1, <2>2 DEF CallCount, CallsDone
    <2>4. SnapshotsRead'
        BY <1>1, <1>3, <2>2, AppendKeepsSnapshots
    <2>5. 3 * i - 1 = Len(calls) + 1 /\ 3 * i - 2 \in 1..Len(calls)
        BY <1>1, <2>2 DEF CallCount, CallsDone, TypeInv, TypeOK
    <2>6. InProgressRead'
        BY <1>1, <1>3, <2>1, <2>2, <2>5 DEF InProgressRead, H, Newest
    <2>7. QED
        BY <1>3, <2>3, <2>4, <2>6 DEF RefInv
<1>6. QED
    BY <1>4, <1>5


\* The stake call completes the set in progress: the snapshot appended is
\* the one the chain held at the heights of its three calls.
LEMMA StakeRefInv ==
    ASSUME ~MalformedReplies, TypeInv, OrderInv, RefInv, FetchSlashableStake
    PROVE  RefInv'
<1>1. /\ pc = "stake" /\ i \in 1..Len(keys)
      /\ UNCHANGED <<chain, keys, ops, strats>>
    BY DEF FetchSlashableStake, TypeInv, Busy
<1>2. PICK ok \in Outcomes :
        /\ Issue("getMinimumSlashableStake", FutureBlock, ok)
        /\ IF ~ok THEN Fail("stakeCall") /\ UNCHANGED <<i, result>>
           ELSE \E reply \in Replies(ops, strats) :
                  /\ result' = Append(result,
                                 [set |-> keys[i].set, operators |-> ops,
                                  strategies |-> strats, stakes |-> reply])
                  /\ i' = i + 1
                  /\ pc' = "loop"
    BY DEF FetchSlashableStake
<1>3. /\ Len(calls') = Len(calls) + 1
      /\ \A k \in 1..Len(calls) : calls'[k] = calls[k]
      /\ calls'[Len(calls) + 1].height = Height
      /\ HeightsInRange' /\ HeightsOrdered'
    BY <1>1, <1>2, IssueHeights DEF RefInv
<1>4. CASE ~ok
    BY <1>2, <1>3, <1>4 DEF Fail, RefInv
<1>5. CASE ok
    <2> DEFINE rec == [set |-> keys[i].set, operators |-> ops,
                       strategies |-> strats, stakes |-> StakeReply(ops, strats)]
    <2>1. result' = Append(result, rec) /\ i' = i + 1 /\ pc' = "loop"
        BY <1>2, <1>5 DEF Replies
    <2>2. CallCount /\ SnapshotsRead /\ InProgressRead /\ Len(result) = i - 1
        BY <1>1 DEF RefInv, OrderInv
    <2>3. Len(calls) = 3 * i - 1 /\ 3 * i - 2 \in 1..Len(calls) /\ i \in Nat
        BY <1>1, <2>2 DEF CallCount, CallsDone, TypeInv, TypeOK
    <2>4. CallCount'
        BY <1>3, <2>1, <2>3 DEF CallCount, CallsDone
    <2>5. rec = Snap(chain, keys[i].set, calls'[3 * i - 2].height,
                     calls'[3 * i - 1].height, calls'[3 * i].height)
        <3>1. /\ calls'[3 * i - 2].height = H(3 * i - 2)
              /\ calls'[3 * i - 1].height = H(3 * i - 1)
              /\ calls'[3 * i].height = Height
            BY <1>3, <2>3 DEF H
        <3>2. /\ ops = chain[H(3 * i - 2)].members[keys[i].set]
              /\ strats = chain[H(3 * i - 1)].strategies[keys[i].set]
            BY <1>1, <2>2 DEF InProgressRead
        <3>3. QED
            BY <3>1, <3>2 DEF Snap, StakeReply, Newest
    <2>6. SnapshotsRead'
        <3> SUFFICES ASSUME NEW j \in 1..Len(result')
                     PROVE  result'[j] = Snap(chain, keys[j].set, calls'[3 * j - 2].height,
                                              calls'[3 * j - 1].height, calls'[3 * j].height)
            BY <1>1 DEF SnapshotsRead, H
        <3>1. result \in Seq(Snapshot)
            BY DEF TypeInv, TypeOK
        <3>2. Len(result') = Len(result) + 1 /\ result'[Len(result) + 1] = rec
              /\ \A k \in 1..Len(result) : result'[k] = result[k]
            BY <2>1, <3>1, AppendProperties
        <3>3. CASE j \in 1..Len(result)
            <4>1. {3 * j - 2, 3 * j - 1, 3 * j} \subseteq 1..Len(calls)
                BY <2>2, <2>3, <3>3
            <4>2. QED
                BY <1>3, <2>2, <3>2, <3>3, <4>1 DEF SnapshotsRead, H
        <3>4. CASE j = Len(result) + 1
            <4>1. j = i
                BY <2>2, <2>3, <3>4
            <4>2. result'[j] = rec
                BY <3>2, <3>4
            <4>3. QED
                BY <2>5, <4>1, <4>2
        <3>5. QED
            BY <3>2, <3>3, <3>4
    <2>7. InProgressRead'
        BY <2>1 DEF InProgressRead
    <2>8. QED
        BY <1>3, <2>1, <2>4, <2>6, <2>7 DEF RefInv
<1>6. QED
    BY <1>4, <1>5


\* Normalising the caller's dict rewrites its form, never the set it names.
LEMMA ValidateKeepsSets ==
    ASSUME TypeInv, ValidateOperatorSet
    PROVE  /\ Len(keys') = Len(keys)
           /\ \A j \in 1..Len(keys) : keys'[j].set = keys[j].set
<1> DEFINE form == IF keys[i].form = "lowerId" THEN "ok" ELSE keys[i].form
<1>1. i \in 1..Len(keys)
    BY DEF ValidateOperatorSet, TypeInv, TypeOK
<1>2. keys' = [keys EXCEPT ![i] = [keys[i] EXCEPT !.form = form]]
    BY DEF ValidateOperatorSet
<1>3. keys[i] \in Entry
    BY <1>1, ElementOfSeq DEF TypeInv, TypeOK
<1>4. QED
    BY <1>1, <1>2, <1>3 DEF Entry, TypeInv, TypeOK

\* RefInv is inductive.
LEMMA NextRefInv ==
    ASSUME ~MalformedReplies, TypeInv, OrderInv, RefInv, [Next]_vars
    PROVE  RefInv'
<1>1. CASE CheckAllocationManager
    BY <1>1 DEF CheckAllocationManager, Fail, RefInv, HeightsInRange, HeightsOrdered,
                CallCount, CallsDone, SnapshotsRead, InProgressRead, H, Height
<1>2. CASE ValidateOperatorSet
    <2>1. /\ pc = "loop" /\ i <= Len(keys) /\ pc' \in {"members", "failed"}
          /\ UNCHANGED <<chain, i, result, calls>>
        BY <1>2 DEF ValidateOperatorSet, Fail
    <2>2. HeightsInRange' /\ HeightsOrdered'
        BY <2>1 DEF RefInv, HeightsInRange, HeightsOrdered, H, Height
    <2>3. ASSUME pc' # "failed" PROVE CallCount' /\ SnapshotsRead' /\ InProgressRead'
        <3>1. CallCount /\ SnapshotsRead /\ Len(result) = i - 1
            BY <2>1 DEF RefInv, OrderInv
        <3>2. CallCount'
            BY <2>1, <2>3, <3>1 DEF CallCount, CallsDone
        <3>3. \A j \in 1..Len(result) : keys'[j].set = keys[j].set
            <4>1. \A j \in 1..Len(keys) : keys'[j].set = keys[j].set
                BY <1>2, ValidateKeepsSets
            <4>2. Len(result) <= Len(keys) /\ Len(keys) \in Nat
                BY <2>1, <3>1 DEF TypeInv, TypeOK
            <4>3. QED
                BY <4>1, <4>2
        <3>4. SnapshotsRead'
            BY <2>1, <3>1, <3>3 DEF SnapshotsRead, H
        <3>5. InProgressRead'
            BY <2>1, <2>3 DEF InProgressRead
        <3>6. QED
            BY <3>2, <3>4, <3>5
    <2>4. QED
        BY <2>2, <2>3 DEF RefInv
<1>3. CASE ReturnStakes
    BY <1>3 DEF ReturnStakes, RefInv, HeightsInRange, HeightsOrdered,
                CallCount, CallsDone, SnapshotsRead, InProgressRead, H, Height
<1>4. CASE get_operators_for_operator_set
    BY <1>4, MembersRefInv
<1>5. CASE get_strategies_for_operator_set
    BY <1>5, StrategiesRefInv
<1>6. CASE FetchSlashableStake
    BY <1>6, StakeRefInv
<1>7. CASE Environment
    BY <1>7, EnvironmentRefInv
<1>8. CASE UNCHANGED vars
    BY <1>8 DEF vars, RefInv, HeightsInRange, HeightsOrdered,
                CallCount, CallsDone, SnapshotsRead, InProgressRead, H, Height
<1>9. QED
    BY <1>1, <1>2, <1>3, <1>4, <1>5, <1>6, <1>7, <1>8 DEF Next, Reader


-----------------------------------------------------------------------------
(* The refinement.  A step of the loop that neither returns nor fails is a *)
(* stutter of AggregateSpec, a step that fails is Fail, a mined block is   *)
(* Mine, and ReturnStakes is Finish, with the heights of the calls as the  *)
(* read heights.                                                           *)

\* The list of sets the caller's list names.
InputOf(k) == [j \in 1..Len(k) |-> k[j].set]

\* The initial states of the loop map to initial states of AggregateSpec.
LEMMA InitRefines == Init => Aggregate!AInit
<1> SUFFICES ASSUME Init PROVE Aggregate!AInit
    OBVIOUS
<1>1. keys \in Seq(Entry)
    BY InitTypeInv DEF TypeInv, TypeOK
<1>2. InputOf(keys) \in [1..Len(keys) -> OpSets]
    <2>1. \A j \in 1..Len(keys) : keys[j] \in Entry
        BY <1>1, ElementOfSeq
    <2>2. QED
        BY <2>1 DEF InputOf, Entry
<1>3. InputOf(keys) \in Seq(OpSets)
    BY <1>1, <1>2, LenProperties, SeqDef
<1>4. LedgerInit /\ pc = "start" /\ result = <<>>
    BY DEF Init
<1>5. QED
    BY <1>3, <1>4 DEF Aggregate!AInit, Aggregate!LedgerInit, LedgerInit, InputOf

\* A step of the loop other than ReturnStakes, that keeps the chain and the
\* sets the caller's list names, is Fail or a stutter of AggregateSpec.
LEMMA QuietStepRefines ==
    ASSUME pc \notin {"done", "failed"}, pc' # "done",
           UNCHANGED chain, InputOf(keys') = InputOf(keys)
    PROVE  [Aggregate!ANext]_Aggregate!avars
<1>1. CASE pc' = "failed"
    BY <1>1 DEF Aggregate!ANext, Aggregate!Fail, InputOf
<1>2. CASE pc' # "failed"
    BY <1>2 DEF Aggregate!avars, InputOf
<1>3. QED
    BY <1>1, <1>2


\* ReturnStakes is AggregateSpec's Finish: the heights of the 3n calls the
\* loop issued are read heights that build exactly the returned snapshots.
LEMMA ReturnRefines ==
    ASSUME TypeInv, OrderInv, RefInv, ReturnStakes
    PROVE  Aggregate!Finish
<1> DEFINE n == Len(keys)
           hs == [k \in 1..3 * n |-> calls[k].height]
<1>1. /\ pc = "loop" /\ pc' = "done"
      /\ UNCHANGED <<chain, keys, i, result, calls>>
    BY DEF ReturnStakes
<1>2. i = n + 1 /\ n \in Nat
    BY <1>1 DEF ReturnStakes, TypeInv, TypeOK
<1>3. Len(calls) = 3 * n /\ Len(result) = n
    BY <1>1, <1>2 DEF RefInv, CallCount, CallsDone, OrderInv
<1>4. Len(InputOf(keys)) = n /\ \A j \in 1..n : InputOf(keys)[j] = keys[j].set
    BY <1>2 DEF InputOf
<1>5. hs \in Aggregate!ReadHeights(n)
    <2>1. hs \in [1..3 * n -> 1..Height]
        BY <1>3 DEF RefInv, HeightsInRange, H
    <2>2. \A k \in 1..3 * n - 1 : hs[k] <= hs[k + 1]
        BY <1>2, <1>3 DEF RefInv, HeightsOrdered, H
    <2>3. QED
        BY <2>1, <2>2 DEF Aggregate!ReadHeights, Aggregate!Height, Height
<1>6. result = [j \in 1..n |-> Aggregate!SnapshotAt(InputOf(keys)[j], hs[3 * j - 2],
                                                   hs[3 * j - 1], hs[3 * j])]
    <2>1. \A j \in 1..n : /\ hs[3 * j - 2] = H(3 * j - 2)
                          /\ hs[3 * j - 1] = H(3 * j - 1)
                          /\ hs[3 * j] = H(3 * j)
        BY <1>2 DEF H
    <2>2. \A j \in 1..n : result[j] = Aggregate!SnapshotAt(keys[j].set, H(3 * j - 2),
                                                           H(3 * j - 1), H(3 * j))
        BY <1>1, <1>3, SnapIsSnapshotAt DEF RefInv, SnapshotsRead
    <2>3. result = [j \in 1..n |-> result[j]]
        BY <1>3, LenProperties DEF TypeInv, TypeOK
    <2>4. QED
        BY <1>4, <2>1, <2>2, <2>3
<1>7. \E w \in Aggregate!ReadHeights(Len(InputOf(keys))) :
        result = [j \in 1..Len(InputOf(keys)) |->
                    Aggregate!SnapshotAt(InputOf(keys)[j], w[3 * j - 2], w[3 * j - 1], w[3 * j])]
    <2>1. Len(InputOf(keys)) = n
        BY <1>4
    <2>2. hs \in Aggregate!ReadHeights(Len(InputOf(keys)))
        BY <1>5, <2>1
    <2>3. result = [j \in 1..Len(InputOf(keys)) |->
                     Aggregate!SnapshotAt(InputOf(keys)[j], hs[3 * j - 2],
                                          hs[3 * j - 1], hs[3 * j])]
        BY <1>6, <2>1
    <2>4. QED
        BY <2>2, <2>3
<1>8. InputOf(keys') = InputOf(keys) /\ (IF pc' = "done" THEN result' ELSE <<>>) = result
    BY <1>1
<1>9. QED
    BY <1>1, <1>7, <1>8 DEF Aggregate!Finish, InputOf


\* Every step of the loop and its environment is a step or a stutter of
\* AggregateSpec.
LEMMA StepRefines ==
    ASSUME TypeInv, OrderInv, RefInv, [Next]_vars
    PROVE  [Aggregate!ANext]_Aggregate!avars
<1>1. CASE CheckAllocationManager
    <2>1. pc = "start" /\ pc' \in {"loop", "failed"} /\ UNCHANGED <<chain, keys>>
        BY <1>1 DEF CheckAllocationManager, Fail
    <2>2. QED
        BY <2>1, QuietStepRefines
<1>2. CASE ValidateOperatorSet
    <2>1. pc = "loop" /\ pc' \in {"members", "failed"} /\ UNCHANGED chain
        BY <1>2 DEF ValidateOperatorSet, Fail
    <2>2. InputOf(keys') = InputOf(keys)
        BY <1>2, ValidateKeepsSets DEF InputOf
    <2>3. QED
        BY <2>1, <2>2, QuietStepRefines
<1>3. CASE ReturnStakes
    <2>1. Aggregate!Finish
        BY <1>3, ReturnRefines
    <2>2. QED
        BY <2>1 DEF Aggregate!ANext
<1>4. CASE get_operators_for_operator_set
    <2>1. pc = "members" /\ pc' \in {"strategies", "failed"} /\ UNCHANGED <<chain, keys>>
        BY <1>4 DEF get_operators_for_operator_set, Fail
    <2>2. QED
        BY <2>1, QuietStepRefines
<1>5. CASE get_strategies_for_operator_set
    <2>1. pc = "strategies" /\ pc' \in {"stake", "failed"} /\ UNCHANGED <<chain, keys>>
        BY <1>5 DEF get_strategies_for_operator_set, Fail
    <2>2. QED
        BY <2>1, QuietStepRefines
<1>6. CASE FetchSlashableStake
    <2>1. pc = "stake" /\ pc' \in {"loop", "failed"} /\ UNCHANGED <<chain, keys>>
        BY <1>6 DEF FetchSlashableStake, Fail
    <2>2. QED
        BY <2>1, QuietStepRefines
<1>7. CASE Environment
    <2>1. Aggregate!Mine
        BY <1>7 DEF Environment, Aggregate!Mine, Aggregate!Produce, Produce,
                    Aggregate!Height, Height, Aggregate!LedgerState, LedgerState, InputOf
    <2>2. QED
        BY <2>1 DEF Aggregate!ANext
<1>8. CASE UNCHANGED vars
    BY <1>8 DEF vars, Aggregate!avars, InputOf
<1>9. QED
    BY <1>1, <1>2, <1>3, <1>4, <1>5, <1>6, <1>7, <1>8 DEF Next, Reader

\* The refinement theorem: under well-formed stake replies (ASSUME
\* ~MalformedReplies, the replies getMinimumSlashableStake can give have one
\* row per operator and one column per strategy), every behaviour of
\* get_slashable_shares_for_operator_sets and the growing chain is a
\* behaviour of AggregateSpec: the call fails, or returns one snapshot per
\* input set, each read at heights that never go back.
THEOREM Refinement ==
    ASSUME ~MalformedReplies
    PROVE  Spec => ImplementsAggregate
<1> DEFINE IInv == TypeInv /\ OrderInv /\ RefInv
<1>1. Init => IInv
    BY InitTypeInv, InitOrderInv, InitRefInv
<1>2. IInv /\ [Next]_vars => IInv'
    BY NextTypeInv, NextOrderInv, NextRefInv
<1>3. IInv /\ [Next]_vars => [Aggregate!ANext]_Aggregate!avars
    BY StepRefines
<1>4. Init => Aggregate!AInit
    BY InitRefines
<1>5. QED
    BY <1>1, <1>2, <1>3, <1>4, PTL DEF Spec, ImplementsAggregate, Aggregate!ASpec

=============================================================================
