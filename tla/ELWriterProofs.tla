--------------------------- MODULE ELWriterProofs ---------------------------
(***************************************************************************)
(* Proofs about ELWriter: the transaction invariants of the write methods  *)
(* hold for every set of handles and attributes, every method and any      *)
(* number of retries.  They rest on the shape of the method programs: a   *)
(* Send step comes right after a transact step and nowhere else, and a    *)
(* write method does not end with a transaction it never sends.           *)
(***************************************************************************)
EXTENDS ELWriter, FiniteSetTheorems, SequenceTheorems, TLAPS

\* The shape every method program has.
WellFormed(P) ==
    /\ Len(P) \in Nat
    /\ \A k \in 1..Len(P) : P[k].kind = "send" <=> (k > 1 /\ P[k - 1].kind = "transact")
    /\ Sends(P) => P[Len(P)].kind # "transact"

\* Every method program has that shape.
LEMMA ProgramsWellFormed == \A m \in DOMAIN Program : WellFormed(Program[m])
<1>1. WellFormed(modify_allocations)
    BY DEF WellFormed, Sends, modify_allocations, CheckHandle, NoSendOpts, Via, Alias, UndefinedName,
       NonEmptyClaims, Build, BuildVia, SendTx, ReadReceipt, Step
<1>2. WellFormed(clear_deallocation_queue)
    BY DEF WellFormed, Sends, clear_deallocation_queue, CheckHandle, NoSendOpts, Via, Alias, UndefinedName,
       NonEmptyClaims, Build, BuildVia, SendTx, ReadReceipt, Step
<1>3. WellFormed(set_allocation_delay)
    BY DEF WellFormed, Sends, set_allocation_delay, CheckHandle, NoSendOpts, Via, Alias, UndefinedName,
       NonEmptyClaims, Build, BuildVia, SendTx, ReadReceipt, Step
<1>4. WellFormed(deregister_from_operator_sets)
    BY DEF WellFormed, Sends, deregister_from_operator_sets, CheckHandle, NoSendOpts, Via, Alias, UndefinedName,
       NonEmptyClaims, Build, BuildVia, SendTx, ReadReceipt, Step
<1>5. WellFormed(register_for_operator_sets)
    BY DEF WellFormed, Sends, register_for_operator_sets, CheckHandle, NoSendOpts, Via, Alias, UndefinedName,
       NonEmptyClaims, Build, BuildVia, SendTx, ReadReceipt, Step
<1>6. WellFormed(update_operator_details)
    BY DEF WellFormed, Sends, update_operator_details, CheckHandle, NoSendOpts, Via, Alias, UndefinedName,
       NonEmptyClaims, Build, BuildVia, SendTx, ReadReceipt, Step
<1>7. WellFormed(update_meta_data_uri)
    BY DEF WellFormed, Sends, update_meta_data_uri, CheckHandle, NoSendOpts, Via, Alias, UndefinedName,
       NonEmptyClaims, Build, BuildVia, SendTx, ReadReceipt, Step
<1>8. WellFormed(register_as_operator)
    BY DEF WellFormed, Sends, register_as_operator, CheckHandle, NoSendOpts, Via, Alias, UndefinedName,
       NonEmptyClaims, Build, BuildVia, SendTx, ReadReceipt, Step
<1>9. WellFormed(remove_permission)
    BY DEF WellFormed, Sends, remove_permission, new_remove_permission_tx, CheckHandle, NoSendOpts, Via, Alias, UndefinedName,
       NonEmptyClaims, Build, BuildVia, SendTx, ReadReceipt, Step
<1>10. WellFormed(new_remove_permission_tx)
    BY DEF WellFormed, Sends, new_remove_permission_tx, CheckHandle, NoSendOpts, Via, Alias, UndefinedName,
       NonEmptyClaims, Build, BuildVia, SendTx, ReadReceipt, Step
<1>11. WellFormed(new_set_permission_tx)
    BY DEF WellFormed, Sends, new_set_permission_tx, CheckHandle, NoSendOpts, Via, Alias, UndefinedName,
       NonEmptyClaims, Build, BuildVia, SendTx, ReadReceipt, Step
<1>12. WellFormed(set_permission)
    BY DEF WellFormed, Sends, set_permission, new_set_permission_tx, CheckHandle, NoSendOpts, Via, Alias, UndefinedName,
       NonEmptyClaims, Build, BuildVia, SendTx, ReadReceipt, Step
<1>13. WellFormed(new_accept_admin_tx)
    BY DEF WellFormed, Sends, new_accept_admin_tx, CheckHandle, NoSendOpts, Via, Alias, UndefinedName,
       NonEmptyClaims, Build, BuildVia, SendTx, ReadReceipt, Step
<1>14. WellFormed(accept_admin)
    BY DEF WellFormed, Sends, accept_admin, new_accept_admin_tx, CheckHandle, NoSendOpts, Via, Alias, UndefinedName,
       NonEmptyClaims, Build, BuildVia, SendTx, ReadReceipt, Step
<1>15. WellFormed(new_add_pending_admin_tx)
    BY DEF WellFormed, Sends, new_add_pending_admin_tx, CheckHandle, NoSendOpts, Via, Alias, UndefinedName,
       NonEmptyClaims, Build, BuildVia, SendTx, ReadReceipt, Step
<1>16. WellFormed(new_remove_admin_tx)
    BY DEF WellFormed, Sends, new_remove_admin_tx, CheckHandle, NoSendOpts, Via, Alias, UndefinedName,
       NonEmptyClaims, Build, BuildVia, SendTx, ReadReceipt, Step
<1>17. WellFormed(new_remove_pending_admin_tx)
    BY DEF WellFormed, Sends, new_remove_pending_admin_tx, CheckHandle, NoSendOpts, Via, Alias, UndefinedName,
       NonEmptyClaims, Build, BuildVia, SendTx, ReadReceipt, Step
<1>18. WellFormed(remove_pending_admin)
    BY DEF WellFormed, Sends, remove_pending_admin, new_remove_pending_admin_tx, CheckHandle, NoSendOpts, Via, Alias, UndefinedName,
       NonEmptyClaims, Build, BuildVia, SendTx, ReadReceipt, Step
<1>19. WellFormed(set_claimer_for)
    BY DEF WellFormed, Sends, set_claimer_for, CheckHandle, NoSendOpts, Via, Alias, UndefinedName,
       NonEmptyClaims, Build, BuildVia, SendTx, ReadReceipt, Step
<1>20. WellFormed(process_claim)
    BY DEF WellFormed, Sends, process_claim, CheckHandle, NoSendOpts, Via, Alias, UndefinedName,
       NonEmptyClaims, Build, BuildVia, SendTx, ReadReceipt, Step
<1>21. WellFormed(set_operator_avs_split)
    BY DEF WellFormed, Sends, set_operator_avs_split, CheckHandle, NoSendOpts, Via, Alias, UndefinedName,
       NonEmptyClaims, Build, BuildVia, SendTx, ReadReceipt, Step
<1>22. WellFormed(set_operator_pi_split)
    BY DEF WellFormed, Sends, set_operator_pi_split, CheckHandle, NoSendOpts, Via, Alias, UndefinedName,
       NonEmptyClaims, Build, BuildVia, SendTx, ReadReceipt, Step
<1>23. WellFormed(set_operator_set_split)
    BY DEF WellFormed, Sends, set_operator_set_split, CheckHandle, NoSendOpts, Via, Alias, UndefinedName,
       NonEmptyClaims, Build, BuildVia, SendTx, ReadReceipt, Step
<1>24. WellFormed(process_claims)
    BY DEF WellFormed, Sends, process_claims, CheckHandle, NoSendOpts, Via, Alias, UndefinedName,
       NonEmptyClaims, Build, BuildVia, SendTx, ReadReceipt, Step
<1>25. WellFormed(deposit_erc20_into_strategy)
    BY DEF WellFormed, Sends, deposit_erc20_into_strategy, CheckHandle, NoSendOpts, Via, Alias, UndefinedName,
       NonEmptyClaims, Build, BuildVia, SendTx, ReadReceipt, Step
<1>26. QED
    BY <1>1, <1>2, <1>3, <1>4, <1>5, <1>6, <1>7, <1>8, <1>9, <1>10, <1>11, <1>12,
       <1>13, <1>14, <1>15, <1>16, <1>17, <1>18, <1>19, <1>20, <1>21, <1>22, <1>23,
       <1>24, <1>25
       DEF Program

-----------------------------------------------------------------------------
(***************************************************************************)
(* The inductive invariant.  Mine is what the current invocation has       *)
(* broadcast; Owed says the step just taken was a transact whose Send is   *)
(* still to come.  PendingInv says that at most that one transaction of    *)
(* the invocation is unconfirmed, and only while it is owed; CountInv     *)
(* that the invocation broadcast one transaction per transact step it      *)
(* passed.  AttemptsBounded makes a new invocation start with nothing.     *)
(***************************************************************************)
ProgramSteps == UNION {{Program[m][k] : k \in 1..Len(Program[m])} : m \in DOMAIN Program}

PoolRec == [attempt: Nat, fn: {st.fn : st \in ProgramSteps}]

Mine == SentBy(attempt)

Owed == step > 1 /\ Prog[step - 1].kind = "transact"

TxSteps(s) == {k \in 1..s - 1 : Prog[k].kind = "transact"}

Active == status \in {"running", "returned"}

TypeInv ==
    /\ method \in Called
    /\ attempt \in 0..MaxAttempts
    /\ status \in {"idle", "running", "returned", "raised"}
    /\ step \in Nat
    /\ pool \in Seq(PoolRec)
    /\ tx \in 0..Len(pool)
    /\ confirmed \subseteq 1..Len(pool)
    /\ Active => step \in 1..Len(Prog) + 1
    /\ status = "returned" => step = Len(Prog) + 1

AttemptsBounded == \A p \in 1..Len(pool) : pool[p].attempt <= attempt

PendingInv ==
    Active => /\ Owed => tx \in Mine /\ Mine \ {tx} \subseteq confirmed
              /\ ~Owed => Mine \subseteq confirmed

CountInv == Active => Cardinality(Mine) = Cardinality(TxSteps(step))

IInv == TypeInv /\ AttemptsBounded /\ PendingInv /\ CountInv /\ NextTxAfterConfirmation

\* The program being run has the shape, and its length is a number.
LEMMA ProgFacts ==
    ASSUME TypeInv
    PROVE  WellFormed(Prog) /\ Len(Prog) \in Nat
BY ProgramsWellFormed, ELWriterAssumption DEF TypeInv, Prog, WellFormed

\* The sets the invariant counts are finite.
LEMMA MineFinite ==
    ASSUME TypeInv
    PROVE  /\ Mine \subseteq 1..Len(pool) /\ IsFiniteSet(Mine)
           /\ \A s \in Nat : IsFiniteSet(TxSteps(s))
<1>1. Mine \subseteq 1..Len(pool)
    BY DEF Mine, SentBy
<1>2. IsFiniteSet(Mine)
    <2>1. Len(pool) \in Nat
        BY LenProperties DEF TypeInv
    <2>2. IsFiniteSet(1..Len(pool))
        BY <2>1, FS_Interval
    <2>3. QED
        BY <1>1, <2>2, FS_Subset
<1>3. ASSUME NEW s \in Nat PROVE IsFiniteSet(TxSteps(s))
    <2>1. TxSteps(s) \subseteq 1..s - 1
        BY DEF TxSteps
    <2>2. IsFiniteSet(1..s - 1)
        BY FS_Interval
    <2>3. QED
        BY <2>1, <2>2, FS_Subset
<1>4. QED
    BY <1>1, <1>2, <1>3

LEMMA InitIInv == Init => IInv
<1> SUFFICES ASSUME Init PROVE IInv
    OBVIOUS
<1>1. TypeInv
    BY ELWriterAssumption DEF Init, TypeInv, Active
<1>2. QED
    BY <1>1 DEF Init, IInv, AttemptsBounded, PendingInv, CountInv, Active,
                NextTxAfterConfirmation

\* A step that raises and touches neither the pool nor the confirmations.
LEMMA QuietRaise ==
    ASSUME IInv, status' = "raised",
           UNCHANGED <<method, attempt, step, tx, pool, confirmed>>
    PROVE  IInv'
<1>1. TypeInv'
    BY DEF IInv, TypeInv, Active, Prog
<1>2. QED
    BY <1>1 DEF IInv, AttemptsBounded, PendingInv, CountInv, Active,
                NextTxAfterConfirmation

\* A step that is neither transact nor Send and moves to the next step.
LEMMA QuietAdvance ==
    ASSUME IInv, status = "running", step \in 1..Len(Prog),
           Cur.kind \notin {"transact", "send"},
           step' = step + 1, status' = "running",
           UNCHANGED <<method, attempt, tx, pool, confirmed>>
    PROVE  IInv'
<1>1. WellFormed(Prog) /\ Len(Prog) \in Nat
    BY ProgFacts DEF IInv
<1>2. ~Owed
    BY <1>1 DEF Owed, WellFormed, Cur
<1>3. Mine \subseteq confirmed
    BY <1>2 DEF IInv, PendingInv, Active
<1>4. ~Owed'
    BY DEF Owed, Cur, Prog
<1>5. UNCHANGED Mine /\ UNCHANGED Prog
    BY DEF Mine, SentBy, Prog
<1>6. TxSteps(step + 1) = TxSteps(step)
    BY DEF TxSteps, Cur
<1>7. TypeInv'
    BY <1>1, <1>5 DEF IInv, TypeInv, Active
<1>8. PendingInv'
    BY <1>3, <1>4, <1>5 DEF PendingInv
<1>9. CountInv'
    BY <1>5, <1>6 DEF IInv, CountInv, Active, TxSteps
<1>10. QED
    BY <1>7, <1>8, <1>9 DEF IInv, AttemptsBounded, NextTxAfterConfirmation

\* What appending the transaction of a transact step does, whether or not
\* its answer is lost: it is the invocation's first unconfirmed transaction.
LEMMA AppendFacts ==
    ASSUME IInv, Running("transact"),
           pool' = Append(pool, [attempt |-> attempt, fn |-> Cur.fn]),
           UNCHANGED <<method, attempt, confirmed>>
    PROVE  /\ Mine \subseteq confirmed
           /\ pool' \in Seq(PoolRec) /\ Len(pool') = Len(pool) + 1
           /\ Mine' = Mine \cup {Len(pool) + 1}
           /\ Len(pool) + 1 \notin Mine
           /\ AttemptsBounded' /\ NextTxAfterConfirmation'
<1> DEFINE r == [attempt |-> attempt, fn |-> Cur.fn]
<1>1. WellFormed(Prog) /\ Len(Prog) \in Nat
    BY ProgFacts DEF IInv
<1>2. ~Owed
    BY <1>1 DEF Owed, WellFormed, Cur, Running
<1>3. Mine \subseteq confirmed
    BY <1>2 DEF IInv, PendingInv, Active, Running
<1>4. r \in PoolRec
    <2>1. Cur \in ProgramSteps
        BY ELWriterAssumption DEF Running, Cur, Prog, ProgramSteps, IInv, TypeInv
    <2>2. QED
        BY <2>1 DEF PoolRec, IInv, TypeInv
<1>5. /\ pool' \in Seq(PoolRec) /\ Len(pool') = Len(pool) + 1
      /\ \A p \in 1..Len(pool) : pool'[p] = pool[p]
      /\ pool'[Len(pool) + 1] = r
    BY <1>4, AppendProperties DEF IInv, TypeInv
<1>6. Len(pool) \in Nat
    BY LenProperties DEF IInv, TypeInv
<1>7. Mine' = Mine \cup {Len(pool) + 1}
    BY <1>5, <1>6 DEF Mine, SentBy
<1>8. Len(pool) + 1 \notin Mine
    BY <1>6 DEF Mine, SentBy
<1>9. AttemptsBounded'
    BY <1>5, <1>6 DEF IInv, AttemptsBounded, TypeInv
<1>10. NextTxAfterConfirmation'
    <2> SUFFICES ASSUME NEW p \in 1..Len(pool'), NEW q \in 1..Len(pool'),
                        p < q, pool'[p].attempt = pool'[q].attempt
                 PROVE  p \in confirmed
        BY DEF NextTxAfterConfirmation
    <2>1. CASE q = Len(pool) + 1
        <3>1. p \in 1..Len(pool) /\ pool[p].attempt = attempt
            BY <1>5, <1>6, <2>1
        <3>2. p \in Mine
            BY <3>1 DEF Mine, SentBy
        <3>3. QED
            BY <1>3, <3>2
    <2>2. CASE q \in 1..Len(pool)
        BY <1>5, <1>6, <2>2 DEF IInv, NextTxAfterConfirmation
    <2>3. QED
        BY <1>5, <1>6, <2>1, <2>2
<1>11. QED
    BY <1>3, <1>5, <1>7, <1>8, <1>9, <1>10

\* transact: the transaction is accepted, rejected, or accepted with its
\* answer lost.
LEMMA TransactIInv ==
    ASSUME IInv, Transact
    PROVE  IInv'
<1> DEFINE sent == Append(pool, [attempt |-> attempt, fn |-> Cur.fn])
           n == Len(pool) + 1
<1>0. /\ Running("transact")
      /\ UNCHANGED <<method, claimsEmpty, attempt, confirmed>>
    BY DEF Transact
<1>1. CASE Cur.need # "-" /\ Cur.need \notin Injected
    <2>1. status' = "raised" /\ UNCHANGED <<step, tx, pool>>
        BY <1>1 DEF Transact, Raise
    <2>2. QED
        BY <1>0, <2>1, QuietRaise
<1>2. CASE pool' = sent /\ tx' = Len(sent) /\ Advance /\ UNCHANGED status
    <2>1. /\ Mine \subseteq confirmed
          /\ pool' \in Seq(PoolRec) /\ Len(pool') = n
          /\ Mine' = Mine \cup {n} /\ n \notin Mine
          /\ AttemptsBounded' /\ NextTxAfterConfirmation'
        BY <1>0, <1>2, AppendFacts
    <2>2. /\ Len(Prog) \in Nat /\ step \in 1..Len(Prog) /\ Cur.kind = "transact"
          /\ UNCHANGED Prog /\ tx' = n /\ step' = step + 1 /\ status' = "running"
        BY <1>0, <1>2, ProgFacts, AppendProperties
           DEF IInv, TypeInv, Running, Advance, Prog
    <2>3. TypeInv'
        <3>1. Len(pool) \in Nat
            BY LenProperties DEF IInv, TypeInv
        <3>2. QED
            BY <1>0, <2>1, <2>2, <3>1 DEF IInv, TypeInv, Active
    <2>4. PendingInv'
        <3>1. Owed'
            BY <2>2 DEF Owed, Cur
        <3>2. tx' \in Mine' /\ Mine' \ {tx'} \subseteq confirmed'
            BY <2>1, <2>2, <1>0
        <3>3. QED
            BY <3>1, <3>2 DEF PendingInv
    <2>5. CountInv'
        <3>1. Cardinality(Mine) = Cardinality(TxSteps(step))
            BY <1>0 DEF IInv, CountInv, Active, Running
        <3>2. IsFiniteSet(Mine) /\ IsFiniteSet(TxSteps(step))
            <4>1. TypeInv /\ step \in Nat
                BY <2>2 DEF IInv
            <4>2. QED
                BY <4>1, MineFinite
        <3>3. Cardinality(Mine') = Cardinality(Mine) + 1
            BY <2>1, <3>2, FS_AddElement
        <3>4. TxSteps(step + 1) = TxSteps(step) \cup {step} /\ step \notin TxSteps(step)
            BY <2>2 DEF TxSteps, Cur
        <3>5. Cardinality(TxSteps(step + 1)) = Cardinality(TxSteps(step)) + 1
            BY <3>2, <3>4, FS_AddElement
        <3>6. QED
            BY <2>2, <3>1, <3>3, <3>5 DEF CountInv, TxSteps
    <2>6. QED
        BY <2>1, <2>3, <2>4, <2>5 DEF IInv
<1>3. CASE CallsCanFail /\ Raise /\ UNCHANGED <<step, tx, pool>>
    BY <1>0, <1>3, QuietRaise DEF Raise
<1>4. CASE LostResponses /\ pool' = sent /\ Raise /\ UNCHANGED <<step, tx>>
    <2>1. /\ pool' \in Seq(PoolRec) /\ Len(pool') = n
          /\ AttemptsBounded' /\ NextTxAfterConfirmation'
        BY <1>0, <1>4, AppendFacts
    <2>2. Len(pool) \in Nat
        BY LenProperties DEF IInv, TypeInv
    <2>3. TypeInv'
        BY <1>0, <1>4, <2>1, <2>2 DEF IInv, TypeInv, Active, Raise, Prog
    <2>4. ~Active'
        BY <1>4 DEF Active, Raise
    <2>5. QED
        BY <2>1, <2>3, <2>4 DEF IInv, PendingInv, CountInv
<1>5. QED
    BY <1>1, <1>2, <1>3, <1>4 DEF Transact

\* Send returns for the owed transaction, or raises.
LEMMA SendIInv ==
    ASSUME IInv, Send
    PROVE  IInv'
<1>0. /\ Running("send") /\ UNCHANGED <<method, claimsEmpty, attempt, tx, pool>>
    BY DEF Send
<1>1. CASE status' = "raised" /\ UNCHANGED <<step, confirmed>>
    BY <1>0, <1>1, QuietRaise
<1>2. CASE confirmed' = confirmed \cup {tx} /\ Advance /\ UNCHANGED status
    <2>1. WellFormed(Prog) /\ Len(Prog) \in Nat
        BY ProgFacts DEF IInv
    <2>2. step \in 1..Len(Prog) /\ Cur.kind = "send" /\ status = "running"
        BY <1>0 DEF Running
    <2>3. Owed
        BY <2>1, <2>2 DEF Owed, WellFormed, Cur
    <2>4. tx \in Mine /\ Mine \ {tx} \subseteq confirmed
        BY <2>2, <2>3 DEF IInv, PendingInv, Active
    <2>5. /\ ~Owed' /\ UNCHANGED Mine /\ UNCHANGED Prog
          /\ step' = step + 1 /\ status' = "running"
        BY <1>0, <1>2, <2>2 DEF Owed, Cur, Prog, Mine, SentBy, Advance
    <2>6. Mine \subseteq 1..Len(pool)
        BY DEF Mine, SentBy
    <2>7. TypeInv'
        BY <1>0, <1>2, <2>1, <2>2, <2>4, <2>5, <2>6 DEF IInv, TypeInv, Active
    <2>8. PendingInv'
        BY <1>2, <2>4, <2>5 DEF PendingInv
    <2>9. CountInv'
        <3>1. TxSteps(step + 1) = TxSteps(step)
            BY <2>2 DEF TxSteps, Cur
        <3>2. QED
            BY <2>2, <2>5, <3>1 DEF IInv, CountInv, Active, TxSteps
    <2>10. NextTxAfterConfirmation' /\ AttemptsBounded'
        BY <1>0, <1>2 DEF IInv, NextTxAfterConfirmation, AttemptsBounded
    <2>11. QED
        BY <2>7, <2>8, <2>9, <2>10 DEF IInv
<1>3. QED
    BY <1>0, <1>1, <1>2 DEF Send, Raise, Advance

\* The caller invokes the method, for the first time or after a raise: the
\* new invocation has broadcast nothing yet.
LEMMA InvokeIInv ==
    ASSUME IInv, Invoke
    PROVE  IInv'
<1>1. /\ status \in {"idle", "raised"} /\ attempt < MaxAttempts
      /\ attempt' = attempt + 1 /\ status' = "running" /\ step' = 1 /\ tx' = 0
      /\ UNCHANGED <<method, pool, confirmed>>
    BY DEF Invoke
<1>2. Len(Prog) \in Nat /\ UNCHANGED Prog
    BY <1>1, ProgFacts DEF IInv, Prog
<1>3. Mine' = {}
    BY <1>1 DEF IInv, AttemptsBounded, TypeInv, Mine, SentBy
<1>4. ~Owed' /\ TxSteps(1) = {}
    BY <1>1 DEF Owed, TxSteps
<1>5. TypeInv'
    BY <1>1, <1>2, ELWriterAssumption DEF IInv, TypeInv, Active
<1>6. AttemptsBounded'
    <2>1. \A p \in 1..Len(pool) : pool[p].attempt \in Nat
        <3>1. \A p \in 1..Len(pool) : pool[p] \in PoolRec
            BY ElementOfSeq DEF IInv, TypeInv
        <3>2. QED
            BY <3>1 DEF PoolRec
    <2>2. QED
        BY <1>1, <2>1 DEF IInv, AttemptsBounded, TypeInv
<1>7. CountInv'
    BY <1>1, <1>3, <1>4, FS_EmptySet DEF CountInv, TxSteps
<1>8. QED
    BY <1>1, <1>3, <1>4, <1>5, <1>6, <1>7
       DEF IInv, PendingInv, NextTxAfterConfirmation

\* The method returns past its last step.
LEMMA ReturnIInv ==
    ASSUME IInv, Return
    PROVE  IInv'
<1>1. /\ status = "running" /\ status' = "returned" /\ step = Len(Prog) + 1
      /\ UNCHANGED <<method, attempt, step, tx, pool, confirmed>>
    BY DEF Return
<1>2. UNCHANGED Prog /\ UNCHANGED Mine /\ UNCHANGED Owed
    BY <1>1 DEF Prog, Mine, SentBy, Owed
<1>3. TypeInv'
    BY <1>1, <1>2 DEF IInv, TypeInv, Active
<1>4. QED
    BY <1>1, <1>2, <1>3 DEF IInv, AttemptsBounded, PendingInv, CountInv, Active,
                           NextTxAfterConfirmation, TxSteps

\* IInv is inductive.
LEMMA NextIInv == IInv /\ [Next]_vars => IInv'
<1> SUFFICES ASSUME IInv, [Next]_vars PROVE IInv'
    OBVIOUS
<1>1. CASE ContractGuard
    <2>1. Running("guard") /\ Cur.kind \notin {"transact", "send"}
        BY <1>1 DEF ContractGuard, Running
    <2>2. CASE Cur.need \in Provided
        BY <1>1, <2>1, <2>2, QuietAdvance DEF ContractGuard, Running, Advance
    <2>3. CASE ~(Cur.need \in Provided)
        BY <1>1, <2>3, QuietRaise DEF ContractGuard, Raise
    <2>4. QED
        BY <2>2, <2>3
<1>2. CASE CollaboratorCall
    <2>1. /\ Running("opts") \/ Running("call")
          /\ Cur.kind \notin {"transact", "send"}
        BY <1>2 DEF CollaboratorCall, Running
    <2>2. PICK ok \in Outcomes :
            IF Cur.need \in Injected /\ ok THEN Advance /\ UNCHANGED status
            ELSE Raise /\ UNCHANGED step
        BY <1>2 DEF CollaboratorCall
    <2>3. CASE Cur.need \in Injected /\ ok
        BY <1>2, <2>1, <2>2, <2>3, QuietAdvance DEF CollaboratorCall, Running, Advance
    <2>4. CASE ~(Cur.need \in Injected /\ ok)
        BY <1>2, <2>2, <2>4, QuietRaise DEF CollaboratorCall, Raise
    <2>5. QED
        BY <2>3, <2>4
<1>3. CASE BoundMethod
    <2>1. Running("alias") /\ Cur.kind \notin {"transact", "send"}
        BY <1>3 DEF BoundMethod, Running
    <2>2. CASE Cur.need \in Injected
        BY <1>3, <2>1, <2>2, QuietAdvance DEF BoundMethod, Running, Advance
    <2>3. CASE ~(Cur.need \in Injected)
        BY <1>3, <2>3, QuietRaise DEF BoundMethod, Raise
    <2>4. QED
        BY <2>2, <2>3
<1>4. CASE UndefinedGlobal
    BY <1>4, QuietRaise DEF UndefinedGlobal, Raise
<1>5. CASE RequireClaims
    <2>1. Running("require") /\ Cur.kind \notin {"transact", "send"}
        BY <1>5 DEF RequireClaims, Running
    <2>2. CASE ~claimsEmpty
        BY <1>5, <2>1, <2>2, QuietAdvance DEF RequireClaims, Running, Advance
    <2>3. CASE ~(~claimsEmpty)
        BY <1>5, <2>3, QuietRaise DEF RequireClaims, Raise
    <2>4. QED
        BY <2>2, <2>3
<1>6. CASE Transact
    BY <1>6, TransactIInv
<1>7. CASE Send
    BY <1>7, SendIInv
<1>8. CASE LogReceipt
    <2>1. Running("receipt") /\ Cur.kind \notin {"transact", "send"}
        BY <1>8 DEF LogReceipt, Running
    <2>2. PICK ok \in Outcomes :
            IF ok THEN Advance /\ UNCHANGED status ELSE Raise /\ UNCHANGED step
        BY <1>8 DEF LogReceipt
    <2>3. CASE ok
        BY <1>8, <2>1, <2>2, <2>3, QuietAdvance DEF LogReceipt, Running, Advance
    <2>4. CASE ~ok
        BY <1>8, <2>2, <2>4, QuietRaise DEF LogReceipt, Raise
    <2>5. QED
        BY <2>3, <2>4
<1>9. CASE Return
    BY <1>9, ReturnIInv
<1>10. CASE Invoke
    BY <1>10, InvokeIInv
<1>11. CASE UNCHANGED vars
    <2>1. UNCHANGED <<Prog, Mine, Owed>>
        BY <1>11 DEF vars, Prog, Mine, SentBy, Owed
    <2>2. QED
        BY <1>11, <2>1 DEF vars, IInv, TypeInv, AttemptsBounded, PendingInv, CountInv,
                           Active, NextTxAfterConfirmation, TxSteps
<1>12. QED
    BY <1>1, <1>2, <1>3, <1>4, <1>5, <1>6, <1>7, <1>8, <1>9, <1>10, <1>11
       DEF Next, Writer

\* A method that returns is past its last step, so nothing is owed when the
\* program ends in a Send or after it.
LEMMA IInvReturned == IInv => ReturnedMeansConfirmed
<1> SUFFICES ASSUME IInv, status = "returned", Sends(Prog)
             PROVE  /\ SentBy(attempt) \subseteq confirmed
                    /\ Cardinality(SentBy(attempt))
                         = Cardinality({s \in 1..Len(Prog) : Prog[s].kind = "transact"})
    BY DEF ReturnedMeansConfirmed
<1>1. WellFormed(Prog) /\ Len(Prog) \in Nat /\ step = Len(Prog) + 1
    BY ProgFacts DEF IInv, TypeInv
<1>2. ~Owed
    BY <1>1 DEF Owed, WellFormed
<1>3. Mine \subseteq confirmed
    BY <1>2 DEF IInv, PendingInv, Active
<1>4. Cardinality(Mine) = Cardinality(TxSteps(step))
    BY DEF IInv, CountInv, Active
<1>5. TxSteps(step) = {s \in 1..Len(Prog) : Prog[s].kind = "transact"}
    BY <1>1 DEF TxSteps
<1>6. QED
    BY <1>3, <1>4, <1>5 DEF Mine

\* deposit_erc20_into_strategy broadcasts its deposit only after Send
\* returned for its approval; in general no invocation of a write method
\* broadcasts a transaction while an earlier one of its own is unconfirmed,
\* for any handles, attributes, failures and retries.
THEOREM NextTxAfterConfirmationThm == Spec => []NextTxAfterConfirmation
<1>1. Init => IInv
    BY InitIInv
<1>2. IInv /\ [Next]_vars => IInv'
    BY NextIInv
<1>3. IInv => NextTxAfterConfirmation
    BY DEF IInv
<1>4. QED
    BY <1>1, <1>2, <1>3, PTL DEF Spec

\* A write method (one that calls the tx manager's Send) that returns has
\* had Send return for every transaction it broadcast, and broadcast exactly
\* one per transact step of its program.
THEOREM ReturnedMeansConfirmedThm == Spec => []ReturnedMeansConfirmed
<1>1. Init => IInv
    BY InitIInv
<1>2. IInv /\ [Next]_vars => IInv'
    BY NextIInv
<1>3. IInv => ReturnedMeansConfirmed
    BY IInvReturned
<1>4. QED
    BY <1>1, <1>2, <1>3, PTL DEF Spec

=============================================================================
