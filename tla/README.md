# Formal models of eigensdk-python's EigenLayer readers

This directory holds TLA+ models of the EigenLayer client code in
`src/eigensdk/chainio/clients/elcontracts/` and `src/tests/elreader/`. It has
TLC configurations that check the models on small instances, and TLAPS proofs
that hold for every value of the constants.

## 1. The system and its parts

The SDK wraps the EigenLayer core contracts. It has these parts:

- **ELReader.** The versions are `reader.py`, and `elreader.py` under the test
  tree, which is the one the tests use. Nearly every method checks a contract
  handle for `None`, makes one view call (`.call()`, with no
  `block_identifier`, so the node uses its newest block) and reshapes the
  tuple it gets back. A few do more: `get_allocation_delay` raises for an
  unset delay, `get_operator_details` makes two calls and turns an unset
  delay into 0, `get_allocation_info` checks two list lengths, the
  operator-set readers reject a legacy id 0, `check_claim` answers `False`
  when its call raises, and `get_strategy_and_underlying_erc20_token` uses a
  name that is never imported. `reader.py` as shipped cannot even be imported:
  `Optional` (line 450) is not imported from `typing`; the model describes the
  class as written.
- **The aggregation `get_slashable_shares_for_operator_sets_before`**
  (`elreader.py:1157-1234`). This is the one reader with real control flow. For
  each operator-set dict of the input list, in order, it:
  1. renames `id` to `Id` *in the caller's dict*;
  2. checks that `Id` and `Avs` are present;
  3. rejects `Id == 0`;
  4. calls `get_operators_for_operator_set`, which checksums the address and
     calls `getMembers`;
  5. rejects an empty list;
  6. calls `get_strategies_for_operator_set` (`getStrategiesInOperatorSet`);
  7. rejects an empty list;
  8. calls `getMinimumSlashableStake(set, operators, strategies, future_block)`;
  9. appends a snapshot.

  The first error of any kind returns `(None, error)`.
- **`get_slashable_shares`** (`elreader.py:1093-1127`) does the same for a
  single operator. It reads `block_number` and passes it as the block.
- **`reader.py`'s `get_slashable_shares_for_operator_sets`** is defined twice
  (lines 400 and 632). Both definitions call
  `self.GetSlashableSharesForOperatorSetsBefore`, which no class defines.
- **ELWriter** (`writer.py`, and a test-tree copy `elwriter.py`). Each write
  method checks a contract handle, gets no-send options from `self.tx_mgr`,
  calls `.transact(...)` (which broadcasts the transaction), and then calls
  `self.tx_mgr.Send`. Each step is in its own `try` that re-raises as one
  `ValueError`. Some methods add steps: `deposit_erc20_into_strategy` asks
  `self.elChainReader` for the token, then sends an approval and a deposit;
  `process_claims` rejects an empty list; `register_for_operator_sets` calls
  two helpers that are neither defined nor imported; the permission methods
  call `self.NewXTx` methods the class never binds. `__init__` never assigns
  `tx_mgr`, `elChainReader`, `strategy_manager_addr` or those methods; the
  tests assign `tx_mgr` themselves.
- **The chain.** This is the external collaborator. Blocks may be mined
  between any two calls of a reader, and they change membership, strategies
  and stake.

The parts interact only through the chain. The readers issue view calls one
after another, and the chain moves underneath them.

## 2. Modules and how they map to the code

| Module | Models | State | Actions |
|---|---|---|---|
| `Ledger` | The chain, as the environment | `chain`: a sequence of contract states, where `chain[h]` is the state after block h | `Produce` (a block is mined) |
| `SlashableShares` | `get_slashable_shares_for_operator_sets_before` and the two readers it calls | `keys` (the caller's list, mutated in place), `allocMgr`, `pc`, `i`, `ops`, `strats`, `result`, `err`, and a history `calls` of every contract call with the height it read | `CheckAllocationManager`, `ValidateOperatorSet`, `get_operators_for_operator_set`, `get_strategies_for_operator_set`, `FetchSlashableStake`, `ReturnStakes`, plus the chain's `Produce` |
| `AggregateSpec` | What an aggregation promises (spec §4.4), abstract | `chain`, `input`, `outcome`, `snapshots` | `Finish` (all snapshots in one step, from reads at non-decreasing heights), `Fail`, `Mine` |
| `MCSlashableShares` | The TLC instance: two ledger states that differ in every view | | |
| `SlashableSharesProofs` | The TLAPS proofs of the invariants | | |
| `SlashableSharesRefinement` | The TLAPS proof that `SlashableShares` implements `AggregateSpec` | | |
| `ELWriter` | Every write method of `writer.py` | `method`, `attempt`, `status`, `step` (program counter), `tx` (the local `tx`), `pool` (every transaction the node accepted, with the attempt that sent it), `confirmed` (those `Send` returned for), `claimsEmpty` | `Invoke` (the caller calls, or retries after a raise), and one action per kind of step: `ContractGuard`, `CollaboratorCall`, `BoundMethod`, `UndefinedGlobal`, `RequireClaims`, `Transact`, `Send`, `LogReceipt`, `Return` |
| `MCELWriter` | The TLC instance (`Called` is every method) | | |
| `ELReader` | Every method of `reader.py` | `chain`, `method`, `key` (its operator-set argument), `status`, `step`, `calls` (every view call with its height, outcome and answer), `result` | `ContractGuard`, `LegacyCheck`, `ViewCall`, `DelayCheck`, `LengthCheck`, `UndefinedGlobal`, `Return`, and the chain's `Produce` |
| `MCELReader` | The TLC instance: two contract states that differ in every answer | | |
| `ELWriterProofs` | The TLAPS proofs of the `ELWriter` invariants | | |
| `ELReaderProofs` | The TLAPS proofs of the `ELReader` invariants | | |

### Abstractions

- **Input dicts.** A dict is abstracted to the operator set it names and its
  *form*. The form is the one thing about the dict that the validation tells
  apart: `ok`, `lowerId` (the id is under `id`), `noId`, `noAvs`, `legacy`
  (Id 0) or `badAvs` (rejected by `to_checksum_address`). The rename
  `id`→`Id` is modelled as rewriting the form of `keys[i]` to `ok`.
- **Ordered lists.** The lists of operators and strategies are abstracted to
  sets. The contract answers the stake query for exactly the lists it is
  given, so the positions line up by construction.
- **The stake reply** is a matrix over Operators × Strategies. A cell the
  reply does not contain holds `NoEntry`. `Replies` gives the exact matrix of
  the newest block. With `MalformedReplies` it also gives one with a requested
  cell missing, as a truncating node would return.
- **Calls and errors.** Each contract call is one atomic step that reads
  `Newest`. With `CallCanFail` a call may raise. Errors are named by their
  cause, such as `"format"`, `"checksum"` or `"noOperators"`. Message text is
  left out.

- **Writer and reader methods as programs.** In `ELWriter` and `ELReader`
  each method is a definition named after it: the sequence of its steps in
  source order (`Getter(h, fn)` is the common "check handle, one view call"
  shape). The variables `status` and `step` run the program, one action per
  kind of step. The arguments of a contract call, the tuple reshaping and the
  error wording are left out; an answer is kept only where a check in the code
  or a property reads it (registered sets, AVS status, allocation delay,
  `CheckClaim`).
- **Transactions.** `pool` is what the node accepted; it is never recalled.
  `Transact` has three outcomes: accepted (the local `tx` is set), rejected
  (`CallsCanFail`; nothing is broadcast), and accepted with the answer lost
  (`LostResponses`; the call raises with the transaction out).

`PROJECT.json` ("map") gives the source lines of every definition.

## 3. Runs

All the cfgs use:

- OpSets {s1, s2};
- Operators {o1, o2};
- Strategies {t1};
- Stakes {0, 1};
- two ledger states `StateA` and `StateB`. They differ in each set's members,
  in whether s2 has any strategy, and in o1's stake;
- MaxHeight 3, which allows two blocks to be mined during one call;
- MaxKeys 2, which allows input lists of length 0, 1 and 2.

Two keys and two blocks are enough for all of these cases:

- a valid key followed by an invalid one;
- a block mined between the reads of one set;
- a block mined between the reads of two different sets;
- an empty set.

`CHECK_DEADLOCK FALSE` is set because the method returns: `"done"` and
`"failed"` are final states, and nothing happens after them.

| Run | cfg | Expect | What it shows |
|---|---|---|---|
| slashable_pass | `MCSlashableShares.cfg` | pass (23,896 states) | Every form of input is allowed, any call may raise, and the chain moves between calls. Under these conditions a successful call returns one snapshot per input set, in input order (`ResultFollowsInput`), and only if no call raised (`FailuresSurface`). The loop implements `AggregateSpec` (`ImplementsAggregate`, below). |
| point_in_time | `MCPointInTime.cfg` | violation | `SinglePointInTime`. Members and strategies are read at the newest block, and only the stake call gets `future_block`. A block mined between them gives a snapshot that matches no height. |
| validate_first | `MCValidateFirst.cfg` | violation | `ValidateBeforeAnyCall`. An input `[ok, legacy]` issues three calls before it is rejected. |
| empty_set | `MCEmptySet.cfg` | violation | `EmptySetIsNotAnError`. A set with no members fails the whole call. |
| stake_shape | `MCShape.cfg` | violation | `StakeShapeMatches`. A short reply is stored without a check. |

Each violation run is a finding in `PROJECT.json`. The code departs from
`spec.md` §3, §4.4/§8, §4.3/§8 and §4.3 respectively.

**Refinement.** `SlashableShares` defines `Aggregate == INSTANCE AggregateSpec`
with the mapping: `input` is the list of sets the caller's dicts name (the
in-place rename keeps them), `outcome` is `"returned"`, `"failed"` or
`"pending"` from `pc`, and `snapshots` is `result` once the call returned.
Every step of the loop but `ReturnStakes` is a stutter of the abstract spec,
a mined block is `Mine`, and `ReturnStakes` is `Finish`: TLC finds read
heights, three per set and never decreasing, that build exactly the returned
snapshots. This is the consistency the code does give; `point_in_time` shows
it does not give the stronger single-height one.

The writer and the reader runs:

| Run | cfg | Expect | What it shows |
|---|---|---|---|
| writer_pass | `MCELWriter.cfg` | pass (1,587 states) | Every write method and `new_*_tx` builder; every handle and attribute assigned, the permission controller included; the node and tx manager may raise, and `transact` may lose its answer; one retry. Within one invocation a transaction is broadcast only after `Send` returned for the previous one (`NextTxAfterConfirmation`, which matters for the approval and deposit of `deposit_erc20_into_strategy`); a write method that returns had `Send` return for each of its transactions, one per `transact` of its program (`ReturnedMeansConfirmed`; the `new_*_tx` builders are excluded, because by design they return a broadcast transaction without sending it). |
| writer_raised | `MCWriterRaised.cfg` | violation | `RaisedCallLeftNoTx`. The comments say `transact` only creates the transaction and `Send` sends it; in fact a write whose `Send` raises has already broadcast it, and a retry broadcasts a second one. |
| writer_constructed | `MCWriterConstructed.cfg` | violation | `ConstructedWriterWrites`. A writer as `__init__` builds it fails every write at `self.tx_mgr`. |
| reader_pass | `MCELReader.cfg` | pass (4,848 states) | Every reader method but `check_claim`; calls may raise, replies may have unequal lengths, a block may be mined mid-call, the AVSDirectory handle is `None`. A returned answer comes only from calls that returned (`NoFailureAsData`). `NoUnsetAsZero` is checked only in the `operator_details` run: once `get_operator_details` is left out, `get_allocation_delay` is the only other reader of the delay, and the property would only restate its `if not is_set: raise`. |
| check_claim | `MCCheckClaim.cfg` | violation | `NoFailureAsData`. `check_claim` answers `False` when its call raises (§7, §9). |
| operator_details | `MCOperatorDetails.cfg` | violation | `NoUnsetAsZero`. `get_operator_details` returns an unset delay as 0, where `get_allocation_delay` raises (§9). |

The writer instance bounds: every one of the 25 methods, `MaxAttempts` 2 (a
first call and one retry, enough for a duplicate). The reader instance: set
ids {0, 1} (legacy and not), one AVS, delays {0, 7} with set and unset, and
`MaxHeight` 2 (one block mined during the call).

Each property of the passing run has a mutant: the same run with one code
definition replaced by a plausible bug, which TLC must catch.

- `ReturnStakesEarly` ends the loop one set too soon. It breaks
  `ResultFollowsInput`.
- `FetchSlashableStakeDefaulting` stores a default stake when the call raises.
  It breaks `FailuresSurface`.
- `FetchSlashableStakeAtFirstBlock` reads the stake at the block the call began
  at. It breaks `ImplementsAggregate`.
- `ReturnEarly` (writer) returns one step too soon. It breaks
  `ReturnedMeansConfirmed`.
- `DepositWithoutWaiting` broadcasts the deposit before sending the approval.
  It breaks `NextTxAfterConfirmation`.
- `CanCallDefaultingFalse` makes `can_call` answer `False` on failure. It
  breaks `NoFailureAsData`.

### Fairness

`SlashableShares` and `ELReader` assume only `WF_vars(Reader)`, and
`ELWriter` only `WF_vars(Writer)`; none assumes anything of the caller's
retries (`Invoke`) or of the chain. This describes the code: each method is a
sequential loop, or straight-line code, of blocking calls that return or
raise. No liveness property is checked. Ending is a consequence of that
shape: the loop runs over a finite list, and the write programs have a
fixed number of steps. So a `Termination` property would say nothing the
code could get wrong. A call that hangs forever is the one real way not to
end, and the code has no defence against it. That is a question about the
node, which is outside this repository.

## 4. What is proved

`SlashableSharesProofs.tla` is checked by `tlapm`. Its proofs use the
assumptions `LedgerAssumption` and `SlashableSharesAssumption` (nonempty
ledger states, MaxHeight ≥ 1, `NoEntry` not a stake). They hold for any sizes
of OpSets, Operators, Strategies, MaxKeys and MaxHeight.

- **`TypeCorrect`: `Spec => []TypeOK`.** TypeOK alone is not inductive: in
  the states `members`, `strategies` and `stake` the actions index
  `keys[i]`. The inductive invariant `TypeInv` therefore adds
  `pc ∈ Busy => i ∈ 1..Len(keys)`.
- **`ResultFollowsInputThm`: `Spec => []ResultFollowsInput`.** The inductive
  invariant `OrderInv` says three things: `Len(result) = i - 1`; each
  `result[j]` names `keys[j].set`; and `done` implies `i = Len(keys) + 1`.
  The proof has to show that the in-place rename of `keys[i]` keeps `.set`,
  and that `i` and `result` advance together.
- **`FailuresSurfaceThm`: `Spec => []FailuresSurface`.** The inductive
  invariant `SurfaceInv` says that while the reader has not failed, every call
  in the history returned. The key step is that every action that issues a
  call with `ok = FALSE` moves to `failed`.

- **`Refinement`: `~MalformedReplies => (Spec => ImplementsAggregate)`**, in
  `SlashableSharesRefinement.tla`. The abstract `Finish` asks for read
  heights, three per set and never decreasing, that rebuild every returned
  snapshot from the chain. The history `calls` holds those heights, but the
  loop cannot see that they rebuild `result` without an invariant, `RefInv`:
  every call height is a height of the chain (`HeightsInRange`), they never
  decrease (`HeightsOrdered`), and, while the reader has not failed, there
  are exactly `3(i-1)` calls plus the ones of the set in progress
  (`CallCount`), `result[j]` is the snapshot of `keys[j].set` read at calls
  `3j-2`, `3j-1` and `3j` (`SnapshotsRead`), and `ops` and `strats` are what
  the last calls read (`InProgressRead`). `SnapshotsRead` is preserved by a
  mined block because `Produce` only appends, so `chain[h]` never changes
  for an old `h`. With `TypeInv`, `OrderInv` and `RefInv` as the inductive
  invariant, `ReturnStakes` is `Finish` with the call heights as witness,
  a failing step is `Fail`, a block is `Mine`, and every other step is a
  stutter. The assumption `~MalformedReplies` is the one under which the stake
  answer fills exactly the snapshot's cells. With malformed replies the code
  returns a short matrix that no abstract snapshot matches, which is the
  `stake_shape` run.

- **`NextTxAfterConfirmationThm` and `ReturnedMeansConfirmedThm`**, in
  `ELWriterProofs.tla`, for any set of called methods, provided handles and
  retries (`ELWriterAssumption`). Both rest on a lemma about the programs
  themselves, `ProgramsWellFormed`, proved once per method: a `send` step
  comes right after a `transact` step and nowhere else, and a method that
  sends does not end on a `transact`. The inductive invariant adds four facts
  to the type invariant. `AttemptsBounded`: no pool entry carries a later
  attempt than the current one, so a retry starts with nothing of its own in
  the pool. `PendingInv`: while an invocation runs, at most one of its
  transactions, the one in `tx`, awaits `Send`, and only right after a
  `transact`. `CountInv`: it broadcast one transaction per `transact` step
  already passed. `NextTxAfterConfirmation` itself. `PendingInv` is what
  makes the property inductive: a `transact` step must know that the
  previous transaction was confirmed, and that follows from the program
  shape only with the invariant's knowledge of which step is pending.
  `CountInv` with the program shape gives the count in
  `ReturnedMeansConfirmed` at `Return`.
- **`NoFailureAsDataThm`: `"check_claim" ∉ Called => (Spec => []NoFailureAsData)`**,
  in `ELReaderProofs.tla`. The hypothesis leaves out exactly the method the
  `check_claim` run convicts. The program lemma `ProgramsFacts`, proved for
  each of the 59 methods, says that every read step but check_claim's raises
  on a failed call. The inductive invariant is `FailInv`: until the method
  raises, every call in the history returned. The property alone is not
  inductive, because it says nothing while the method runs, and a running
  method with a failed call in its history could still return.

Each inductive invariant was first checked with TLC as an invariant of the
pass instance.

Some things stay with TLC alone:

- `RaisedCallLeftNoTx` and `ConstructedWriterWrites`, which the code violates;
- the violation runs;
- the mutants.

## 5. Not modelled

| Part | Status |
|---|---|
| Mechanical getters of `elreader.py` (test tree) | Not modelled. Each is one stateless view call, the same shape as the `reader.py` getters that `ELReader` models. |
| `elwriter.py` (test tree) | Not modelled. Its lifecycle (broadcast in `transact`, then a receipt wait and `Send`) is the one `ELWriter` checks for `writer.py`; a receipt timeout there is another failure after the broadcast. |
| `get_slashable_shares` (single operator, `elreader.py`) | Not modelled. It passes the block number it read as `futureBlock`; what the contract does with a block already past is AllocationManager behaviour, outside this repository. |
| RPC transport, ABI encoding, logging text | Not modelled. They are I/O. |
