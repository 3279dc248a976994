# A TLA+ model of dogeos-revm

`dogeos-revm` adapts revm, an implementation of the Ethereum virtual machine, to
the DogeOS rollup (a Scroll fork): it replaces parts of revm's transaction
handler, adds the L1 data fee, L1 messages and system transactions, its own
precompiles and instructions, and a fork schedule. The crate is a library. One
caller at a time owns the EVM (`&mut self`) and runs transactions on it, so there
are no threads; what is hard is a run of a dozen phases over a journal whose
changes may be undone in several ways, a chain context that is *not* in the
journal, fees computed twice with arbitrary code in between, and rules that
differ by fork.

This directory models the crate's own logic. revm is not part of the repository:
its frames, journal and mainnet handler are modelled from how `src/src` uses them
and are marked external in `PROJECT.json`.

## 1. Inventory

| Component | State | Operations | Hard behaviour | What makes it correct |
|---|---|---|---|---|
| **Transaction handler** (`handler.rs`, `chain.rs`) | the transaction, `chain.l1_block_info`, the journal, the gas of the run | `validate_env`, `validate_initial_tx_gas`, `pre_execution`, `validate_against_state_and_deduct_caller`, `last_frame_result`, `refund`, `eip7623_check_gas_floor`, `reimburse_caller`, `reward_beneficiary`, `execution_result`, `catch_error` | an error in any phase; the fee computed again after execution; a context that outlives transactions; three fee regimes before, at and after TsukiV2, L1 messages, system transactions, system calls | money conserved; fee from the oracle as of the start; an executed transaction is never rejected; admitted transactions can pay; gas arithmetic never wraps; receipt = charge |
| **Execution interface** (`exec.rs`, `system_call.rs`) | what `finalize` handed out | `transact_one`, `inspect_one_tx`, `replay`, `system_call_one_with_caller`, `set_block`, `finalize`, `commit` | any order of them; `replay` of whatever is set | the same, over sequences of transactions |
| **Transactions, specs** (`transaction.rs`, `spec.rs`) | none | kinds of transaction, order of forks | which checks apply to whom | see handler |
| **L1 fee and oracle** (`l1block.rs`) | `L1BlockInfo`; the oracle's storage in database and journal | `try_fetch_from_journal`, `try_calculate_tx_l1_cost` | values only in the journal; fields that a fork does not fetch; saturation and caps | the fee is the exact one, up to the cap |
| **Transfer precompile** (`precompile/transfer.rs`) | balances, call frames | `run` | delegatecall, callcode, inherited static flag, reverts, overflow of the receiver | only the token moves others' money; nothing lost |
| **Instructions** (`instructions.rs`) | warmth of the history account and slots; transient storage; memory and gas of the frame | `blockhash`, `eip7709_history_sload`; `tstore`, `tload`, `mcopy`, `basefee`, `difficulty`, `clz`, `selfdestruct` | a cache that survives transactions; a load that is rolled back; cold loads that cannot be paid; inherited static flags; operands that are narrowed and memory that is paid for | EIP-7709, EIP-1153 and EIP-5656; recent hashes are served |
| **EVM configuration** (`builder.rs`, `evm.rs`, `gas.rs`) | fork, gas parameters, gas limit cap, instruction table | `new_scroll`, `set_scroll_spec`, `ScrollEvm::new` | changing the fork of a live EVM; a cap of the owner's | gas parameters and instructions of the current fork; the owner's cap stays |
| **Precompile provider** (`precompile/mod.rs`, `addresses.rs`) | the fork's precompile map | `new_with_spec`, `set_spec` | provider, configuration and warm addresses may differ for a while | transactions find exactly their fork's precompiles, warm; system calls those of the last transaction |
| **Pure precompiles** (`modexp.rs`, `hash.rs`, `bn254.rs`, `blake2.rs`) | none | length checks in front of revm's cryptography | 256-bit lengths in a header that may be cut off; sets that replace each other's entries | computed exactly within the limits; no fork takes a call back |

How they interact: the interface sets a transaction and calls the handler, which
runs to the end. `pre_execution` fetches `L1BlockInfo` through the journal; the
deduction and the reward compute the fee from it; execution runs revm's frames,
in which the overridden instructions and precompiles work on the same journal;
`execution_result` commits the transaction to the journal, and `catch_error`
discards it. Only `finalize` and `commit` move the journal to the database.

The hazards, each at its line with the properties aimed at it, are in
`PROJECT.json`.

## 2. Modules

| Module | Role |
|---|---|
| `ScrollSpecs` | forks (`ScrollSpecId`, `is_enabled_in`, `into_eth_spec_id`) and kinds of transaction |
| `ScrollValidation` | `validate_env` and `validate_initial_tx_gas` as lists of checks of which the first failing one is the error |
| `ScrollHandler` | the run of a transaction, one action per handler function, and the interface between runs |
| `FeeLedger` | abstract: a payer, a pot and a collector; what the handler promises about money |
| `ScrollHandlerProps` | properties of the handler, the refinement mapping to `FeeLedger`, the inductive invariant |
| `HandlerFees` | the handler composed with `L1Fee`: its fee constants are the formulas, with every field of the oracle |
| `ScrollValidationProofs` | lemmas about lists of checks: when one fails, and with which error; and about sums of balances |
| `ScrollHandlerProofs` | the handler's two invariants: types, gas and the inputs of the fee; admission, the charge and nonces. That it implements `FeeLedger`, keeps all money and lacks no input of the fee that the transaction supplies |
| `MCScrollHandler` | small instances |
| `MCHandlerFees` | a small instance of `HandlerFees`: forks that change between transactions, data that lacks an input |
| `L1Fee` | the four fee formulas with their saturation, `try_fetch_with`, the caps |
| `L1Oracle` | the oracle's slots in database and journal around `L1Fee`; the exact formulas as reference |
| `MCL1Oracle` | small instances |
| `L1OracleProofs` | arithmetic that saturates; the fee is exact up to the cap and grows with the size |
| `TransferPrecompile`, `MCTransferPrecompile` | the precompile inside nested call frames |
| `TransferPrecompileProofs` | who can move money, and that failed calls do not |
| `Blockhash` | the instruction, with the parts of frames and journal it depends on |
| `Eip7709` | abstract: gas and warmth of BLOCKHASH from TsukiV2, without any cache |
| `BlockhashProofs` | the hashes it serves, and that it implements `Eip7709` |
| `ScrollOpcodes`, `MCScrollOpcodes` | the other seven overridden opcodes in nested frames, with memory and transient storage |
| `Eip1153` | abstract: transient storage as every frame's snapshot, without a journal |
| `ScrollOpcodesProofs` | memory, gas and journal of nested frames, EIP-5656, and that it implements `Eip1153` |
| `PrecompileSets` | which precompile an address has in each fork |
| `ScrollConfig` | fork-dependent parts of the EVM: configuration, precompile provider, activation of opcodes |
| `ScrollConfigProofs` | what an EVM of a changing fork runs with |
| `PurePrecompiles`, `MCPurePrecompiles` | the checks in front of the precompiles without state, through the forks |
| `PurePrecompilesProofs` | modexp's header as a number, and sets of precompiles that take nothing back |

`ScrollHandler` extends `ScrollValidation`, which extends `ScrollSpecs`; `L1Fee`,
`Blockhash`, `ScrollOpcodes` and `PrecompileSets` extend `ScrollSpecs`; `ScrollConfig` and
`PurePrecompiles` extend `PrecompileSets`; `TransferPrecompile` takes `FirstError` from
`ScrollValidation`. `ScrollHandlerProps` instantiates `FeeLedger`, `Blockhash`
instantiates `Eip7709`, `ScrollOpcodes` instantiates `Eip1153`, and `HandlerFees`, which extends
`ScrollHandlerProps`, instantiates `L1Fee` to give the handler its fee formulas. Operators whose name ends in a mistake (`...Without...`,
`...Unchecked`, `RewardSpent`, ...) are variants that no specification uses; they
stand next to the definition that they distort and show that a property notices.

### The handler and the code

`pc` names the function of the handler that runs next. `journal` is the state
as seen through revm's journal, `txStart` what `discard_tx` restores, `checkpoint`
what a failing top frame restores, `db` the database, `returned` the state that
`finalize` gave out. An account is a balance, a nonce and a kind of code. `cfg` is the
fork with its gas parameters, limits and flags; `SetCfg` changes it between runs.

The oracle is one value here. What `try_fetch_from_journal` makes of it under a fork is
the constant function `TryFetch`, and the fee is the constant function `TxL1Cost` of what was
fetched, the transaction's data and the fork, meaningful on `FeeDefined`; so the handler is
checked and proved for *every* fee formula. `HandlerFees` composes it with the formulas of
`L1Fee` (`FeesComposed` says that the constants are theirs): oracle values are then functions from slots to numbers, and a field that the
fork does not fetch, or data that the transaction does not carry, leaves `FeeDefined`. What
can go wrong only there is an `L1BlockInfo` of one fork met by the formula of another.

* `Validate` joins the two validation functions, which touch nothing.
* `DatabaseError` may strike in every phase that loads accounts or slots, the
  reward included.
* Inner call frames are reduced to their net effect: while the top frame runs, a
  contract may send value and the oracle may be rewritten, each step for gas;
  `EndFrame` keeps or reverts them. Nested frames are modelled where they matter,
  in `TransferPrecompile` and `Blockhash`.
* `OutOfFunds` belongs to revm's revert class: the gas of the frame is returned, and
  for a CREATE the nonce is not bumped. Before TsukiV2 this can happen to an
  admitted transaction, since value, gas and L1 fee are checked one after the
  other; the combined check of TsukiV2 rules it out (`AdmittedCanPayValue`,
  `IncludedUsesNonce`).
* `commit` may apply only the state that the last `finalize` returned: the interface
  takes any state, its callers pass that one on.
* EIP-4844's blob checks cannot be reached: every fork maps to Ethereum's
  Shanghai, where type 3 is rejected first.
* A balance never overflows: the sum of all balances is conserved and fits a U256.

### The oracle

`L1Oracle` puts a fork's `FetchFromJournal` between stores, loads, commits and
drops of blocks. `journaled[s]` is the journal's value of slot `s` or `None`.
`InfoFrom` leaves a field `None` where the fork does not fetch it, and the formulas
report `MissingOracleValue` for a `None`, as in the code; `FeeIsExactUpToCap` shows
that this error is never reached from a fetched `L1BlockInfo`.

### The transfer precompile

A frame has the address in whose name it runs, the caller it sees, a static flag
and the balances at its checkpoint. The four call schemes derive the callee's
frame as the EVM does. `CallTransfer` is the call, `run` and the end of its frame
in one step: nothing can come between. The journal's `transfer` is modelled with its
trap: if the receiver's balance overflows, the sender's has already been lowered,
without a journal entry. Only `run` is there to meet it: calls of a contract whose
value would overflow the callee's balance are left out (`MayCall`), because the supply of a
chain fits in 256 bits and the larger one is the tests' device to reach that check. The supply in the instance is above `UMAX`, as in the
tests of the precompile, so that the check in `run` is exercised.

### Forks on a live EVM

`ScrollConfig` follows the three things that depend on the fork at their different
speeds: the configuration changes in `MoveTo` (`set_scroll_spec`), the precompile
provider and the warm addresses in `Transact`, where revm's `load_accounts` calls
`set_spec`, the instruction table never. A set of precompiles is a function from
addresses to implementations, built by extension as in `precompile/mod.rs`; the
properties compare it with a schedule that lists since when each implementation
is in force. `highest` and `ownCap` are history: what the gas limit cap should be is
not a function of the current fork, because the cap is never reset. The overridden
opcodes ask the configuration, so `NotActivated` takes it and not the table.

A system call skips `load_accounts` and with it the update of the provider. `seen` is the fork of
the last transaction: what a system call finds is that fork's whole set, however many
changes of fork lie between, never a mixture.

### Pure precompiles

`PurePrecompiles` calls an address with an input under one fork and again under later ones.
An input is a sequence of digits, so that a header word is wider than the digit to which
it might be narrowed, and may stop in the middle of a word, where `right_pad_with_offset`
fills it up. The reference is EIP-198's reading: an input that goes on with zeros for
ever. What revm then computes, its gas included, is external.

### BLOCKHASH

`cached` says whether the journal holds the history account at all, `slots` which
slots it holds and whether they are warm, `listed` the access list. `Begin(kept)`
starts a transaction on an emptied journal or on a kept one, where what was cached
is still there but cold. `HistorySload` is the attempt, the load that is
rolled back, and the second attempt.

### The other opcodes

In `ScrollOpcodes` code is any sequence of the opcodes, calls and ends of frames that its gas
pays for. The operands of an opcode are parameters of its action, and what it pushes is `out`.
The journal's entries (`undo`) are taken back by revm from the last to the first, which gives each slot what its
first entry since the checkpoint had replaced (`UndoTo`), while `Eip1153`
keeps a snapshot per frame; the refinement maps the one to the other. Memory is paid for in
words before it grows, linearly and quadratically, and the copy reads the memory after
the growth. `McopyIsEip5656` compares it with a copy in a memory without end, over numbers without a width.

## 3. Runs

| Run | Configuration | What it shows |
|---|---|---|
| `handler_tsuki_v2` | TsukiV2; 12 transactions of every kind, a system call, replay, finalize, commit; 2 runs | all safety properties of the handler and that it implements `FeeLedger` |
| `handler_tsuki` | Tsuki, two blocks with different beneficiaries, one of them the sender; 2 runs | the older deduction order: ledger and `RewardCannotFail` |
| `handler_forks` | Bernoulli, Darwin, Feynman and TsukiV2 in any order, with the formulas of `L1Fee`; 2 runs | only the transaction itself can lack an input of the fee; the fee is that of its fork and of the oracle at its start; ledger |
| `handler_every_fork` | all nine forks, every transaction, 1 run, fairness | every run ends, each of its steps leaving less to do; admitted transactions from TsukiV2, and L1 messages before Euclid, can pay their value |
| `l1_message_nonce` | TsukiV2, L1 messages, 1 run | violation: see section 6 |
| `l1_formulas` | all 3^8 oracle contents with a saturating value, five forks, 32 transactions | exactness of the fee up to the cap |
| `l1_journal` | three touches of any slot, blocks committed and dropped, forks advancing | fees follow the oracle through journal and database |
| `transfer_precompile` | three calls, nested to depth three, every scheme, value, gas and input | the precompile's safety |
| `blockhash` | Euclid, Galileo, Tsuki, TsukiV2; 5 blocks: the ring wraps; window 3, history 2, two frames | hashes; from TsukiV2 refinement of `Eip7709` |
| `opcodes` | two addresses, frames to depth three, two transactions; operands 0, 1, the largest `usize` and beyond | TSTORE and TLOAD implement `Eip1153`; MCOPY is EIP-5656's; memory is paid for |
| `config` | all nine forks, in any order; one cap of the owner's | precompiles, warm addresses, instructions, gas parameters and cap follow the fork; which precompiles system calls see |
| `pure_precompiles` | every header of up to three words of two digits, and longer inputs; all nine forks | modexp computes exactly within its limit; no fork takes a call back |

### Bounds and why they are enough

* `MaxRuns` is 2. Whatever a transaction can inherit (`l1_block_info`, journal,
  returned state, `ctx.tx`) is set by the one before it; two runs give every
  ordered pair of kinds. It is 1 where the question is about a single run
  (`handler_every_fork`, `l1_message_nonce`).
* Intrinsic gas is 5, the floor of one calldata token 6, gas limits 5 to 8: enough
  to be below, on and above the floor, to have one or two steps of execution, and
  for the cap of a fifth to allow one unit of refund.
* The balances are chosen so that gas and value fit while the L1 fee does not, and
  `UMAX` so that one transaction overflows only with the L1 fee added.
* In the L1 instance `UMAX` is 255, the caps 15 and 31 and the precision 2. They keep
  the proportions that `FeeAssumption` names and that the real constants satisfy
  (2^256, 2^64, 2^96, 10^9): a saturated product divided by the precision is still
  above the cap. 20 * 20 saturates.
* In `TransferPrecompile` three calls are the shortest way to every hazard: into the
  token, on to another contract, from there to the precompile.
  The transaction runs a contract or makes its calls in its sender's own name, as one sent straight to the
  precompile does.
* `ScrollConfig` needs no bound: forks, caps and pairs of them are all there.
* `handler_forks` has one fork for each formula and an oracle with every field cheap or dear, so
  that a fee of the wrong fork or of the wrong oracle is a different fee; two runs
  give every ordered pair of forks. Data may lack the bytes, the ratio or the size, or have a ratio
  below one and a compressed size above the size.
* In `opcodes` six units of gas pay for a write, two nested calls and an access on either
  side of them, or for memory and a copy whose source, destination or neither lies in it;
  depth three puts a frame between the static call and the write. `USIZE_MAX` is 7
  and a word two bytes: 7 and 8 are the largest operand that fits and the first that does not,
  and the sum of two operands saturates. No gas limit pays for `USIZE_MAX` bytes, in the
  code as in the assumption.
* In `pure_precompiles` a word of two ternary digits has lengths below and above both limits, and ones
  whose low digit alone is below. Whole inputs go one past the largest limit.
* Blocks 0 to 5 with a window of 3 overwrite slots of the ring; from TsukiV2 gas 7 pays for
  one cold and one warm lookup, gas 3 for neither a cold lookup
  nor for one after a touch.

Runs with `CHECK_DEADLOCK FALSE` stop where a bound (`MaxRuns`, `MaxCalls`) or the last fork
is reached, after which nothing is left to do.

### Fairness

`FairSpec` adds `WF_vars(Run)`: a run is one synchronous call, so while it can make
a step it makes one. Nothing is assumed of the interface (nobody must start,
finalize or commit), and no particular branch is assumed to be taken: a frame may go on
until its gas is spent. `RunsTerminate` therefore depends on every step of running
code costing gas and on every error leading to `catch_error`.

## 4. What is proved

All theorems hold for every value of the constants, under the assumptions named in the
modules; TLC evaluates them in the runs. Most only give the constants their types; the
others are named below. Every inductive invariant was checked by TLC before it was proved.

### The handler

`ScrollHandlerProofs`, for all accounts, transactions, blocks, forks, gas
parameters, fee functions and numbers of runs:

* `TypeCorrect`: gas and balances are naturals: the unsigned subtractions of
  `last_frame_result`, the refund, the floor and the receipt do not wrap, nor does any
  deduction from a balance.
* `FeeInputsAreFresh`: `FeeFromOracleAtStart`. `RewardHasFeeInputs`: `RewardCannotFail`.

They follow from `Invariant`: `Spec => []IInv`. `TypeOK` alone is not inductive. The
floor can be spent because the gas limit covers it, which only validation knows
(`GasLimitCovers`); the refund cannot exceed what was spent because remaining and
refunded gas together stay within the limit through the frame and through settling
(`FrameGas`, `SettledGas`); a system call skips validation, hence must never reach
the settling phases (`SystemCallPhases`). For the fee, the oracle that `pre_execution`
sees is the one at the start of the transaction only if nothing has been written
before (`NothingWritten`); from then on `l1_block_info` is untouched while the journal
changes (`FeeInputsFetched`), and the inputs that the deduction checked are those that
the reward uses (`FeeInputsChecked`).

A second invariant, `SafetyInv`, is built on the first:

* `AdmittedCoverTheirValue`, `L1MessagesAreAccepted`. What the deduction takes is compared with
  what its check asked for: the effective gas price is not above the maximal one, so that
  the combined check of TsukiV2 leaves the value (`AdmissionInv`). A rejected run carries an
  error of the handler and never a status of an execution (`RejectedForAReason`).
* `ChargedGasIsBounded`, `ReceiptsReportChargedGas`. Spent gas includes the intrinsic gas from the
  first frame on; the refund is at most a fifth of what was spent, and x - x/5 grows with x;
  the `ResultGas` of the receipt is made before the floor is applied to the gas and carries it
  apart, and agrees with the charge again afterwards (`GasInv`).
* `IncludedTransactionsUseTheirNonce`. The bump comes with the deduction for calls but in the first
  frame for creations, and a revert restores the checkpoint; the invariant follows the nonce
  through both (`NonceInv`).

`HandlerImplementsLedger`, `Spec => ImplementsLedger`. Every action maps to one of the
ledger or to a stutter: the start of a run opens the ledger, the deduction charges the
payer into the pot, `ReimburseCaller` refunds and `RewardBeneficiary` collects from it, an
error aborts. That the pot holds what is collected needs the gas invariant; that the payer owes
what it was charged, the invariant of the fee's inputs.

`MoneyNeverChanges`: all balances and the pot make up the initial supply (`MoneyIsConserved`). It
follows the steps of the ledger and not those of the handler: each of them moves an amount between two
balances, or a balance and the pot, or goes back to balances kept earlier. So `MoneyInv` says
of everything a step may go back to (the start of the transaction, the frame's checkpoint, the
database, the state handed out) that it makes up the same sum with what the pot held. That moving an amount leaves
a sum over accounts alone is `SumChanges` of `ScrollValidationProofs`: the library's sum is shown to
be defined for every finite set, and a smallest set on which the claim failed would have a
smaller one. It needs `Accounts` to be finite, which `TxAssumption` says and every journal is.

`FeesNeedOnlyTheTransaction` is about `HandlerFees` and assumes `FeesComposed`, that the handler's fee constants
are the formulas of `L1Fee` over any oracle values and data; TLC evaluates the same formula as
an assumption of `MCHandlerFees`. In any order of forks and transactions, an L1 fee error
means that the transaction itself did not carry what its fork asks for. Each formula is shown to
be defined on what its own fork fetches exactly if the transaction supplies its part
(`FormulaNeedsSupplies`); that the `L1BlockInfo` in use is one fetched under this fork is the first invariant's.

### The L1 fee

`L1OracleProofs` assumes of the integers what `FeeAssumption` says and nothing more: the caps,
multiplied by the precision twice or by the precision and the longest transaction, fit.
It first proves the arithmetic: saturation of an operand does not
show in a saturated result (`SaturationAbsorbs`), a quotient is at least c exactly if the dividend is
at least d * c (`QuotientAtLeast`), hence the cap hides the saturation of a dividend
(`CapHidesSaturation`) and two divisions are one (`QuotientOfAQuotient`). Each formula
then has a lemma over its numbers. In Galileo's the penalty saturates *before* it is divided by a factor
that may be large; `GalileoArithmetic` shows that the base alone then exceeds the cap,
which is where the bound on the length is needed. `FeesAreExactUpToTheCap` joins this with the
invariant `InfoInv`: a fetched `L1BlockInfo` is what the fork reads of the oracle through journal and
database. `FeesGrowWithSize` follows from exactness.

### The transfer precompile

`BalancesFitIn256Bits`, `StaticFramesAreSafe`, `OnlyTheTokenCanUseThePrecompile` and `FailedTransfersAreUndone`.
The invariant adds to the types that below a static frame every frame is static and
that no frame runs in the precompile's own name (`FramesInv`): a value moved under
an inner frame would otherwise break the promise of an outer one. `SupplyNeverChanges` needs besides that
what a frame would go back to adds up to the same (`SupplyInv`), and `SumChanges` twice for each transfer.

### BLOCKHASH

`RecentHashesAreServed` needs that the slots of a window are distinct (`SlotsOfAWindow`) and that every
new block overwrites the one slot that has just left it (`RingInv`). `BlockhashIsEip7709`,
`Spec => ImplementsEip7709`, needs more of the journal: a checkpoint that
remembers a warm account remembers one that the journal holds (`CachedInv`), and checkpoints are ordered
(`CheckpointInv`); so undoing a frame leaves exactly its warm slots and both attempts of
`history_sload` come to the same lookup.

### The other opcodes

The invariant of `ScrollOpcodesProofs` says that the gas limit covers the memory of every open frame together with the
gas of the running one, and that no other frame has any (`GasInv`); that checkpoints are in order
and within the journal (`CheckpointInv`); and that nothing is stored between transactions (`IdleInv`).
`OpcodesAreTyped` follows. `CopiesAreEip5656`: an operand that saturates asks for more memory than the gas limit
pays for (`FarIsUnpaid`), so a copy that is carried out had exact operands, and memory grown by
whole words has the bytes that the reference reads (`GrownMemory`, `CopyMeetsEip5656`).

`TransientStorageIsEip1153`, `Spec => ImplementsEip1153`: a frame's snapshot is what undoing the entries
since its checkpoint gives. Undoing a store gives back what was there (`UndoStored`); undoing to a
checkpoint and from there to an earlier one is undoing to the earlier one (`UndoTwice`), so
a frame that fails leaves every outer snapshot as it was.

### Forks on a live EVM

`TransactionsRunOnTheirFork`, `SystemCallsRunOnAWholeFork`, `InstructionsRunOnTheirFork` and `ConfigurationFollowsTheFork`.
The sets of precompiles are compared with the schedule fork by fork
(`SetsHoldTheSchedule`); the invariant says that the provider is the whole set of the last fork
seen and that its addresses are warm all or not at all (`ProviderInv`), and what
the cap is in terms of the history (`CfgInv`).

### Pure precompiles

`ModexpComputesExactlyWithinLimit`, for words and digits of any size: the number that is read digit by digit,
times the value of the places still to come, is the sum of the digits read, each times the value of its
place (`PrefixesAddUp`), and a word cut off anywhere is padded to what an endless input has (`PaddedBytes`).
`ForksOnlyAdd`: a set that extends another computes what the older one does if its new entries do
(`ExtensionComputes`), which for modexp is the order of the two limits and for
RIPEMD-160 that the older sets have none.

## 5. What is only model-checked, and what is not modelled

Every safety property that a passing run checks has a theorem. TLC alone checks:

* `RunsTerminate`, liveness under fairness, which needs `ENABLED`: that in every phase some step of the run can be
  taken.
* The assumptions on the constants and `FeesComposed`, in the small instances.
* `L1MessageNonceChecked`, which does not hold: section 6.

The provers know nothing of exponents, so `PurePrecompiles` has its places as a recursive function (`Place`) and
no powers. Where a definition is a recursive function or a fold over a set, the theorems first show
that it is defined at all, and reason by a least counterexample instead of by induction.

Not modelled:

* Signatures, hashing and encodings; logs and output; the inspector,
  which only observes (`inspect_one_tx` is `transact_one`); panicking wrappers
  (`calculate_tx_l1_cost`); what pure precompiles compute and what gas they take, which is
  revm's; the operand stack, of which a wrong height is one more way to halt; string names
  of forks.
* A fork never changes *within* a transaction, in the models as in the code, where the owner needs
  the EVM to change it. That a system call straight after a change of fork still runs with the
  precompiles of the fork before is how the code is; nothing in the repository says which it should see, so
  `SystemCallsMeetLastTransactionsFork` states what callers can rely on, and not that it is intended.
* A used journal moved into a newly built EVM is not modelled, nor is `with_precompiles`, by which an
  owner replaces the provider by one of another crate.

## 6. A disagreement between comment and code

`validate_against_state_and_deduct_caller` bumps the nonce of an L1 message's caller
under the comment "Nonce is already checked" (`handler.rs:420`). L1 messages skip the
mainnet validation and no other function compares the nonces: in the run
`l1_message_nonce` a message with nonce 5 is admitted for an account with nonce 0.
The tests of L1 messages rely on the check being absent, so the comment is what is wrong.

## 7. Plan

1. Done: handler, interface, fee ledger; L1 fee and oracle; transfer precompile;
   BLOCKHASH; the inductive invariant.
2. Done: `ScrollConfig`, the forks on a live EVM, with the activation of opcodes.
3. Done: the composition of handler and formulas (`HandlerFees`) with forks that change
   between transactions; the other opcodes (`ScrollOpcodes`, `Eip1153`); the pure precompiles.
4. Done: the theorems of section 4: handler, ledger, money, composition with the formulas, L1 fee, transfer
   precompile, BLOCKHASH with EIP-7709, the other opcodes with EIP-1153 and EIP-5656, configuration,
   pure precompiles.
5. Left: termination itself, once the prover has `ENABLED`.
