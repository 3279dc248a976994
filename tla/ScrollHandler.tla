---------------------------- MODULE ScrollHandler ----------------------------
(***************************************************************************)
(* The transaction handler (src/src/handler.rs) together with the          *)
(* execution interface that drives it (src/src/exec.rs and                 *)
(* src/src/system_call.rs).  One run of the handler is                     *)
(*                                                                         *)
(*   validate -> pre_execution -> execution -> post_execution              *)
(*            -> execution_result                                          *)
(*                                                                         *)
(* and any error leads to catch_error, which discards what the transaction *)
(* wrote to the journal.  Each overridden function of the handler is one   *)
(* action.  revm's own part (the mainnet handler, the frames, the journal) *)
(* is modelled from how the handler uses it.                               *)
(*                                                                         *)
(* The contents of the L1 gas price oracle are one value of OracleValues.  *)
(* What a fork fetches of it is the constant TryFetch, and what the L1     *)
(* data fee is, given what was fetched, the constant TxL1Cost (module      *)
(* L1Fee gives both).                                                      *)
(***************************************************************************)
EXTENDS ScrollValidation

CONSTANTS
    Accounts,         \* the addresses in play
    Cfgs,             \* the configurations the owner may set, see ScrollValidation
    Blocks,           \* the block environments set_block may install
    Txs,              \* the transactions a caller may submit
    SystemCalls,      \* the transactions new_system_tx_with_caller builds
    OracleValues,     \* contents of the L1 gas price oracle
    Infos,            \* the values of an L1BlockInfo, and L1BlockInfo::default()
    DefaultInfo,
    TryFetch,         \* the L1BlockInfo of <<oracle, fork>>
    DataSet,          \* what a transaction supplies for the L1 fee: rlp bytes, ratio, size
    FeeDefined,       \* <<info, data, fork>> for which the fee formula returns Ok
    TxL1Cost,         \* the fee it returns, for every <<info, data, fork>>
    InitialBalance, InitialCode, InitialOracle,
    AuthRefunds,      \* refunds an EIP-7702 authorization may earn
    UMAX,             \* the largest U256
    MaxRuns,          \* bound: how many transactions are started
    NoTx, NoState

CodeKinds == {"empty", "delegation", "contract"}
FeeInputs == Infos \X DataSet \X ScrollSpecId

\* A view of the world state.  slot is the oracle's storage in the journal, None
\* when the journal has not loaded it.
Worlds == [bal   : [Accounts -> Nat],
           nonce : [Accounts -> Nat],
           code  : [Accounts -> CodeKinds],
           slot  : OracleValues \cup {None}]

TxRecords ==
    [type : TxTypes, caller : Accounts, create : BOOLEAN, to : Accounts, nonce : Nat,
     gasLimit : Nat, maxFee : Nat, prio : Nat \cup {None}, value : Nat,
     chainId : Nat \cup {None}, tokens : Nat, initcode : Nat, accessAccounts : Nat,
     accessSlots : Nat, auths : SUBSET Accounts, data : DataSet]

GasParamNames == {"base", "perToken", "create", "perAccount", "perSlot", "perAuth",
                  "floorBase", "floorPerToken"}

ASSUME CfgAssumption ==
    \A c \in Cfgs :
        /\ c.spec \in ScrollSpecId
        /\ c.gasParams \in [GasParamNames -> Nat]
        /\ \A f \in {"chainIdCheck", "baseFeeCheckDisabled", "priorityFeeCheckDisabled",
                     "blockGasLimitDisabled", "eip3607Disabled", "eip7623Disabled"} :
              c[f] \in BOOLEAN

ASSUME BlockAssumption ==
    \A b \in Blocks : b.basefee \in Nat /\ b.beneficiary \in Accounts

ASSUME TxAssumption ==
    /\ IsFiniteSet(Accounts)
    /\ Txs \subseteq TxRecords
    /\ SystemCalls \subseteq TxRecords
    /\ NoTx \notin TxRecords
    /\ None \notin Nat

ASSUME OracleAssumption ==
    /\ None \notin OracleValues
    /\ DefaultInfo \in Infos
    /\ TryFetch \in [OracleValues \X ScrollSpecId -> Infos]
    /\ TxL1Cost \in [FeeInputs -> Nat]
    /\ FeeDefined \subseteq FeeInputs

ASSUME WorldAssumption ==
    /\ InitialBalance \in [Accounts -> Nat]
    /\ InitialCode \in [Accounts -> CodeKinds]
    /\ InitialOracle \in OracleValues
    /\ NoState \notin Worlds

ASSUME GasAssumption ==
    /\ AuthRefunds \subseteq Nat
    /\ UMAX \in Nat
    /\ MaxRuns \in Nat

VARIABLES
    pc,               \* the handler function to run next; "idle" between runs
    mode,             \* "transact", "replay" or "system_call"
    tx,               \* ctx.tx
    block,            \* ctx.block
    cfg,              \* ctx.cfg
    l1_block_info,    \* ctx.chain.l1_block_info
    db,               \* the database
    journal,          \* the state seen through the journal
    txStart,          \* the journal when the transaction began: what discard_tx restores
    checkpoint,       \* the journal at the top frame's checkpoint
    initGas,          \* InitialAndFloorGas
    eip7702_refund,   \* the gas refund apply_eip7702_auth_list returns
    gas,              \* the Gas of the (last) frame result
    status,           \* the instruction result of the top frame
    resultGas,        \* ResultGas, as reported to the caller of the EVM
    result,           \* the last outcome
    returned,         \* the state finalize handed out and commit may still apply
    runs              \* how many runs were started

envVars   == <<mode, tx, block, cfg, runs>>
stateVars == <<db, journal, txStart, checkpoint, returned>>
gasVars   == <<initGas, eip7702_refund, gas, status, resultGas>>
vars      == <<pc, l1_block_info, result, envVars, stateVars, gasVars>>

NoResult == [status |-> "none", used |-> 0]

\* The gas and frame variables are locals of one run.
NoInitGas   == [initial |-> 0, floor |-> 0]
NoGas       == [limit |-> 0, remaining |-> 0, refunded |-> 0]
NoResultGas == [spent |-> 0, refunded |-> 0, floor |-> 0]

Init ==
    /\ pc = "idle" /\ mode = "transact" /\ tx = NoTx
    /\ block \in Blocks /\ cfg \in Cfgs
    /\ l1_block_info = DefaultInfo
    /\ db = [bal |-> InitialBalance, nonce |-> [a \in Accounts |-> 0],
             code |-> InitialCode, slot |-> InitialOracle]
    /\ journal = [db EXCEPT !.slot = None]
    /\ txStart = journal /\ checkpoint = journal
    /\ initGas = NoInitGas /\ eip7702_refund = 0
    /\ gas = NoGas /\ status = "ok" /\ resultGas = NoResultGas
    /\ result = NoResult /\ returned = NoState /\ runs = 0

-----------------------------------------------------------------------------
(* Gas, balances and the oracle as the code computes with them. *)

Spent(g) == g.limit - g.remaining
Used(g)  == Spent(g) - g.refunded                         \* Gas::used
Lesser(a, b)  == IF a <= b THEN a ELSE b
Greater(a, b) == IF a <= b THEN b ELSE a

\* The gas an ExecutionResult reports: the floor if it is above the net gas.
GasUsed(rg) == Greater(rg.spent - rg.refunded, rg.floor)

Price == EffectiveGasPrice(tx, block)
FeeInput == <<l1_block_info, tx.data, cfg.spec>>
L1CostOk == FeeInput \in FeeDefined
L1Cost   == TxL1Cost[FeeInput]                            \* tx_l1_cost

Credit(w, a, v) == [w EXCEPT !.bal[a] = @ + v]            \* incr_balance
\* decr_balance leaves an insufficient balance alone; its result is not looked at.
DecrBalance(w, a, v) == IF v <= w.bal[a] THEN [w EXCEPT !.bal[a] = @ - v] ELSE w
BumpNonce(w, a) == [w EXCEPT !.nonce[a] = @ + 1]

\* The oracle through the journal: the journal's value if it has one, else the database's.
OracleView(w) == IF w.slot = None THEN db.slot ELSE w.slot
Fetched(w)    == TryFetch[<<OracleView(w), cfg.spec>>]    \* try_fetch_from_journal

Pass(w)      == [error |-> Ok, world |-> w]
Fail(e, w)   == [error |-> e, world |-> w]
OkOrRevert   == {"ok", "revert", "out_of_funds"}          \* InstructionResult::is_ok_or_revert

-----------------------------------------------------------------------------
(* The execution interface: what the owner of the EVM may call between two *)
(* runs.  The EVM is borrowed mutably for a whole run, so none of these    *)
(* can happen during one.                                                  *)

Start(m, t, first) ==
    /\ pc = "idle" /\ runs < MaxRuns
    /\ mode' = m /\ tx' = t /\ pc' = first /\ runs' = runs + 1
    /\ txStart' = journal /\ checkpoint' = journal
    /\ returned' = NoState /\ result' = NoResult
    /\ initGas' = NoInitGas /\ eip7702_refund' = 0
    /\ gas' = NoGas /\ status' = "ok" /\ resultGas' = NoResultGas
    /\ UNCHANGED <<block, cfg, l1_block_info, db, journal>>

\* transact_one, and inspect_one_tx with an inspector: set_tx, then run.
TransactOne(t) == Start("transact", t, "validate")

\* replay: run the transaction that is already set.
Replay == tx # NoTx /\ Start("replay", tx, "validate")

\* system_call_one_with_caller: set_tx, then run_system_call, which goes straight to
\* execution with no intrinsic gas.
SystemCall(t) == Start("system_call", t, "first_frame")

SetBlock(b) ==
    /\ pc = "idle" /\ b # block /\ block' = b
    /\ UNCHANGED <<pc, l1_block_info, result, mode, tx, cfg, runs, stateVars, gasVars>>

\* The owner changes the configuration, between blocks usually: l1_block_info and the
\* journal stay as they are.
SetCfg(c) ==
    /\ pc = "idle" /\ c # cfg /\ cfg' = c
    /\ UNCHANGED <<pc, l1_block_info, result, mode, tx, block, runs, stateVars, gasVars>>

\* The journal hands its state out and starts again from the database.
EmptyJournal == [db EXCEPT !.slot = None]

Finalize ==
    /\ pc = "idle" /\ journal # EmptyJournal
    /\ returned' = journal /\ journal' = EmptyJournal
    /\ UNCHANGED <<pc, l1_block_info, result, envVars, db, txStart, checkpoint, gasVars>>

\* commit(state), called with the state finalize has just returned.
Commit ==
    /\ pc = "idle" /\ returned # NoState
    /\ db' = [returned EXCEPT !.slot = OracleView(returned)]
    /\ journal' = [returned EXCEPT !.slot = None]
    /\ returned' = NoState
    /\ UNCHANGED <<pc, l1_block_info, result, envVars, txStart, checkpoint, gasVars>>

-----------------------------------------------------------------------------
(* validate and pre_execution *)

\* An error anywhere in a run; the journal may be left half-changed as w.
Reject(e, w) ==
    /\ pc' = "catch_error"
    /\ journal' = w
    /\ result' = [status |-> e, used |-> 0]

Validate ==
    LET env == ValidateEnv(cfg, block, tx)
        ini == ValidateInitialTxGas(cfg, tx)
    IN  /\ pc = "validate"
        /\ IF env # Ok \/ ini.error # Ok
           THEN /\ Reject(IF env # Ok THEN env ELSE ini.error, journal)
                /\ UNCHANGED initGas
           ELSE /\ pc' = "pre_execution"
                /\ initGas' = [initial |-> ini.initial, floor |-> ini.floor]
                /\ UNCHANGED <<journal, result>>
        /\ UNCHANGED <<l1_block_info, envVars, db, txStart, checkpoint, returned,
                       eip7702_refund, gas, status, resultGas>>

\* Variant with a mistake: the L1BlockInfo is only fetched once.
PreExecutionFetchOnce ==
    /\ pc = "pre_execution" /\ pc' = "deduct_caller"
    /\ l1_block_info' = IF IsFeeCharged(tx) /\ l1_block_info = DefaultInfo
                        THEN Fetched(journal) ELSE l1_block_info
    /\ UNCHANGED <<result, envVars, stateVars, gasVars>>

\* Variant with a mistake: the database is asked and not the journal (try_fetch).
PreExecutionFromDatabase ==
    /\ pc = "pre_execution" /\ pc' = "deduct_caller"
    /\ l1_block_info' = IF IsFeeCharged(tx) THEN TryFetch[<<db.slot, cfg.spec>>] ELSE l1_block_info
    /\ UNCHANGED <<result, envVars, stateVars, gasVars>>

\* The hook of pre_execution: refresh L1BlockInfo through the journal for every
\* fee-charged transaction.
PreExecution ==
    /\ pc = "pre_execution" /\ pc' = "deduct_caller"
    /\ l1_block_info' = IF IsFeeCharged(tx) THEN Fetched(journal) ELSE l1_block_info
    /\ UNCHANGED <<result, envVars, stateVars, gasVars>>

\* EIP-3607 rejects a caller with code that is not a delegation.
CallerHasCode(w) == ~cfg.eip3607Disabled /\ w.code[tx.caller] = "contract"

\* A CREATE's nonce is bumped when its frame is made.
BumpCallNonce(w) == IF tx.create THEN w ELSE BumpNonce(w, tx.caller)

\* MainnetHandler::validate_against_state_and_deduct_caller (external).
MainnetDeduct(w) ==
    LET error == FirstError(<<
            <<CallerHasCode(w), "RejectCallerWithCode">>,
            <<w.nonce[tx.caller] # tx.nonce, "NonceMismatch">>,
            <<MaxBalanceSpending(tx) > UMAX, "OverflowPayment">>,
            <<MaxBalanceSpending(tx) > w.bal[tx.caller], "LackOfFundForMaxFee">> >>)
    IN  IF error # Ok
        THEN Fail(error, w)
        ELSE Pass(BumpCallNonce(DecrBalance(w, tx.caller, Price * tx.gasLimit)))

(* Variants of the checks below, each with a mistake the properties must    *)
(* catch; the specification uses none of them.                              *)

\* A missing fee input is taken for a fee of zero.
L1FeeChecksBalanceOnly(w) ==
    FirstError(<< <<L1CostOk /\ L1Cost > w.bal[tx.caller], "LackOfFundForMaxFee">> >>)
\* The L1 fee is compared with the balance before the mainnet deduction.
L1FeeChecksStaleBalance(w) ==
    FirstError(<< <<~L1CostOk, "L1FeeError">>,
                  <<L1Cost > txStart.bal[tx.caller], "LackOfFundForMaxFee">> >>)
CombinedChecksBalanceOnly(w) ==
    FirstError(<< <<L1CostOk /\ MaxBalanceSpending(tx) + L1Cost > w.bal[tx.caller],
                      "LackOfFundForMaxFee">> >>)
\* The value is left out of the combined check, or the L1 fee is.
CombinedChecksWithoutValue(w) ==
    FirstError(<< <<~L1CostOk, "L1FeeError">>,
                  <<tx.gasLimit * tx.maxFee + L1Cost > w.bal[tx.caller], "LackOfFundForMaxFee">> >>)
CombinedChecksWithoutL1Fee(w) ==
    FirstError(<< <<~L1CostOk, "L1FeeError">>,
                  <<MaxBalanceSpending(tx) > w.bal[tx.caller], "LackOfFundForMaxFee">> >>)
\* The balance check of L1 messages is skipped before Euclid too.
L1MessageChecksWithoutFunds(w) ==
    FirstError(<< <<CallerHasCode(w), "RejectCallerWithCode">> >>)

\* Before TsukiV2: the L1 fee against what the mainnet deduction has left.
L1FeeChecks(w) ==
    FirstError(<< <<~L1CostOk, "L1FeeError">>,
                  <<L1Cost > w.bal[tx.caller], "LackOfFundForMaxFee">> >>)

\* From TsukiV2: gas, value and L1 fee together against the original balance.
CombinedChecks(w) ==
    FirstError(<< <<~L1CostOk, "L1FeeError">>,
                  <<MaxBalanceSpending(tx) > UMAX \/ MaxBalanceSpending(tx) + L1Cost > UMAX,
                      "OverflowPayment">>,
                  <<MaxBalanceSpending(tx) + L1Cost > w.bal[tx.caller], "LackOfFundForMaxFee">> >>)

\* An L1 message must cover its value before Euclid; its nonce is not compared with the
\* account's.
L1MessageChecks(w) ==
    FirstError(<< <<~IsEnabledIn(cfg.spec, EUCLID) /\ MaxBalanceSpending(tx) > UMAX, "OverflowPayment">>,
                  <<~IsEnabledIn(cfg.spec, EUCLID) /\ MaxBalanceSpending(tx) > w.bal[tx.caller],
                      "LackOfFundForMaxFee">>,
                  <<CallerHasCode(w), "RejectCallerWithCode">> >>)

\* A failure after the mainnet deduction leaves that deduction in the journal.
ChargeBeforeTsukiV2(w) ==
    LET m == MainnetDeduct(w)
    IN  IF m.error # Ok \/ ~IsFeeCharged(tx) THEN m
        ELSE IF L1FeeChecks(m.world) # Ok THEN Fail(L1FeeChecks(m.world), m.world)
        ELSE Pass(DecrBalance(m.world, tx.caller, L1Cost))

ChargeFromTsukiV2(w) ==
    LET m == MainnetDeduct(w)
    IN  IF IsFeeCharged(tx) /\ CombinedChecks(w) # Ok THEN Fail(CombinedChecks(w), w)
        ELSE IF m.error # Ok \/ ~IsFeeCharged(tx) THEN m
        ELSE Pass(DecrBalance(m.world, tx.caller, L1Cost))

AdmitL1Message(w) ==
    IF L1MessageChecks(w) # Ok THEN Fail(L1MessageChecks(w), w) ELSE Pass(BumpCallNonce(w))

ValidateAgainstStateAndDeductCaller ==
    LET out == IF IsL1Msg(tx) THEN AdmitL1Message(journal)
               ELSE IF IsEnabledIn(cfg.spec, TSUKI_V2) THEN ChargeFromTsukiV2(journal)
               ELSE ChargeBeforeTsukiV2(journal)
    IN  /\ pc = "deduct_caller"
        /\ IF out.error # Ok
           THEN Reject(out.error, out.world)
           ELSE pc' = "load_accounts" /\ journal' = out.world /\ UNCHANGED result
        /\ UNCHANGED <<l1_block_info, envVars, db, txStart, checkpoint, returned, gasVars>>

\* load_accounts and apply_eip7702_auth_list (external): each valid authorization of an
\* account that holds no contract makes it a delegation and bumps its nonce.
LoadAccountsAndApplyAuths ==
    /\ pc = "load_accounts"
    /\ \E applied \in SUBSET {a \in tx.auths : tx.type = "eip7702" /\ journal.code[a] # "contract"} :
          /\ journal' = [journal EXCEPT
                !.code  = [a \in Accounts |-> IF a \in applied THEN "delegation" ELSE @[a]],
                !.nonce = [a \in Accounts |-> IF a \in applied THEN @[a] + 1 ELSE @[a]]]
          /\ eip7702_refund' \in (IF applied = {} THEN {0} ELSE AuthRefunds)
    /\ pc' = "first_frame"
    /\ UNCHANGED <<l1_block_info, result, envVars, db, txStart, checkpoint, returned,
                   initGas, gas, status, resultGas>>

-----------------------------------------------------------------------------
(* execution: revm's frames (external), then last_frame_result *)

Move(w, a, b, v) == Credit(DecrBalance(w, a, v), b, v)

RunsCode(w, a) == w.code[a] # "empty" \/ (tx.create /\ a = tx.to)

\* The top frame.  A caller without the value fails before anything is changed, the nonce of
\* a CREATE included; a CREATE onto a used address fails after the nonce bump.
FirstFrame ==
    LET limit     == tx.gasLimit - initGas.initial
        caller    == IF tx.create THEN BumpNonce(journal, tx.caller) ELSE journal
        collision == tx.create /\ (caller.nonce[tx.to] # 0 \/ caller.code[tx.to] # "empty")
        opened    == IF tx.create THEN BumpNonce(caller, tx.to) ELSE caller
    IN  /\ pc = "first_frame"
        /\ \/ /\ journal.bal[tx.caller] < tx.value
              /\ status' = "out_of_funds" /\ pc' = "last_frame_result"
              /\ gas' = [limit |-> limit, remaining |-> limit, refunded |-> 0]
              /\ UNCHANGED <<journal, checkpoint>>
           \/ /\ journal.bal[tx.caller] >= tx.value /\ collision
              /\ status' = "halt" /\ pc' = "last_frame_result"
              /\ gas' = [limit |-> limit, remaining |-> 0, refunded |-> 0]
              /\ journal' = caller /\ UNCHANGED checkpoint
           \/ /\ journal.bal[tx.caller] >= tx.value /\ ~collision
              /\ checkpoint' = caller
              /\ journal' = Move(opened, tx.caller, tx.to, tx.value)
              /\ gas' = [limit |-> limit, remaining |-> limit, refunded |-> 0]
              /\ pc' = "frame" /\ UNCHANGED status
        /\ UNCHANGED <<l1_block_info, result, envVars, db, txStart, returned,
                       initGas, eip7702_refund, resultGas>>

\* Variant with a mistake: a step that costs nothing.
FreeFrameStep(w) ==
    /\ journal' = w
    /\ UNCHANGED <<pc, l1_block_info, result, envVars, db, txStart, checkpoint, returned,
                   gasVars>>

\* What running code does to the parts of the state modelled here.  Every step costs gas.
FrameStep(w) ==
    /\ gas.remaining > 0
    /\ journal' = w
    /\ gas' = [gas EXCEPT !.remaining = @ - 1]
    /\ UNCHANGED <<pc, l1_block_info, result, envVars, db, txStart, checkpoint, returned,
                   initGas, eip7702_refund, status, resultGas>>

\* A contract sends value.
SendValue(a, b, v) ==
    /\ pc = "frame" /\ RunsCode(journal, a) /\ a # b
    /\ FrameStep(Move(journal, a, b, v))

\* The oracle contract is called and stores v, which may be what it held; from then on its
\* slot is in the journal.
StoreOracle(v) ==
    /\ pc = "frame" /\ RunsCode(journal, tx.to)
    /\ FrameStep([journal EXCEPT !.slot = v])

\* The frame returns.  Unless it succeeded its checkpoint is reverted.  No refund an opcode
\* earns is above the gas it cost.
EndFrame ==
    /\ pc = "frame" /\ pc' = "last_frame_result"
    /\ status' \in {"ok", "revert", "halt"}
    /\ gas' \in {[gas EXCEPT !.refunded = r] : r \in 0 .. Spent(gas)}
    /\ journal' = IF status' # "ok" THEN checkpoint
                  ELSE IF tx.create THEN [journal EXCEPT !.code[tx.to] = "contract"]
                  ELSE journal
    /\ UNCHANGED <<l1_block_info, result, envVars, db, txStart, checkpoint, returned,
                   initGas, eip7702_refund, resultGas>>

\* The whole gas limit is spent, and what the frame did not use is given back unless it
\* halted.  Refunds count for a success that is not an L1 message.
LastFrameResult ==
    /\ pc = "last_frame_result"
    /\ gas' = [limit     |-> tx.gasLimit,
               remaining |-> IF status \in OkOrRevert THEN gas.remaining ELSE 0,
               refunded  |-> IF ~IsL1Msg(tx) /\ status = "ok" THEN gas.refunded ELSE 0]
    /\ pc' = IF mode = "system_call" THEN "execution_result" ELSE "refund"
    /\ resultGas' = IF mode = "system_call"
                    THEN [spent |-> Spent(gas'), refunded |-> gas'.refunded, floor |-> 0]
                    ELSE resultGas
    /\ UNCHANGED <<l1_block_info, result, envVars, stateVars, initGas, eip7702_refund, status>>

-----------------------------------------------------------------------------
(* post_execution and execution_result *)

\* revm caps the refund at a fifth of the gas spent ...
CappedRefund(g) == Lesser(g.refunded + eip7702_refund, Spent(g) \div 5)

\* ... builds the ResultGas ...
Refund ==
    /\ pc = "refund" /\ pc' = "eip7623_check_gas_floor"
    /\ gas' = IF IsL1Msg(tx) THEN gas ELSE [gas EXCEPT !.refunded = CappedRefund(gas)]
    /\ resultGas' = [spent |-> Spent(gas'), refunded |-> gas'.refunded, floor |-> initGas.floor]
    /\ UNCHANGED <<l1_block_info, result, envVars, stateVars, initGas, eip7702_refund, status>>

\* ... and then spends up to the floor, giving up the refund.
Floored(g) ==
    IF Used(g) < initGas.floor
    THEN [g EXCEPT !.remaining = g.limit - initGas.floor, !.refunded = 0]
    ELSE g

\* Variant with a mistake: only a success pays the floor.
Eip7623CheckGasFloorOnSuccess ==
    /\ pc = "eip7623_check_gas_floor" /\ pc' = "reimburse_caller"
    /\ gas' = IF IsL1Msg(tx) \/ status # "ok" THEN gas ELSE Floored(gas)
    /\ UNCHANGED <<l1_block_info, result, envVars, stateVars, initGas, eip7702_refund,
                   status, resultGas>>

Eip7623CheckGasFloor ==
    /\ pc = "eip7623_check_gas_floor" /\ pc' = "reimburse_caller"
    /\ gas' = IF IsL1Msg(tx) THEN gas ELSE Floored(gas)
    /\ UNCHANGED <<l1_block_info, result, envVars, stateVars, initGas, eip7702_refund,
                   status, resultGas>>

ReimburseCaller ==
    /\ pc = "reimburse_caller" /\ pc' = "reward_beneficiary"
    /\ journal' = IF IsL1Msg(tx) THEN journal
                  ELSE Credit(journal, tx.caller, Price * (gas.remaining + gas.refunded))
    /\ UNCHANGED <<l1_block_info, result, envVars, db, txStart, checkpoint, returned, gasVars>>

\* Variants with a mistake: the beneficiary is paid for refunded gas too, or the oracle is
\* read again after execution.
RewardSpent(g) == Price * Spent(g) + (IF IsSystemTx(tx) THEN 0 ELSE L1Cost)
RewardRefetched(g) ==
    Price * Used(g) + (IF IsSystemTx(tx) THEN 0 ELSE TxL1Cost[[FeeInput EXCEPT ![1] = Fetched(journal)]])

\* The L1 fee is computed a second time, from the L1BlockInfo of this run.
Reward(g) == Price * Used(g) + (IF IsSystemTx(tx) THEN 0 ELSE L1Cost)

\* Variant with a mistake: an L1 message is asked for the inputs of the fee it does not pay.
RewardBeneficiaryOfL1Messages ==
    /\ pc = "reward_beneficiary"
    /\ IF ~IsSystemTx(tx) /\ ~L1CostOk
       THEN Reject("L1FeeError", journal)
       ELSE /\ pc' = "execution_result" /\ UNCHANGED result
            /\ journal' = IF IsL1Msg(tx) THEN journal
                          ELSE Credit(journal, block.beneficiary, Reward(gas))
    /\ UNCHANGED <<l1_block_info, envVars, db, txStart, checkpoint, returned, gasVars>>

RewardBeneficiary ==
    /\ pc = "reward_beneficiary"
    /\ IF IsFeeCharged(tx) /\ ~L1CostOk
       THEN Reject("L1FeeError", journal)
       ELSE /\ pc' = "execution_result" /\ UNCHANGED result
            /\ journal' = IF IsL1Msg(tx) THEN journal
                          ELSE Credit(journal, block.beneficiary, Reward(gas))
    /\ UNCHANGED <<l1_block_info, envVars, db, txStart, checkpoint, returned, gasVars>>

\* Variant with a mistake: the receipt of an L1 message, which pays no floor, keeps it.
ExecutionResultKeepingFloor ==
    /\ pc = "execution_result" /\ pc' = "idle"
    /\ result' = [status |-> status, used |-> GasUsed(resultGas)]
    /\ IF mode = "replay"
       THEN returned' = journal /\ journal' = EmptyJournal
       ELSE UNCHANGED <<returned, journal>>
    /\ UNCHANGED <<l1_block_info, envVars, db, txStart, checkpoint, gasVars>>

\* The receipt, and commit_tx.  A replay then finalizes.
ExecutionResult ==
    LET reported == IF IsL1Msg(tx) THEN [resultGas EXCEPT !.floor = 0] ELSE resultGas
    IN  /\ pc = "execution_result" /\ pc' = "idle"
        /\ resultGas' = reported
        /\ result' = [status |-> status, used |-> GasUsed(reported)]
        /\ IF mode = "replay"
           THEN returned' = journal /\ journal' = EmptyJournal
           ELSE UNCHANGED <<returned, journal>>
        /\ UNCHANGED <<l1_block_info, envVars, db, txStart, checkpoint, initGas,
                       eip7702_refund, gas, status>>

\* Loading an account or a slot from the database may fail wherever a run does it: in the
\* hook of pre_execution unless the journal has the slot, for the caller, for the accounts a
\* transaction names, for whatever a frame touches, and for the beneficiary at the very end.
DatabaseError ==
    /\ \/ pc = "pre_execution" /\ IsFeeCharged(tx) /\ journal.slot = None
       \/ pc \in {"deduct_caller", "load_accounts", "first_frame", "frame"}
       \/ pc = "reward_beneficiary" /\ ~IsL1Msg(tx)
    /\ Reject("DatabaseError", journal)
    /\ UNCHANGED <<l1_block_info, envVars, db, txStart, checkpoint, returned, gasVars>>

\* catch_error (external): discard_tx reverts the journal; chain.l1_block_info is no part
\* of the journal and stays.
CatchError ==
    /\ pc = "catch_error" /\ pc' = "idle"
    /\ journal' = txStart
    /\ UNCHANGED <<l1_block_info, result, envVars, db, txStart, checkpoint, returned, gasVars>>

-----------------------------------------------------------------------------
Interface ==
    \/ \E t \in Txs : TransactOne(t)
    \/ Replay
    \/ \E t \in SystemCalls : SystemCall(t)
    \/ \E b \in Blocks : SetBlock(b)
    \/ \E c \in Cfgs : SetCfg(c)
    \/ Finalize
    \/ Commit

Frame ==
    \/ FirstFrame
    \/ \E a, b \in Accounts : \E v \in 1 .. journal.bal[a] : SendValue(a, b, v)
    \/ \E v \in OracleValues : StoreOracle(v)
    \/ EndFrame

Run ==
    \/ Validate \/ PreExecution \/ ValidateAgainstStateAndDeductCaller
    \/ LoadAccountsAndApplyAuths
    \/ Frame \/ LastFrameResult
    \/ Refund \/ Eip7623CheckGasFloor \/ ReimburseCaller \/ RewardBeneficiary
    \/ ExecutionResult \/ DatabaseError \/ CatchError

Next == Interface \/ Run

Spec == Init /\ [][Next]_vars

\* The handler is one synchronous call: once started it keeps running.  Nothing obliges the
\* owner of the EVM to start a run, commit or finalize.
FairSpec == Spec /\ WF_vars(Run)
=============================================================================
