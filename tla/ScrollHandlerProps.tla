-------------------------- MODULE ScrollHandlerProps --------------------------
(***************************************************************************)
(* What ScrollHandler must satisfy.                                        *)
(***************************************************************************)
EXTENDS ScrollHandler, Functions

CONSTANT Nobody     \* no account: the payer before the first run

Phases == {"idle", "validate", "pre_execution", "deduct_caller", "load_accounts",
           "first_frame", "frame", "last_frame_result", "refund",
           "eip7623_check_gas_floor", "reimburse_caller", "reward_beneficiary",
           "execution_result", "catch_error"}

GasRecords == [limit : Nat, remaining : Nat, refunded : Nat]

\* The type of every variable.  That gas and balances are naturals is the part that may
\* fail: the code subtracts in unsigned integers.
TypeOK ==
    /\ pc \in Phases
    /\ mode \in {"transact", "replay", "system_call"}
    /\ tx \in Txs \cup SystemCalls \cup {NoTx}
    /\ block \in Blocks /\ cfg \in Cfgs
    /\ l1_block_info \in Infos
    /\ db \in Worlds /\ db.slot \in OracleValues
    /\ journal \in Worlds /\ txStart \in Worlds /\ checkpoint \in Worlds
    /\ returned \in Worlds \cup {NoState}
    /\ initGas \in [initial : Nat, floor : Nat]
    /\ eip7702_refund \in Nat
    /\ gas \in GasRecords
    /\ status \in {"ok", "revert", "halt", "out_of_funds"}
    /\ resultGas \in [spent : Nat, refunded : Nat, floor : Nat]
    /\ result.used \in Nat
    /\ runs \in Nat

-----------------------------------------------------------------------------
(* Fees *)

\* The phases in which the caller has been charged and the charge is still in use.
ChargedPhases == {"load_accounts", "first_frame", "frame", "last_frame_result", "refund",
                  "eip7623_check_gas_floor", "reimburse_caller"}

InTransaction == pc \notin {"idle", "catch_error"}
Pays          == mode # "system_call" /\ ~IsL1Msg(tx)
L1Fee         == IF IsFeeCharged(tx) THEN L1Cost ELSE 0

\* What has been taken from the caller and is not yet refunded or rewarded, as the deduction
\* computed it.
Pot ==
    IF pc \in ChargedPhases /\ Pays THEN Price * tx.gasLimit + L1Fee
    ELSE IF pc = "reward_beneficiary" /\ Pays THEN Price * Used(gas) + L1Fee
    ELSE 0

LedgerStage ==
    IF ~InTransaction THEN "closed"
    ELSE IF pc \in {"validate", "pre_execution", "deduct_caller"} THEN "opened"
    ELSE IF pc = "frame" THEN "running"
    ELSE IF pc = "reward_beneficiary" THEN "refunded"
    ELSE IF pc = "execution_result" /\ mode # "system_call" THEN "collected"
    ELSE "charged"

\* A rejected transaction is aborted in the ledger when the error occurs, so what the failed
\* run left in the journal until catch_error never shows there.
LedgerBal    == IF pc = "catch_error" THEN txStart.bal ELSE journal.bal
LedgerPayer  == IF tx = NoTx THEN Nobody ELSE tx.caller
LedgerHanded == IF returned = NoState THEN {} ELSE {returned.bal}

Ledger == INSTANCE FeeLedger WITH
    bal       <- LedgerBal,
    pot       <- Pot,
    stage     <- LedgerStage,
    payer     <- LedgerPayer,
    collector <- block.beneficiary,
    start     <- txStart.bal,
    saved     <- checkpoint.bal,
    stored    <- db.bal,
    handed    <- LedgerHanded

\* The handler implements the fee ledger: what validate_against_state_and_deduct_caller takes
\* is what reimburse_caller and reward_beneficiary pay out, even if the transaction rewrites
\* the L1 gas price oracle in between; a rejected transaction changes no balance; L1 messages
\* and system calls pay nothing; no amount is silently left out by decr_balance.
ImplementsLedger == Ledger!Spec

\* ImplementsLedger as a sum: all balances and the pot together never change, so no fee is created or
\* lost between the deduction from the caller and the reward of the beneficiary.
MoneyIsConserved ==
    pc # "catch_error" => SumFunction(journal.bal) + Pot = SumFunction(InitialBalance)

\* The L1 fee of a transaction is computed from the oracle as it was when the transaction
\* began, with the updates of earlier transactions that are not in the database yet, and not
\* from an L1BlockInfo left by another transaction or fetched for another fork.
FeeFromOracleAtStart ==
    (pc \in ChargedPhases \cup {"reward_beneficiary"} /\ Pays /\ IsFeeCharged(tx))
        => l1_block_info = Fetched(txStart)

\* reward_beneficiary computes the L1 fee again, after execution.  That can never be the
\* place where a missing fee input is found: the executed transaction would be discarded.
RewardCannotFail ==
    (pc = "reward_beneficiary" /\ IsFeeCharged(tx)) => L1CostOk

-----------------------------------------------------------------------------
(* Admission *)

\* Who can pay the value when the first frame is made: from TsukiV2 every admitted transaction
\* that pays for itself, since the combined check leaves room for gas, value and L1 fee
\* together and authorizations do not move money; before Euclid every admitted L1 message.
AdmittedCanPayValue ==
    LET mustCover == IF IsL1Msg(tx) THEN ~IsEnabledIn(cfg.spec, EUCLID)
                                    ELSE IsEnabledIn(cfg.spec, TSUKI_V2)
    IN  (pc \in {"load_accounts", "first_frame"} /\ mode # "system_call" /\ mustCover)
            => tx.value <= journal.bal[tx.caller]

\* From TsukiV2 an included transaction has used up its nonce, a CREATE too, whose nonce is
\* only bumped in its frame: it can never be included twice.
IncludedUsesNonce ==
    (pc = "execution_result" /\ Pays /\ IsEnabledIn(cfg.spec, TSUKI_V2))
        => journal.nonce[tx.caller] > tx.nonce

\* The comment on the nonce bump of an L1 message: "Nonce is already checked"
\* (src/src/handler.rs:420).
L1MessageNonceChecked ==
    [][(pc = "deduct_caller" /\ pc' = "load_accounts" /\ IsL1Msg(tx))
          => journal.nonce[tx.caller] = tx.nonce]_vars

\* Nobody can resubmit a message that L1 has already queued.  From Euclid it is refused only for
\* what its sender on L1 could have got right (the gas limits, the chain, the size of initcode),
\* for a caller with code, or for a database or a block environment that fails: never for a
\* price, a fee, a balance, a nonce or the cap on the gas of a transaction, in any phase.
L1MessagesAreNotTurnedAway ==
    (pc = "catch_error" /\ IsL1Msg(tx) /\ IsEnabledIn(cfg.spec, EUCLID))
        => result.status \in {"InvalidChainId", "CallerGasLimitMoreThanBlock",
                              "CreateInitCodeSizeLimit", "CallGasCostMoreThanGasLimit",
                              "GasFloorMoreThanGasLimit", "RejectCallerWithCode",
                              "DatabaseError", "PrevrandaoNotSet"}

-----------------------------------------------------------------------------
(* Gas *)

\* The gas a paying transaction is charged for: at most its limit, at least its EIP-7623
\* floor whatever refunds it earned, and at least four fifths of its intrinsic gas.
ChargedGasBounds ==
    (pc = "reward_beneficiary" /\ Pays)
        => /\ Used(gas) <= tx.gasLimit
           /\ Used(gas) >= initGas.floor
           /\ Used(gas) >= initGas.initial - initGas.initial \div 5

\* The gas an included transaction reports is the gas its caller was charged for; an L1
\* message reports the gas it spent, without the floor it is exempt from.
ReportedGasIsChargedGas ==
    (pc = "idle" /\ result.status \in OkOrRevert \cup {"halt"})
        => result.used = Used(gas)

-----------------------------------------------------------------------------
(* Liveness *)

\* Every run comes to an end, whatever its code does and whatever fails: an opcode loop runs
\* out of gas, and every error reaches catch_error.
RunsTerminate == pc # "idle" ~> pc = "idle"

-----------------------------------------------------------------------------
(* The inductive invariant behind the theorems of ScrollHandlerProofs: why *)
(* the subtractions of the gas accounting cannot underflow, and why the    *)
(* fee is computed twice from the same input.                              *)

SettlingPhases == {"refund", "eip7623_check_gas_floor", "reimburse_caller", "reward_beneficiary"}

\* A run has a transaction, whose gas limit covers its intrinsic gas and its floor.
GasLimitCovers ==
    /\ pc # "idle" => tx # NoTx
    /\ tx # NoTx => initGas.initial <= tx.gasLimit /\ initGas.floor <= tx.gasLimit

\* What a frame has left and has earned never exceeds what it was given, and what it was
\* given is what the gas limit leaves above the intrinsic gas.
FrameGas ==
    pc \in {"frame", "last_frame_result"} =>
        /\ gas.limit <= tx.gasLimit - initGas.initial
        /\ gas.remaining + gas.refunded <= gas.limit

\* From last_frame_result on gas counts from the gas limit of the transaction.
SettledGas ==
    pc \in SettlingPhases => /\ gas.limit = tx.gasLimit
                             /\ gas.remaining + gas.refunded <= gas.limit

\* Nothing is written before the deduction.
NothingWritten ==
    pc \in {"validate", "pre_execution", "deduct_caller"} => journal = txStart

\* System calls never validate, are never charged and never settle.
SystemCallPhases ==
    mode = "system_call" => pc \in {"idle", "first_frame", "frame", "last_frame_result",
                                    "execution_result", "catch_error"}

\* The fee's inputs, from the moment they are fetched.
FeeInputsFetched ==
    (pc \in ChargedPhases \cup {"deduct_caller", "reward_beneficiary"} /\ Pays /\ IsFeeCharged(tx))
        => l1_block_info = Fetched(txStart)
FeeInputsChecked ==
    (pc \in ChargedPhases \cup {"reward_beneficiary"} /\ Pays /\ IsFeeCharged(tx)) => L1CostOk

IInv ==
    /\ TypeOK /\ GasLimitCovers /\ FrameGas /\ SettledGas
    /\ NothingWritten /\ SystemCallPhases /\ FeeInputsFetched /\ FeeInputsChecked
=============================================================================
