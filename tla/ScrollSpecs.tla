----------------------------- MODULE ScrollSpecs -----------------------------
(***************************************************************************)
(* The Scroll hardforks (src/src/spec.rs) and the kinds of transaction     *)
(* (src/src/transaction.rs) that the rest of the models branch on.         *)
(***************************************************************************)
EXTENDS Integers

CONSTANT
    SystemAddress,  \* SYSTEM_ADDRESS, the caller of EIP-2935 system transactions
    None            \* the absence of an optional value

-----------------------------------------------------------------------------
(* ScrollSpecId: the fork is its discriminant. *)

SHANGHAI  == 1
BERNOULLI == 2
CURIE     == 3
DARWIN    == 4
EUCLID    == 5
FEYNMAN   == 6
GALILEO   == 7
TSUKI     == 8
TSUKI_V2  == 9

ScrollSpecId == SHANGHAI .. TSUKI_V2

\* ScrollSpecId::is_enabled_in(self, other).
IsEnabledIn(spec, other) == spec >= other

(* The Ethereum forks the handler compares with.  Their numbers only give  *)
(* their order.                                                            *)
EthBERLIN   == 1
EthLONDON   == 2
EthMERGE    == 3
EthSHANGHAI == 4
EthCANCUN   == 5

\* Variant with a mistake: a new Scroll fork is mapped to a newer Ethereum fork.
IntoEthSpecIdCancun(spec) == IF IsEnabledIn(spec, TSUKI) THEN EthCANCUN ELSE EthSHANGHAI

\* Every Scroll fork maps to Ethereum's Shanghai.
IntoEthSpecId(spec) == EthSHANGHAI

-----------------------------------------------------------------------------
(* Transactions.  A transaction is a record; "l1msg" is the custom type    *)
(* 0x7E, "custom" stands for every other type byte above 4.                *)

TxTypes == {"legacy", "eip2930", "eip1559", "eip4844", "eip7702", "l1msg", "custom"}

IsL1Msg(tx)    == tx.type = "l1msg"
IsSystemTx(tx) == tx.caller = SystemAddress

\* Only these transactions pay the L1 data fee.
IsFeeCharged(tx) == ~IsL1Msg(tx) /\ ~IsSystemTx(tx)

\* ScrollTransaction hands effective_gas_price down to revm's TxEnv (external).
EffectiveGasPrice(tx, block) ==
    IF tx.prio = None \/ tx.maxFee < block.basefee + tx.prio
    THEN tx.maxFee
    ELSE block.basefee + tx.prio

\* Transaction::max_balance_spending (external) before its overflow check.
MaxBalanceSpending(tx) == tx.gasLimit * tx.maxFee + tx.value
=============================================================================
