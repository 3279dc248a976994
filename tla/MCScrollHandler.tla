--------------------------- MODULE MCScrollHandler ---------------------------
(***************************************************************************)
(* Small instances of ScrollHandler for TLC.  alice sends transactions,    *)
(* dapp is a contract with a little money, fresh is the address a CREATE   *)
(* of alice deploys to.                                                    *)
(***************************************************************************)
EXTENDS ScrollHandlerProps, TLC

CONSTANTS alice, dapp, fresh

MCAccounts == {alice, dapp, fresh, SystemAddress}

\* Intrinsic gas 5 of a gas limit of 6: one step of execution, and enough spent gas for one
\* unit of refund.  One calldata token puts the floor at 6.
MCGasParams == [base |-> 5, perToken |-> 0, create |-> 0, perAccount |-> 1, perSlot |-> 1,
                perAuth |-> 1, floorBase |-> 5, floorPerToken |-> 1]

MCCfg(spec) == [spec |-> spec, chainId |-> 1, chainIdCheck |-> TRUE, gasLimitCap |-> 7,
                baseFeeCheckDisabled |-> FALSE, priorityFeeCheckDisabled |-> FALSE,
                blockGasLimitDisabled |-> FALSE, eip3607Disabled |-> FALSE,
                eip7623Disabled |-> FALSE, maxInitcodeSize |-> 1, gasParams |-> MCGasParams]

MCTsukiV2 == {MCCfg(TSUKI_V2)}
MCTsuki   == {MCCfg(TSUKI)}
MCEvery   == {MCCfg(spec) : spec \in ScrollSpecId}

Block(beneficiary) == [basefee |-> 1, beneficiary |-> beneficiary, gasLimit |-> 8,
                       prevrandaoSet |-> TRUE, excessBlobGasSet |-> FALSE]

MCBlocks    == {Block(fresh)}
MCTwoBlocks == {Block(fresh), Block(alice)}

\* The oracle holds the fee of one unit of data.
MCOracleValues == {0, 2}
MCDefaultInfo  == 99
MCDataSet      == {"none", "small"}
MCInfos        == MCOracleValues \cup {MCDefaultInfo}
MCTryFetch     == [p \in OracleValues \X ScrollSpecId |-> p[1]]
MCFeeDefined   == MCOracleValues \X {"small"} \X ScrollSpecId
MCTxL1Cost     == [p \in FeeInputs |-> IF p \in FeeDefined THEN p[1] ELSE 0]

MCBalance == [a \in MCAccounts |-> CASE a = alice -> 21 [] a = SystemAddress -> 7
                                     [] a = dapp -> 1 [] OTHER -> 0]
MCCode    == [a \in MCAccounts |-> IF a = dapp THEN "contract" ELSE "empty"]

\* A call of dapp by alice that can afford everything.
Call == [type |-> "eip1559", caller |-> alice, create |-> FALSE, to |-> dapp, nonce |-> 0,
         gasLimit |-> 6, maxFee |-> 2, prio |-> 0, value |-> 1, chainId |-> 1,
         tokens |-> 1, initcode |-> 0, accessAccounts |-> 0, accessSlots |-> 0,
         auths |-> {}, data |-> "small"]
\* Still affordable after Call, whatever the oracle says by then.
NextCall  == [Call EXCEPT !.nonce = 1, !.maxFee = 1, !.prio = None, !.type = "legacy"]
Create    == [Call EXCEPT !.create = TRUE, !.to = fresh, !.value = 2, !.tokens = 0]
NoFeeData == [Call EXCEPT !.data = "none"]
\* Below the floor.
TightGas  == [Call EXCEPT !.gasLimit = 5]
\* Gas, or gas and value, fit the balance; with an L1 fee above zero they do not.
TightFee    == [Call EXCEPT !.type = "legacy", !.prio = None, !.gasLimit = 7, !.maxFee = 3,
                                !.value = 0]
TightCreate == [Create EXCEPT !.type = "legacy", !.prio = None, !.value = 8]
\* Fits U256 without the L1 fee only.
HugeValue == [Call EXCEPT !.value = 87]
SystemTx  == [Call EXCEPT !.caller = SystemAddress, !.type = "legacy", !.prio = None,
                          !.maxFee = 1, !.data = "none"]
L1Message == [Call EXCEPT !.type = "l1msg", !.nonce = 5, !.prio = None, !.data = "none"]
\* Nobody ever has the value.  Above the cap on the gas of a transaction, within the block.
L1Create  == [L1Message EXCEPT !.create = TRUE, !.to = fresh, !.value = 30, !.gasLimit = 8]
Delegate  == [Call EXCEPT !.type = "eip7702", !.auths = {alice}, !.tokens = 0]
Probe     == [caller |-> SystemAddress, type |-> "legacy", create |-> FALSE, to |-> dapp,
              nonce |-> 0, gasLimit |-> 2, maxFee |-> 0, prio |-> None, value |-> 0,
              chainId |-> 1, tokens |-> 0, initcode |-> 0, accessAccounts |-> 0,
              accessSlots |-> 0, auths |-> {}, data |-> "none"]

MCUserTxs   == {Call, NextCall, Create, NoFeeData, TightGas, TightFee, TightCreate, HugeValue,
                Delegate}
MCAllTxs    == MCUserTxs \cup {SystemTx, L1Message, L1Create}
MCL1Txs     == {Call, L1Message, L1Create}
MCSystem    == {Probe}
=============================================================================
