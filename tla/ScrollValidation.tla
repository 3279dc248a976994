--------------------------- MODULE ScrollValidation ---------------------------
(***************************************************************************)
(* Stateless validation of a transaction: ScrollHandler::validate_env and  *)
(* ScrollHandler::validate_initial_tx_gas (src/src/handler.rs).            *)
(*                                                                         *)
(* A configuration is a record with fields spec, chainId, chainIdCheck,    *)
(* gasLimitCap, baseFeeCheckDisabled, priorityFeeCheckDisabled,            *)
(* blockGasLimitDisabled, eip3607Disabled, eip7623Disabled,                *)
(* maxInitcodeSize and gasParams.  A transaction carries the sizes that    *)
(* validation looks at: tokens (calldata tokens), initcode (bytes of       *)
(* input), accessAccounts, accessSlots and auths (the set of authorities   *)
(* of an EIP-7702 list).                                                   *)
(***************************************************************************)
EXTENDS ScrollSpecs, FiniteSets, Sequences

Ok == "ok"

\* The error of the first check that fails, or Ok.
FirstError(checks) ==
    LET failing == {i \in DOMAIN checks : checks[i][1]}
    IN  IF failing = {}
        THEN Ok
        ELSE checks[CHOOSE i \in failing : \A j \in failing : i <= j][2]

-----------------------------------------------------------------------------
(* validate_env *)

HeaderChecks(cfg, block) ==
    LET enabled(fork) == IntoEthSpecId(cfg.spec) >= fork
    IN  << <<enabled(EthMERGE) /\ ~block.prevrandaoSet, "PrevrandaoNotSet">>,
           <<enabled(EthCANCUN) /\ ~block.excessBlobGasSet, "ExcessBlobGasNotSet">> >>

ChainIdChecks(cfg, tx) ==
    << <<cfg.chainIdCheck /\ tx.chainId # None /\ tx.chainId # cfg.chainId, "InvalidChainId">>,
       <<cfg.chainIdCheck /\ tx.chainId = None
            /\ tx.type \notin {"legacy", "l1msg", "custom"}, "MissingChainId">> >>

\* EIP-7825: L1 messages are exempt from the cap.
GasLimitCapChecks(cfg, tx) ==
    << <<~IsL1Msg(tx) /\ tx.gasLimit > cfg.gasLimitCap, "TxGasLimitGreaterThanCap">> >>

\* revm's validate_legacy_gas_price (external).
LegacyGasPriceChecks(cfg, block, tx) ==
    << <<~cfg.baseFeeCheckDisabled /\ tx.maxFee < block.basefee, "GasPriceLessThanBasefee">> >>

\* validate_priority_fee_for_tx over revm's validate_priority_fee_tx.
PriorityFeeChecks(cfg, block, tx) ==
    << <<~cfg.priorityFeeCheckDisabled /\ tx.prio # None /\ tx.prio > tx.maxFee,
            "PriorityFeeGreaterThanMaxFee">> >>
    \o LegacyGasPriceChecks(cfg, block, tx)

\* The match on the transaction type.
TypeChecks(cfg, block, tx) ==
    LET notIn(fork) == ~(IntoEthSpecId(cfg.spec) >= fork)
    IN  CASE tx.type = "legacy"  -> LegacyGasPriceChecks(cfg, block, tx)
          [] tx.type = "eip2930" -> << <<notIn(EthBERLIN), "Eip2930NotSupported">> >>
                                    \o LegacyGasPriceChecks(cfg, block, tx)
          [] tx.type = "eip1559" -> << <<notIn(EthLONDON), "Eip1559NotSupported">> >>
                                    \o PriorityFeeChecks(cfg, block, tx)
          [] tx.type = "eip4844" -> << <<notIn(EthCANCUN), "Eip4844NotSupported">> >>
                                    \o PriorityFeeChecks(cfg, block, tx)
          [] tx.type = "eip7702" -> << <<~IsEnabledIn(cfg.spec, EUCLID), "Eip7702NotSupported">> >>
                                    \o PriorityFeeChecks(cfg, block, tx)
                                    \o << <<tx.auths = {}, "EmptyAuthorizationList">> >>
          [] tx.type = "l1msg"   -> << >>
          [] tx.type = "custom"  -> << <<TRUE, "UnsupportedTransactionType">> >>

\* The block gas limit and EIP-3860's limit on initcode.
LimitChecks(cfg, block, tx) ==
    << <<~cfg.blockGasLimitDisabled /\ tx.gasLimit > block.gasLimit, "CallerGasLimitMoreThanBlock">>,
       <<IntoEthSpecId(cfg.spec) >= EthSHANGHAI /\ tx.create /\ tx.initcode > cfg.maxInitcodeSize,
            "CreateInitCodeSizeLimit">> >>

ValidateEnv(cfg, block, tx) ==
    FirstError(HeaderChecks(cfg, block) \o ChainIdChecks(cfg, tx) \o GasLimitCapChecks(cfg, tx)
               \o TypeChecks(cfg, block, tx) \o LimitChecks(cfg, block, tx))

-----------------------------------------------------------------------------
(* validate_initial_tx_gas *)

\* GasParams::initial_tx_gas (external): the intrinsic gas ...
IntrinsicGas(p, tx, accounts, slots) ==
    p.base + tx.tokens * p.perToken + (IF tx.create THEN p.create ELSE 0)
      + accounts * p.perAccount + slots * p.perSlot + Cardinality(tx.auths) * p.perAuth

\* ... and the EIP-7623 floor.
FloorGas(p, tx) == p.floorBase + tx.tokens * p.floorPerToken

\* Variant with a mistake: a gas limit below the floor is let through.
ValidateInitialTxGasWithoutFloor(cfg, tx) ==
    LET initial == IntrinsicGas(cfg.gasParams, tx, tx.accessAccounts, tx.accessSlots)
    IN  [error   |-> IF initial > tx.gasLimit THEN "CallGasCostMoreThanGasLimit" ELSE Ok,
         initial |-> initial,
         floor   |-> FloorGas(cfg.gasParams, tx)]

\* Every type but legacy counts its access list; the floor is zero before Feynman.
ValidateInitialTxGas(cfg, tx) ==
    LET listed  == tx.type # "legacy"
        initial == IntrinsicGas(cfg.gasParams, tx,
                                IF listed THEN tx.accessAccounts ELSE 0,
                                IF listed THEN tx.accessSlots ELSE 0)
        floor   == IF cfg.eip7623Disabled \/ ~IsEnabledIn(cfg.spec, FEYNMAN)
                   THEN 0 ELSE FloorGas(cfg.gasParams, tx)
        error   == FirstError(<< <<initial > tx.gasLimit, "CallGasCostMoreThanGasLimit">>,
                                 <<IsEnabledIn(cfg.spec, FEYNMAN) /\ floor > tx.gasLimit,
                                    "GasFloorMoreThanGasLimit">> >>)
    IN  [error |-> error, initial |-> initial, floor |-> floor]
=============================================================================
