----------------------------- MODULE HandlerFees -----------------------------
(***************************************************************************)
(* The handler composed with the L1 fee: the constants that ScrollHandler  *)
(* leaves open, TryFetch, FeeDefined and TxL1Cost, are                     *)
(* try_fetch_from_journal and tx_l1_cost over the formulas of L1Fee, with  *)
(* every field of L1BlockInfo.                                             *)
(***************************************************************************)
EXTENDS ScrollHandlerProps

CONSTANTS PRECISION, U64_MAX, U96_MAX, ZERO_BYTE_COST, NON_ZERO_BYTE_COST,
          TX_L1_COMMIT_EXTRA_COST, MaxSize

Fees == INSTANCE L1Fee

\* tx_l1_cost.  Data None is a transaction without rlp_bytes: it fails before the fee is asked for.
TxL1CostOf(input) ==
    IF input[2] = None THEN Fees!FeeError("MissingRlpBytes")
    ELSE Fees!TryCalculateTxL1Cost(input[1], input[2], input[3])

ComposedTryFetch   == [p \in OracleValues \X ScrollSpecId |-> Fees!InfoFrom(p[1], p[2])]
ComposedFeeDefined == {input \in FeeInputs : TxL1CostOf(input).error = "none"}
ComposedTxL1Cost   == [input \in FeeInputs |-> TxL1CostOf(input).fee]

\* The constants of the handler are the fee's.
FeesComposed ==
    /\ PRECISION \in Nat
    /\ OracleValues \subseteq [Fees!Slots -> Fees!U256]
    /\ DataSet \subseteq Fees!TxData \cup {None}
    /\ TryFetch = ComposedTryFetch
    /\ FeeDefined = ComposedFeeDefined /\ TxL1Cost = ComposedTxL1Cost

-----------------------------------------------------------------------------
\* What a transaction must carry by the fork's own rules: its bytes, in Feynman's formula a
\* compression ratio of at least one, from Galileo a compressed size that is not above its size.
Supplies(data, spec) ==
    /\ data # None
    /\ IsEnabledIn(spec, FEYNMAN) /\ ~IsEnabledIn(spec, GALILEO)
          => data.ratio # None /\ data.ratio >= PRECISION
    /\ IsEnabledIn(spec, GALILEO)
          => data.compressed # None /\ data.compressed <= Fees!Length(data)

\* Whether the fee can be computed is a matter of the transaction alone: a transaction that
\* carries what its fork asks for is never rejected with an L1 fee error, in any phase, because
\* of an L1BlockInfo left by another transaction or fetched for another fork, and one that does
\* not is never charged.
OnlyTheTransactionLacksInputs ==
    /\ (pc = "catch_error" /\ result.status = "L1FeeError") => ~Supplies(tx.data, cfg.spec)
    /\ (pc \in ChargedPhases /\ Pays /\ IsFeeCharged(tx)) => Supplies(tx.data, cfg.spec)
=============================================================================
