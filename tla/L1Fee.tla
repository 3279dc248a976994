-------------------------------- MODULE L1Fee --------------------------------
(***************************************************************************)
(* The L1 data fee of a transaction (src/src/l1block.rs): which slots of   *)
(* the L1 gas price oracle a fork reads, and the four formulas.            *)
(*                                                                         *)
(* Amounts are U256 and saturate at UMAX.  The formulas see of a           *)
(* transaction its zero and its other bytes, its compression ratio and its *)
(* compressed size; the last two may be None, and rlp_bytes too.           *)
(***************************************************************************)
EXTENDS ScrollSpecs

CONSTANTS
    UMAX,               \* U256::MAX
    PRECISION,          \* TX_L1_FEE_PRECISION
    U64_MAX, U96_MAX,
    ZERO_BYTE_COST, NON_ZERO_BYTE_COST, TX_L1_COMMIT_EXTRA_COST,
    MaxSize             \* no transaction is longer

\* The fee's caps are so far below UMAX that they hide every saturation: for the real
\* constants UMAX is above 2^255, PRECISION is below 2^30 and a length fits in 64 bits.
ASSUME FeeAssumption ==
    /\ {UMAX, U64_MAX, U96_MAX, ZERO_BYTE_COST, NON_ZERO_BYTE_COST,
        TX_L1_COMMIT_EXTRA_COST} \subseteq Nat
    /\ PRECISION \in Nat \ {0} /\ MaxSize \in Nat \ {0}
    /\ U64_MAX <= U96_MAX
    /\ PRECISION * PRECISION * U96_MAX <= UMAX
    /\ MaxSize * PRECISION * U96_MAX <= UMAX

Slots == {"l1_base_fee", "l1_fee_overhead", "l1_base_fee_scalar", "l1_blob_base_fee",
          "l1_commit_scalar", "l1_blob_scalar", "penalty_threshold", "penalty_factor"}

U256 == 0 .. UMAX

\* What the formulas see of a transaction that has rlp_bytes.
TxData == [zeros : Nat, nonzeros : Nat, ratio : U256 \cup {None}, compressed : Nat \cup {None}]
Length(data) == data.zeros + data.nonzeros

-----------------------------------------------------------------------------
(* try_fetch_with *)

\* Variant with a mistake: the product leaves the U256.
UnboundedMul(a, b) == a * b

SaturatingAdd(a, b) == IF a + b > UMAX THEN UMAX ELSE a + b
SaturatingMul(a, b) == IF a * b > UMAX THEN UMAX ELSE a * b

\* L1BlockInfo from the values read, v: a field is None where the fork does not read its slot.
InfoFrom(v, spec) ==
    LET curie   == IsEnabledIn(spec, CURIE)
        feynman == IsEnabledIn(spec, FEYNMAN)
    IN  [l1_base_fee        |-> v["l1_base_fee"],
         l1_fee_overhead    |-> v["l1_fee_overhead"],
         l1_base_fee_scalar |-> v["l1_base_fee_scalar"],
         l1_blob_base_fee   |-> IF curie THEN v["l1_blob_base_fee"] ELSE None,
         l1_commit_scalar   |-> IF curie THEN v["l1_commit_scalar"] ELSE None,
         l1_blob_scalar     |-> IF curie THEN v["l1_blob_scalar"] ELSE None,
         calldata_gas       |-> IF curie THEN SaturatingMul(v["l1_commit_scalar"], v["l1_base_fee"])
                                         ELSE None,
         penalty_threshold  |-> IF feynman THEN v["penalty_threshold"] ELSE None,
         penalty_factor     |-> IF feynman THEN v["penalty_factor"] ELSE None]

DefaultL1BlockInfo ==
    [l1_base_fee |-> 0, l1_fee_overhead |-> 0, l1_base_fee_scalar |-> 0,
     l1_blob_base_fee |-> None, l1_commit_scalar |-> None, l1_blob_scalar |-> None,
     calldata_gas |-> None, penalty_threshold |-> None, penalty_factor |-> None]

-----------------------------------------------------------------------------
(* The formulas.  A result is a fee or an error. *)

Fee(v)       == [error |-> "none", fee |-> v]
FeeError(e)  == [error |-> e, fee |-> 0]
Present(values) == None \notin values

PreCurieL1Gas(info, data) ==
    SaturatingAdd(SaturatingAdd(data.zeros * ZERO_BYTE_COST + data.nonzeros * NON_ZERO_BYTE_COST,
                                info.l1_fee_overhead),
                  TX_L1_COMMIT_EXTRA_COST)

ShanghaiFee(info, data) ==
    Fee(SaturatingMul(SaturatingMul(PreCurieL1Gas(info, data), info.l1_base_fee),
                      info.l1_base_fee_scalar) \div PRECISION)

CurieBlobFee(info, data) ==
    SaturatingMul(SaturatingMul(Length(data), info.l1_blob_base_fee), info.l1_blob_scalar)

CurieFee(info, data) ==
    IF ~Present({info.l1_blob_base_fee, info.l1_blob_scalar, info.calldata_gas})
    THEN FeeError("MissingOracleValue")
    ELSE Fee(SaturatingAdd(info.calldata_gas, CurieBlobFee(info, data)) \div PRECISION)

\* Variant with a mistake: plain, wrapping arithmetic.
FeePerByteWrapping(info) ==
    (info.l1_commit_scalar * info.l1_base_fee + info.l1_blob_scalar * info.l1_blob_base_fee)
        % (UMAX + 1)

\* The price of a byte, from Feynman on.
FeePerByte(info) ==
    SaturatingAdd(SaturatingMul(info.l1_commit_scalar, info.l1_base_fee),
                  SaturatingMul(info.l1_blob_scalar, info.l1_blob_base_fee))

FeynmanFee(info, data) ==
    IF data.ratio = None THEN FeeError("MissingCompressionRatio")
    ELSE IF data.ratio < PRECISION THEN FeeError("InvalidCompressionRatio")
    ELSE IF ~Present({info.l1_commit_scalar, info.l1_blob_scalar, info.l1_blob_base_fee,
                      info.penalty_threshold, info.penalty_factor})
    THEN FeeError("MissingOracleValue")
    ELSE LET penalty == IF data.ratio >= info.penalty_threshold
                        THEN PRECISION ELSE info.penalty_factor
         IN  Fee((SaturatingMul(SaturatingMul(Length(data), FeePerByte(info)), penalty)
                    \div PRECISION) \div PRECISION)

\* A penalty factor of zero counts as one.
Sanitized(factor) == IF factor = 0 THEN 1 ELSE factor

\* Variant with a mistake: the penalty shrinks with the size.
GalileoFeeInverted(info, data) ==
    LET base == SaturatingMul(FeePerByte(info), Length(data) - data.compressed)
    IN  IF data.compressed = None \/ data.compressed > Length(data)
        THEN FeeError("InvalidCompressedSize")
        ELSE Fee(base \div PRECISION)

GalileoFee(info, data) ==
    IF data.compressed = None THEN FeeError("MissingCompressedSize")
    ELSE IF data.compressed > Length(data) THEN FeeError("InvalidCompressedSize")
    ELSE IF ~Present({info.l1_commit_scalar, info.l1_blob_scalar, info.l1_blob_base_fee,
                      info.penalty_factor})
    THEN FeeError("MissingOracleValue")
    ELSE LET base    == SaturatingMul(FeePerByte(info), data.compressed)
             penalty == SaturatingMul(base, data.compressed) \div Sanitized(info.penalty_factor)
         IN  Fee(SaturatingAdd(base, penalty) \div PRECISION)

Formula(info, data, spec) ==
    IF ~IsEnabledIn(spec, CURIE) THEN ShanghaiFee(info, data)
    ELSE IF ~IsEnabledIn(spec, FEYNMAN) THEN CurieFee(info, data)
    ELSE IF ~IsEnabledIn(spec, GALILEO) THEN FeynmanFee(info, data)
    ELSE GalileoFee(info, data)

Cap(spec) == IF IsEnabledIn(spec, TSUKI) THEN U96_MAX ELSE U64_MAX
AtMost(v, cap) == IF v <= cap THEN v ELSE cap

\* try_calculate_tx_l1_cost
TryCalculateTxL1Cost(info, data, spec) ==
    LET r == Formula(info, data, spec)
    IN  IF r.error # "none" THEN r ELSE Fee(AtMost(r.fee, Cap(spec)))
=============================================================================
