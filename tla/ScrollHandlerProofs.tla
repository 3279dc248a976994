-------------------------- MODULE ScrollHandlerProofs --------------------------
(***************************************************************************)
(* Theorems of ScrollHandler, for every value of its constants.  The first *)
(* invariant, IInv, is about types, gas and the inputs of the fee.  From   *)
(* it follow the second, SafetyInv, about what validation admits, what a   *)
(* transaction is charged for and what becomes of its nonce; that the      *)
(* handler implements FeeLedger; that no money is created or lost; and     *)
(* what can make the L1 fee of HandlerFees uncomputable.                   *)
(***************************************************************************)
EXTENDS HandlerFees, ScrollValidationProofs

-----------------------------------------------------------------------------
(* Worlds *)

\* incr_balance keeps a world a world.
LEMMA CreditWorld ==
    ASSUME NEW w \in Worlds, NEW a \in Accounts, NEW v \in Nat
    PROVE  /\ Credit(w, a, v) \in Worlds
           /\ Credit(w, a, v).bal = [w.bal EXCEPT ![a] = @ + v]
           /\ Credit(w, a, v).nonce = w.nonce
           /\ Credit(w, a, v).code = w.code
           /\ Credit(w, a, v).slot = w.slot
BY DEF Credit, Worlds

\* decr_balance never takes a balance below zero: it leaves a too small one alone.
LEMMA DecrBalanceWorld ==
    ASSUME NEW w \in Worlds, NEW a \in Accounts, NEW v \in Nat
    PROVE  /\ DecrBalance(w, a, v) \in Worlds
           /\ v <= w.bal[a] => DecrBalance(w, a, v).bal = [w.bal EXCEPT ![a] = @ - v]
           /\ DecrBalance(w, a, v).nonce = w.nonce
           /\ DecrBalance(w, a, v).code = w.code
           /\ DecrBalance(w, a, v).slot = w.slot
BY DEF DecrBalance, Worlds

\* bump_nonce keeps a world a world.
LEMMA BumpNonceWorld ==
    ASSUME NEW w \in Worlds, NEW a \in Accounts
    PROVE  /\ BumpNonce(w, a) \in Worlds
           /\ BumpNonce(w, a).bal = w.bal
           /\ BumpNonce(w, a).nonce = [w.nonce EXCEPT ![a] = @ + 1]
           /\ BumpNonce(w, a).code = w.code
           /\ BumpNonce(w, a).slot = w.slot
BY DEF BumpNonce, Worlds

\* Storing an oracle value keeps a world a world.
LEMMA SlotWorld ==
    ASSUME NEW w \in Worlds, NEW v \in OracleValues \cup {None}
    PROVE  /\ [w EXCEPT !.slot = v] \in Worlds
           /\ [w EXCEPT !.slot = v].bal = w.bal
           /\ [w EXCEPT !.slot = v].slot = v
BY DEF Worlds

\* Moving an amount that is there keeps a world a world.
LEMMA MoveWorld ==
    ASSUME NEW w \in Worlds, NEW a \in Accounts, NEW b \in Accounts, NEW v \in Nat
    PROVE  Move(w, a, b, v) \in Worlds
BY CreditWorld, DecrBalanceWorld DEF Move

\* Authorizations change code and nonces only.
LEMMA AuthorizedWorld ==
    ASSUME NEW w \in Worlds, NEW applied,
           NEW w2, w2 = [w EXCEPT
              !.code  = [a \in Accounts |-> IF a \in applied THEN "delegation" ELSE @[a]],
              !.nonce = [a \in Accounts |-> IF a \in applied THEN @[a] + 1 ELSE @[a]]]
    PROVE  w2 \in Worlds /\ w2.bal = w.bal /\ w2.slot = w.slot
<1> DEFINE code  == [a \in Accounts |-> IF a \in applied THEN "delegation" ELSE w.code[a]]
           nonce == [a \in Accounts |-> IF a \in applied THEN w.nonce[a] + 1 ELSE w.nonce[a]]
<1>1. w2 = [bal |-> w.bal, nonce |-> nonce, code |-> code, slot |-> w.slot]
  BY DEF Worlds
<1>2. code \in [Accounts -> CodeKinds] /\ nonce \in [Accounts -> Nat]
  BY DEF Worlds, CodeKinds
<1>3. w.bal \in [Accounts -> Nat] /\ w.slot \in OracleValues \cup {None}
  BY DEF Worlds
<1>4. \A n \in [Accounts -> Nat], c \in [Accounts -> CodeKinds] :
         LET v == [bal |-> w.bal, nonce |-> n, code |-> c, slot |-> w.slot]
         IN  v \in Worlds /\ v.bal = w.bal /\ v.slot = w.slot
  BY <1>3 DEF Worlds
<1> DEFINE v == [bal |-> w.bal, nonce |-> nonce, code |-> code, slot |-> w.slot]
<1> HIDE DEF code, nonce
<1>5. v \in Worlds /\ v.bal = w.bal /\ v.slot = w.slot
  BY <1>2, <1>4
<1>6. w2 = v
  BY <1>1
<1> HIDE DEF v
<1> QED BY <1>5, <1>6

-----------------------------------------------------------------------------
(* Transactions and gas *)

\* The fields of a transaction have their types.
LEMMA TxFields ==
    ASSUME NEW t \in TxRecords
    PROVE  /\ t.caller \in Accounts /\ t.to \in Accounts /\ t.nonce \in Nat
           /\ t.gasLimit \in Nat /\ t.maxFee \in Nat /\ t.prio \in Nat \cup {None}
           /\ t.value \in Nat /\ t.tokens \in Nat /\ t.accessAccounts \in Nat
           /\ t.accessSlots \in Nat /\ t.auths \subseteq Accounts /\ t.data \in DataSet
           /\ t.create \in BOOLEAN /\ t.type \in TxTypes
BY DEF TxRecords

\* The effective price is a natural, at most the price the balance was checked for.
LEMMA PriceAtMostMaxFee ==
    ASSUME NEW t \in TxRecords, NEW b \in Blocks
    PROVE  /\ EffectiveGasPrice(t, b) \in Nat
           /\ EffectiveGasPrice(t, b) <= t.maxFee
BY TxFields, BlockAssumption DEF EffectiveGasPrice

\* Gas times a price is a natural.
LEMMA ProductIsNat ==
    ASSUME NEW x \in Nat, NEW y \in Nat
    PROVE  x * y \in Nat
OBVIOUS

\* The number of authorizations is a natural: each is one of the finitely many.
LEMMA AuthorizationsAreFinite ==
    ASSUME NEW t \in TxRecords
    PROVE  Cardinality(t.auths) \in Nat
BY TxFields, TxAssumption, FS_Subset, FS_CardinalityType

\* Calldata and lists only add to the intrinsic gas and to the floor.
LEMMA IntrinsicGasIsNat ==
    ASSUME NEW c \in Cfgs, NEW t \in TxRecords, NEW accounts \in Nat, NEW slots \in Nat
    PROVE  /\ IntrinsicGas(c.gasParams, t, accounts, slots) \in Nat
           /\ FloorGas(c.gasParams, t) \in Nat
<1> DEFINE p == c.gasParams
<1>1. /\ p.base \in Nat /\ p.perToken \in Nat /\ p.create \in Nat /\ p.perAccount \in Nat
      /\ p.perSlot \in Nat /\ p.perAuth \in Nat /\ p.floorBase \in Nat
      /\ p.floorPerToken \in Nat
  BY CfgAssumption DEF GasParamNames
<1> HIDE DEF p
<1>2. /\ t.tokens * p.perToken \in Nat /\ accounts * p.perAccount \in Nat
      /\ slots * p.perSlot \in Nat /\ Cardinality(t.auths) * p.perAuth \in Nat
      /\ t.tokens * p.floorPerToken \in Nat
  BY <1>1, TxFields, AuthorizationsAreFinite, ProductIsNat
<1>3. IntrinsicGas(p, t, accounts, slots) \in Nat
  BY <1>1, <1>2 DEF IntrinsicGas
<1>4. FloorGas(p, t) \in Nat
  BY <1>1, <1>2 DEF FloorGas
<1> QED BY <1>3, <1>4 DEF p

\* A transaction that passes validate_initial_tx_gas can pay its intrinsic gas and its floor.
LEMMA ValidatedGas ==
    ASSUME NEW c \in Cfgs, NEW t \in TxRecords
    PROVE  LET v == ValidateInitialTxGas(c, t)
           IN  /\ v.initial \in Nat /\ v.floor \in Nat
               /\ v.error = Ok => v.initial <= t.gasLimit /\ v.floor <= t.gasLimit
<1> DEFINE v       == ValidateInitialTxGas(c, t)
           listed  == t.type # "legacy"
           initial == IntrinsicGas(c.gasParams, t, IF listed THEN t.accessAccounts ELSE 0,
                                   IF listed THEN t.accessSlots ELSE 0)
           floor   == IF c.eip7623Disabled \/ ~IsEnabledIn(c.spec, FEYNMAN)
                      THEN 0 ELSE FloorGas(c.gasParams, t)
           over    == initial > t.gasLimit
           under   == IsEnabledIn(c.spec, FEYNMAN) /\ floor > t.gasLimit
           p       == <<over, "CallGasCostMoreThanGasLimit">>
           q       == <<under, "GasFloorMoreThanGasLimit">>
<1>1. initial \in Nat /\ floor \in Nat
  BY IntrinsicGasIsNat, TxFields
<1>2. /\ v.initial = initial /\ v.floor = floor
      /\ v.error = FirstError(<<p, q>>)
      /\ over \in BOOLEAN /\ under \in BOOLEAN
  BY DEF ValidateInitialTxGas
<1> HIDE DEF v, initial, over, under
<1>3. ASSUME v.error = Ok PROVE ~over /\ ~under
  <2>1. p \in Checks /\ p[1] = over /\ q \in Checks /\ q[1] = under
    BY <1>2 DEF Checks, Errors
  <2> HIDE DEF p, q
  <2> QED BY <1>2, <1>3, <2>1, TwoChecksResult
<1>4. ASSUME v.error = Ok PROVE initial <= t.gasLimit /\ floor <= t.gasLimit
  <2>1. initial <= t.gasLimit
    BY <1>1, <1>3, <1>4, TxFields DEF over
  <2>2. floor <= t.gasLimit
    BY <1>1, <1>3, <1>4, TxFields DEF under
  <2> QED BY <2>1, <2>2
<1> QED BY <1>1, <1>2, <1>4 DEF v

-----------------------------------------------------------------------------
(* The inductive invariant *)

\* What the rest of the proofs take from the type invariant.
LEMMA Typed ==
    ASSUME IInv
    PROVE  /\ journal \in Worlds /\ txStart \in Worlds /\ checkpoint \in Worlds /\ db \in Worlds
           /\ block \in Blocks /\ block.beneficiary \in Accounts
           /\ cfg \in Cfgs /\ cfg.spec \in ScrollSpecId
           /\ pc # "idle" => tx \in TxRecords
           /\ tx # NoTx => tx \in TxRecords
BY TxAssumption, BlockAssumption, CfgAssumption DEF IInv, TypeOK, GasLimitCovers

\* The invariant holds in the context that builder.rs makes.
LEMMA InitIInv ==
    ASSUME Init
    PROVE  IInv
<1>1. db \in Worlds /\ journal \in Worlds /\ db.slot \in OracleValues
  BY WorldAssumption DEF Init, Worlds
<1>2. TypeOK
  BY <1>1, GasAssumption, OracleAssumption DEF Init, TypeOK, Phases, NoInitGas, NoGas, NoResultGas,
     NoResult, GasRecords
<1>3. GasLimitCovers /\ FrameGas /\ SettledGas
  BY DEF Init, GasLimitCovers, FrameGas, SettledGas, SettlingPhases
<1>4. NothingWritten /\ SystemCallPhases /\ FeeInputsFetched /\ FeeInputsChecked
  BY DEF Init, NothingWritten, SystemCallPhases, FeeInputsFetched, FeeInputsChecked,
     ChargedPhases
<1> QED BY <1>2, <1>3, <1>4 DEF IInv

\* Starting a run: nothing of an earlier run is left in the gas of this one.
LEMMA StartStep ==
    ASSUME IInv, NEW m, NEW t \in Txs \cup SystemCalls, NEW first, Start(m, t, first),
           \/ m \in {"transact", "replay"} /\ first = "validate"
           \/ m = "system_call" /\ first = "first_frame"
    PROVE  IInv'
<1>1. t \in TxRecords /\ t # NoTx
  BY TxAssumption
<1>2. TypeOK'
  BY DEF Start, IInv, TypeOK, Phases, NoInitGas, NoGas, NoResultGas, NoResult, GasRecords
<1>3. GasLimitCovers' /\ FrameGas' /\ SettledGas'
  BY <1>1, TxFields DEF Start, NoInitGas, GasLimitCovers, FrameGas, SettledGas, SettlingPhases
<1>4. NothingWritten' /\ SystemCallPhases' /\ FeeInputsFetched' /\ FeeInputsChecked'
  BY DEF Start, NothingWritten, SystemCallPhases, FeeInputsFetched, FeeInputsChecked,
     ChargedPhases, Pays
<1> QED BY <1>2, <1>3, <1>4 DEF IInv

\* Between runs only states that the database and the journal have produced move around.
LEMMA IdleStep ==
    ASSUME IInv,
           (\E b \in Blocks : SetBlock(b)) \/ (\E c \in Cfgs : SetCfg(c)) \/ Finalize \/ Commit
    PROVE  IInv'
<1>1. pc = "idle" /\ pc' = "idle" /\ UNCHANGED <<tx, initGas, gas, l1_block_info, txStart, runs,
                                                 mode, checkpoint, eip7702_refund, status,
                                                 resultGas, result>>
  BY DEF SetBlock, SetCfg, Finalize, Commit, gasVars, envVars, stateVars
<1>2. block' \in Blocks /\ cfg' \in Cfgs
  BY DEF SetBlock, SetCfg, Finalize, Commit, envVars, IInv, TypeOK
<1>3. EmptyJournal \in Worlds
  BY SlotWorld, Typed DEF EmptyJournal
<1>4. db' \in Worlds /\ db'.slot \in OracleValues /\ journal' \in Worlds
      /\ returned' \in Worlds \cup {NoState}
  <2>1. CASE (\E b \in Blocks : SetBlock(b)) \/ (\E c \in Cfgs : SetCfg(c))
    BY <2>1 DEF SetBlock, SetCfg, stateVars, IInv, TypeOK
  <2>2. CASE Finalize
    BY <2>2, <1>3 DEF Finalize, IInv, TypeOK
  <2>3. CASE Commit
    <3>1. returned \in Worlds /\ OracleView(returned) \in OracleValues
      BY <2>3 DEF Commit, IInv, TypeOK, OracleView, Worlds
    <3> QED BY <2>3, <3>1, SlotWorld DEF Commit
  <2> QED BY <2>1, <2>2, <2>3
<1>5. TypeOK'
  BY <1>1, <1>2, <1>4 DEF IInv, TypeOK, Phases
<1>6. GasLimitCovers' /\ FrameGas' /\ SettledGas'
  BY <1>1 DEF IInv, GasLimitCovers, FrameGas, SettledGas, SettlingPhases
<1>7. NothingWritten' /\ SystemCallPhases' /\ FeeInputsFetched' /\ FeeInputsChecked'
  BY <1>1 DEF NothingWritten, SystemCallPhases, FeeInputsFetched, FeeInputsChecked,
     ChargedPhases
<1> QED BY <1>5, <1>6, <1>7 DEF IInv

\* Validation admits only gas limits that cover the intrinsic gas and the floor.
LEMMA ValidateStep ==
    ASSUME IInv, Validate
    PROVE  IInv'
<1> DEFINE ini == ValidateInitialTxGas(cfg, tx)
<1>1. tx \in TxRecords /\ mode # "system_call"
  BY Typed DEF Validate, IInv, SystemCallPhases
<1>2. /\ ini.initial \in Nat /\ ini.floor \in Nat
      /\ ini.error = Ok => ini.initial <= tx.gasLimit /\ ini.floor <= tx.gasLimit
  BY <1>1, Typed, ValidatedGas
<1> HIDE DEF ini
<1>3. /\ pc = "validate" /\ pc' \in {"pre_execution", "catch_error"}
      /\ UNCHANGED <<journal, l1_block_info, envVars, db, txStart, checkpoint, returned,
                     eip7702_refund, gas, status, resultGas>>
      /\ \/ initGas' = initGas
         \/ initGas' = [initial |-> ini.initial, floor |-> ini.floor] /\ ini.error = Ok
      /\ result' = result \/ result'.used = 0
  BY DEF Validate, Reject, ini
<1>4. TypeOK'
  BY <1>2, <1>3 DEF IInv, TypeOK, Phases, envVars
<1>5. GasLimitCovers' /\ FrameGas' /\ SettledGas'
  BY <1>2, <1>3 DEF IInv, GasLimitCovers, FrameGas, SettledGas, SettlingPhases, envVars
<1>6. NothingWritten' /\ SystemCallPhases' /\ FeeInputsFetched' /\ FeeInputsChecked'
  BY <1>1, <1>3 DEF IInv, NothingWritten, SystemCallPhases, FeeInputsFetched, FeeInputsChecked,
     ChargedPhases, envVars
<1> QED BY <1>4, <1>5, <1>6 DEF IInv

\* pre_execution fetches the fee's inputs while the journal is still as it was at the start.
LEMMA PreExecutionStep ==
    ASSUME IInv, PreExecution
    PROVE  IInv'
<1>1. /\ pc = "pre_execution" /\ pc' = "deduct_caller"
      /\ UNCHANGED <<result, mode, tx, block, cfg, runs, db, journal, txStart, checkpoint, returned,
                     initGas, eip7702_refund, gas, status, resultGas>>
      /\ l1_block_info' = IF IsFeeCharged(tx) THEN Fetched(journal) ELSE l1_block_info
  BY DEF PreExecution, envVars, stateVars, gasVars
<1>2. Fetched(journal) \in Infos
  <2>1. OracleView(journal) \in OracleValues
    BY DEF IInv, TypeOK, OracleView, Worlds
  <2> QED BY <2>1, Typed, OracleAssumption DEF Fetched
<1>3. TypeOK'
  BY <1>1, <1>2 DEF IInv, TypeOK, Phases
<1>4. GasLimitCovers' /\ FrameGas' /\ SettledGas'
  BY <1>1 DEF IInv, GasLimitCovers, FrameGas, SettledGas, SettlingPhases
<1>5. NothingWritten' /\ SystemCallPhases' /\ FeeInputsFetched' /\ FeeInputsChecked'
  BY <1>1 DEF IInv, NothingWritten, SystemCallPhases, FeeInputsFetched, FeeInputsChecked,
     ChargedPhases, OracleView, Fetched
<1> QED BY <1>3, <1>4, <1>5 DEF IInv

\* The amounts the deduction works with.
LEMMA Amounts ==
    ASSUME IInv, tx # NoTx
    PROVE  /\ tx \in TxRecords /\ tx.caller \in Accounts
           /\ Price \in Nat /\ Price <= tx.maxFee
           /\ Price * tx.gasLimit \in Nat
           /\ L1Cost \in Nat
<1>1. tx \in TxRecords /\ block \in Blocks
  BY Typed
<1>2. Price \in Nat /\ Price <= tx.maxFee
  BY <1>1, PriceAtMostMaxFee DEF Price
<1>3. tx.gasLimit \in Nat /\ tx.caller \in Accounts /\ tx.data \in DataSet
  BY <1>1, TxFields
<1>4. L1Cost \in Nat
  <2>1. FeeInput \in FeeInputs
    BY <1>3, Typed DEF FeeInput, FeeInputs, IInv, TypeOK
  <2> QED BY <2>1, OracleAssumption DEF L1Cost
<1> QED BY <1>1, <1>2, <1>3, <1>4, ProductIsNat

\* The mainnet deduction keeps a world a world, too small balances included.
LEMMA MainnetDeductWorld ==
    ASSUME IInv, tx # NoTx, NEW w \in Worlds
    PROVE  MainnetDeduct(w).world \in Worlds
<1>1. DecrBalance(w, tx.caller, Price * tx.gasLimit) \in Worlds
  BY Amounts, DecrBalanceWorld
<1>2. BumpCallNonce(DecrBalance(w, tx.caller, Price * tx.gasLimit)) \in Worlds
  BY <1>1, Amounts, BumpNonceWorld DEF BumpCallNonce
<1> QED BY <1>2 DEF MainnetDeduct, Fail, Pass

\* The mainnet deduction takes the gas at its effective price, after its four checks, or leaves
\* the state alone.
LEMMA MainnetDeductResult ==
    ASSUME NEW w
    PROVE  LET m == MainnetDeduct(w)
           IN  /\ m.error \in {Ok} \cup Errors
               /\ m.error # Ok => m.world = w
               /\ m.error = Ok =>
                    /\ w.nonce[tx.caller] = tx.nonce
                    /\ ~(MaxBalanceSpending(tx) > w.bal[tx.caller])
                    /\ m.world = BumpCallNonce(DecrBalance(w, tx.caller, Price * tx.gasLimit))
<1> DEFINE c1 == CallerHasCode(w)
           c2 == w.nonce[tx.caller] # tx.nonce
           c3 == MaxBalanceSpending(tx) > UMAX
           c4 == MaxBalanceSpending(tx) > w.bal[tx.caller]
           p  == <<c1, "RejectCallerWithCode">>
           q  == <<c2, "NonceMismatch">>
           r  == <<c3, "OverflowPayment">>
           z  == <<c4, "LackOfFundForMaxFee">>
           e  == FirstError(<<p, q, r, z>>)
<1>1. c1 \in BOOLEAN /\ c2 \in BOOLEAN /\ c3 \in BOOLEAN /\ c4 \in BOOLEAN
  BY DEF CallerHasCode
<1>2. /\ MainnetDeduct(w).error = e
      /\ e # Ok => MainnetDeduct(w).world = w
      /\ e = Ok => MainnetDeduct(w).world
                     = BumpCallNonce(DecrBalance(w, tx.caller, Price * tx.gasLimit))
  <2> HIDE DEF e
  <2>1. MainnetDeduct(w) = IF e # Ok THEN Fail(e, w)
                    ELSE Pass(BumpCallNonce(DecrBalance(w, tx.caller, Price * tx.gasLimit)))
    BY DEF MainnetDeduct, e
  <2> QED BY <2>1 DEF Fail, Pass
<1> HIDE DEF c1, c2, c3, c4
<1>3. /\ p \in Checks /\ p[1] = c1 /\ q \in Checks /\ q[1] = c2
      /\ r \in Checks /\ r[1] = c3 /\ z \in Checks /\ z[1] = c4
  BY <1>1 DEF Checks, Errors
<1> HIDE DEF p, q, r, z
<1>4. e \in {Ok} \cup Errors /\ (e = Ok => ~c2 /\ ~c4)
  BY <1>3, FourChecksResult
<1> HIDE DEF e
<1> QED BY <1>2, <1>4 DEF c2, c4

\* Before TsukiV2 the L1 fee has its inputs and is covered by what the gas has left.
LEMMA L1FeeChecksResult ==
    ASSUME NEW w
    PROVE  /\ L1FeeChecks(w) \in {Ok} \cup Errors
           /\ L1FeeChecks(w) = Ok => L1CostOk /\ ~(L1Cost > w.bal[tx.caller])
<1> DEFINE c1 == ~L1CostOk
           c2 == L1Cost > w.bal[tx.caller]
           p  == <<c1, "L1FeeError">>
           q  == <<c2, "LackOfFundForMaxFee">>
<1>1. c1 \in BOOLEAN /\ c2 \in BOOLEAN
  OBVIOUS
<1>2. L1FeeChecks(w) = FirstError(<<p, q>>)
  BY DEF L1FeeChecks
<1> HIDE DEF c1, c2
<1>3. p \in Checks /\ p[1] = c1 /\ q \in Checks /\ q[1] = c2
  BY <1>1 DEF Checks, Errors
<1> HIDE DEF p, q
<1>4. L1FeeChecks(w) \in {Ok} \cup Errors /\ (L1FeeChecks(w) = Ok => ~c1 /\ ~c2)
  BY <1>2, <1>3, TwoChecksResult
<1> QED BY <1>4 DEF c1, c2

\* From TsukiV2 gas, value and L1 fee are covered together by the balance before any deduction.
LEMMA CombinedChecksResult ==
    ASSUME NEW w
    PROVE  /\ CombinedChecks(w) \in {Ok} \cup Errors
           /\ CombinedChecks(w) = Ok =>
                L1CostOk /\ ~(MaxBalanceSpending(tx) + L1Cost > w.bal[tx.caller])
<1> DEFINE c1 == ~L1CostOk
           c2 == MaxBalanceSpending(tx) > UMAX \/ MaxBalanceSpending(tx) + L1Cost > UMAX
           c3 == MaxBalanceSpending(tx) + L1Cost > w.bal[tx.caller]
           p  == <<c1, "L1FeeError">>
           q  == <<c2, "OverflowPayment">>
           r  == <<c3, "LackOfFundForMaxFee">>
<1>1. c1 \in BOOLEAN /\ c2 \in BOOLEAN /\ c3 \in BOOLEAN
  OBVIOUS
<1>2. CombinedChecks(w) = FirstError(<<p, q, r>>)
  BY DEF CombinedChecks
<1> HIDE DEF c1, c2, c3
<1>3. p \in Checks /\ p[1] = c1 /\ q \in Checks /\ r \in Checks /\ r[1] = c3
  BY <1>1 DEF Checks, Errors
<1> HIDE DEF p, q, r
<1>4. CombinedChecks(w) \in {Ok} \cup Errors /\ (CombinedChecks(w) = Ok => ~c1 /\ ~c3)
  BY <1>2, <1>3, ThreeChecksResult
<1> QED BY <1>4 DEF c1, c3

\* An L1 message covers its value before Euclid; from Euclid only the caller's code is looked at.
LEMMA L1MessageChecksResult ==
    ASSUME NEW w
    PROVE  /\ L1MessageChecks(w) \in {Ok} \cup Errors
           /\ L1MessageChecks(w) = Ok /\ ~IsEnabledIn(cfg.spec, EUCLID)
                => ~(MaxBalanceSpending(tx) > w.bal[tx.caller])
           /\ IsEnabledIn(cfg.spec, EUCLID) => L1MessageChecks(w) \in {Ok, "RejectCallerWithCode"}
<1> DEFINE c1 == ~IsEnabledIn(cfg.spec, EUCLID) /\ MaxBalanceSpending(tx) > UMAX
           c2 == ~IsEnabledIn(cfg.spec, EUCLID) /\ MaxBalanceSpending(tx) > w.bal[tx.caller]
           c3 == CallerHasCode(w)
           p  == <<c1, "OverflowPayment">>
           q  == <<c2, "LackOfFundForMaxFee">>
           r  == <<c3, "RejectCallerWithCode">>
           l  == <<p, q, r>>
<1>1. /\ c1 \in BOOLEAN /\ c2 \in BOOLEAN /\ c3 \in BOOLEAN
      /\ IsEnabledIn(cfg.spec, EUCLID) => ~c1 /\ ~c2
  BY DEF CallerHasCode
<1>2. L1MessageChecks(w) = FirstError(<<p, q, r>>)
  BY DEF L1MessageChecks
<1> HIDE DEF c1, c2, c3
<1>3. /\ p \in Checks /\ p[1] = c1 /\ q \in Checks /\ q[1] = c2
      /\ r \in Checks /\ r[1] = c3 /\ r[2] = "RejectCallerWithCode"
  BY <1>1 DEF Checks, Errors
<1> HIDE DEF p, q, r
<1>4. L1MessageChecks(w) \in {Ok} \cup Errors /\ (L1MessageChecks(w) = Ok => ~c2)
  BY <1>2, <1>3, ThreeChecksResult
<1>5. ASSUME ~c1, ~c2 PROVE L1MessageChecks(w) \in {Ok, "RejectCallerWithCode"}
  <2>1. l \in CheckLists /\ DOMAIN l = 1 .. 3 /\ l[1] = p /\ l[2] = q /\ l[3] = r
    BY <1>3 DEF CheckLists
  <2> HIDE DEF l
  <2>2. \A i \in DOMAIN l : l[i][1] => i = 3
    BY <1>3, <1>5, <2>1
  <2>3. ErrorsOf(l) \subseteq {"RejectCallerWithCode"}
    BY <1>3, <2>1, <2>2, Zenon DEF ErrorsOf
  <2>4. FirstError(l) \in {Ok} \cup ErrorsOf(l)
    BY <2>1, ReportedErrorIsAFailure
  <2> QED BY <1>2, <2>3, <2>4 DEF l
<1> QED BY <1>1, <1>4, <1>5 DEF c2

\* validate_against_state_and_deduct_caller takes only what the checks found there.
LEMMA DeductStep ==
    ASSUME IInv, ValidateAgainstStateAndDeductCaller
    PROVE  IInv'
<1> DEFINE m   == MainnetDeduct(journal)
           out == IF IsL1Msg(tx) THEN AdmitL1Message(journal)
                  ELSE IF IsEnabledIn(cfg.spec, TSUKI_V2) THEN ChargeFromTsukiV2(journal)
                  ELSE ChargeBeforeTsukiV2(journal)
<1>1. /\ pc = "deduct_caller" /\ tx # NoTx /\ mode # "system_call"
      /\ tx \in TxRecords /\ journal \in Worlds
  BY Typed DEF ValidateAgainstStateAndDeductCaller, IInv, GasLimitCovers, SystemCallPhases
<1>2. m.world \in Worlds
  BY <1>1, MainnetDeductWorld
<1>3. DecrBalance(m.world, tx.caller, L1Cost) \in Worlds
  BY <1>1, <1>2, Amounts, DecrBalanceWorld
<1>4. BumpCallNonce(journal) \in Worlds
  BY <1>1, Amounts, BumpNonceWorld DEF BumpCallNonce
<1>5. out.world \in Worlds /\ (out.error = Ok /\ IsFeeCharged(tx) => L1CostOk)
  <2> HIDE DEF m
  <2>1. CASE IsL1Msg(tx)
    <3>1. out.world \in Worlds
      BY <1>1, <1>4, <2>1, Zenon DEF AdmitL1Message, Fail, Pass
    <3> QED BY <2>1, <3>1 DEF IsFeeCharged
  <2>2. CASE ~IsL1Msg(tx) /\ IsEnabledIn(cfg.spec, TSUKI_V2)
    <3>1. out.world \in Worlds
      BY <1>1, <1>2, <1>3, <2>2 DEF ChargeFromTsukiV2, Fail, Pass, m
    <3>2. ASSUME out.error = Ok, IsFeeCharged(tx) PROVE L1CostOk
      <4>1. CombinedChecks(journal) = Ok
        BY <2>2, <3>2 DEF ChargeFromTsukiV2, Fail
      <4> QED BY <4>1, CombinedChecksResult
    <3> QED BY <3>1, <3>2
  <2>3. CASE ~IsL1Msg(tx) /\ ~IsEnabledIn(cfg.spec, TSUKI_V2)
    <3>1. out.world \in Worlds
      BY <1>1, <1>2, <1>3, <2>3 DEF ChargeBeforeTsukiV2, Fail, Pass, m
    <3>2. ASSUME out.error = Ok, IsFeeCharged(tx) PROVE L1CostOk
      <4>1. L1FeeChecks(m.world) = Ok
        BY <2>3, <3>2 DEF ChargeBeforeTsukiV2, Fail, m
      <4> QED BY <4>1, L1FeeChecksResult
    <3> QED BY <3>1, <3>2
  <2> QED BY <2>1, <2>2, <2>3
<1> HIDE DEF m, out
<1>6. /\ UNCHANGED <<l1_block_info, mode, tx, block, cfg, runs, db, txStart, checkpoint, returned,
                     initGas, eip7702_refund, gas, status, resultGas>>
      /\ journal' = out.world
      /\ \/ pc' = "catch_error" /\ result'.used = 0
         \/ pc' = "load_accounts" /\ out.error = Ok /\ result' = result
  BY DEF ValidateAgainstStateAndDeductCaller, Reject, out, envVars, gasVars
<1>7. TypeOK'
  BY <1>5, <1>6 DEF IInv, TypeOK, Phases
<1>8. GasLimitCovers' /\ FrameGas' /\ SettledGas'
  BY <1>1, <1>6 DEF IInv, GasLimitCovers, FrameGas, SettledGas, SettlingPhases
<1>9. NothingWritten' /\ SystemCallPhases' /\ FeeInputsFetched' /\ FeeInputsChecked'
  BY <1>1, <1>5, <1>6 DEF IInv, NothingWritten, SystemCallPhases, FeeInputsFetched, FeeInputsChecked,
     ChargedPhases, OracleView, Fetched, Pays, L1CostOk, FeeInput
<1> QED BY <1>7, <1>8, <1>9 DEF IInv

\* load_accounts and the authorization list: the gas of the frame is what intrinsic gas leaves.
LEMMA LoadAccountsStep ==
    ASSUME IInv, LoadAccountsAndApplyAuths
    PROVE  IInv'
<1>1. /\ pc = "load_accounts" /\ pc' = "first_frame" /\ journal \in Worlds
      /\ UNCHANGED <<l1_block_info, result, mode, tx, block, cfg, runs, db, txStart, checkpoint,
                     returned, initGas, gas, status, resultGas>>
      /\ eip7702_refund' \in Nat
      /\ mode # "system_call"
  BY GasAssumption DEF LoadAccountsAndApplyAuths, envVars, IInv, TypeOK, SystemCallPhases
<1>2. journal' \in Worlds
  <2>1. PICK applied \in SUBSET tx.auths : journal' = [journal EXCEPT
              !.code  = [a \in Accounts |-> IF a \in applied THEN "delegation" ELSE @[a]],
              !.nonce = [a \in Accounts |-> IF a \in applied THEN @[a] + 1 ELSE @[a]]]
    BY Zenon DEF LoadAccountsAndApplyAuths
  <2>2. journal \in Worlds
    BY <1>1
  <2> QED BY <2>1, <2>2, AuthorizedWorld
<1>3. TypeOK'
  BY <1>1, <1>2 DEF IInv, TypeOK, Phases
<1>4. GasLimitCovers' /\ FrameGas' /\ SettledGas'
  BY <1>1 DEF IInv, GasLimitCovers, FrameGas, SettledGas, SettlingPhases
<1>5. NothingWritten' /\ SystemCallPhases' /\ FeeInputsFetched' /\ FeeInputsChecked'
  BY <1>1 DEF IInv, NothingWritten, SystemCallPhases, FeeInputsFetched, FeeInputsChecked,
     ChargedPhases, OracleView, Fetched, Pays, L1CostOk, FeeInput
<1> QED BY <1>3, <1>4, <1>5 DEF IInv

\* The first frame moves the value only if it is there.
LEMMA FirstFrameStep ==
    ASSUME IInv, FirstFrame
    PROVE  IInv'
<1> DEFINE limit  == tx.gasLimit - initGas.initial
           caller == IF tx.create THEN BumpNonce(journal, tx.caller) ELSE journal
           opened == IF tx.create THEN BumpNonce(caller, tx.to) ELSE caller
<1>1. /\ pc = "first_frame" /\ tx # NoTx /\ tx \in TxRecords /\ journal \in Worlds
      /\ tx.caller \in Accounts /\ tx.to \in Accounts /\ tx.value \in Nat
  BY Typed, TxFields DEF FirstFrame, IInv, GasLimitCovers
<1>2. caller \in Worlds
  BY <1>1, BumpNonceWorld
<1>3. opened \in Worlds
  BY <1>1, <1>2, BumpNonceWorld
<1>4. Move(opened, tx.caller, tx.to, tx.value) \in Worlds
  BY <1>1, <1>3, MoveWorld
<1>5. limit \in Nat
  BY <1>1, TxFields DEF IInv, TypeOK, GasLimitCovers
<1> HIDE DEF limit, caller, opened
<1>6. /\ UNCHANGED <<l1_block_info, result, mode, tx, block, cfg, runs, db, txStart, returned,
                     initGas, eip7702_refund, resultGas>>
      /\ pc' \in {"frame", "last_frame_result"}
      /\ gas' \in {[limit |-> limit, remaining |-> limit, refunded |-> 0],
                   [limit |-> limit, remaining |-> 0, refunded |-> 0]}
      /\ status' \in {status, "out_of_funds", "halt"}
      /\ journal' \in {journal, caller, Move(opened, tx.caller, tx.to, tx.value)}
      /\ checkpoint' \in {checkpoint, caller}
  BY DEF FirstFrame, limit, caller, opened, envVars
<1>7. TypeOK'
  BY <1>2, <1>4, <1>5, <1>6 DEF IInv, TypeOK, Phases, GasRecords
<1>8. GasLimitCovers' /\ FrameGas' /\ SettledGas'
  BY <1>1, <1>5, <1>6 DEF IInv, GasLimitCovers, FrameGas, SettledGas, SettlingPhases, limit
<1>9. NothingWritten' /\ SystemCallPhases' /\ FeeInputsFetched' /\ FeeInputsChecked'
  BY <1>1, <1>6 DEF IInv, NothingWritten, SystemCallPhases, FeeInputsFetched, FeeInputsChecked,
     ChargedPhases, OracleView, Fetched, Pays, L1CostOk, FeeInput
<1> QED BY <1>7, <1>8, <1>9 DEF IInv

\* A step of running code, whatever it does to the world.
LEMMA RunningStep ==
    ASSUME IInv, pc = "frame", NEW w \in Worlds, FrameStep(w)
    PROVE  IInv'
<1>1. /\ UNCHANGED <<pc, l1_block_info, result, mode, tx, block, cfg, runs, db, txStart, checkpoint,
                     returned, initGas, eip7702_refund, status, resultGas>>
      /\ journal' = w
      /\ gas' \in GasRecords /\ gas'.limit = gas.limit /\ gas'.refunded = gas.refunded
      /\ gas'.remaining <= gas.remaining
  BY DEF FrameStep, envVars, IInv, TypeOK, GasRecords
<1>2. TypeOK'
  BY <1>1 DEF IInv, TypeOK
<1>3. GasLimitCovers' /\ FrameGas' /\ SettledGas'
  BY <1>1 DEF IInv, TypeOK, GasRecords, GasLimitCovers, FrameGas, SettledGas, SettlingPhases
<1>4. NothingWritten' /\ SystemCallPhases' /\ FeeInputsFetched' /\ FeeInputsChecked'
  BY <1>1 DEF IInv, NothingWritten, SystemCallPhases, FeeInputsFetched, FeeInputsChecked,
     ChargedPhases, OracleView, Fetched, Pays, L1CostOk, FeeInput
<1> QED BY <1>2, <1>3, <1>4 DEF IInv

\* Running code sends only what an account has.
LEMMA SendValueStep ==
    ASSUME IInv, NEW a \in Accounts, NEW b \in Accounts, NEW v \in 1 .. journal.bal[a],
           SendValue(a, b, v)
    PROVE  IInv'
<1>1. v \in Nat
  BY Typed DEF Worlds
<1>2. Move(journal, a, b, v) \in Worlds
  BY <1>1, Typed, MoveWorld
<1> QED BY <1>2, RunningStep DEF SendValue

\* Running code may rewrite the oracle; the fee's inputs are not looked up again.
LEMMA StoreOracleStep ==
    ASSUME IInv, NEW v \in OracleValues, StoreOracle(v)
    PROVE  IInv'
<1>1. [journal EXCEPT !.slot = v] \in Worlds
  BY Typed, SlotWorld
<1> QED BY <1>1, RunningStep DEF StoreOracle

\* The first frame ends, with its changes or without them.
LEMMA EndFrameStep ==
    ASSUME IInv, EndFrame
    PROVE  IInv'
<1>1. /\ pc = "frame" /\ pc' = "last_frame_result" /\ tx \in TxRecords /\ tx.to \in Accounts
      /\ UNCHANGED <<l1_block_info, result, mode, tx, block, cfg, runs, db, txStart, checkpoint,
                     returned, initGas, eip7702_refund, resultGas>>
      /\ status' \in {"ok", "revert", "halt"}
  BY Typed, TxFields DEF EndFrame, envVars
<1>2. [journal EXCEPT !.code[tx.to] = "contract"] \in Worlds
  BY <1>1, Typed DEF Worlds, CodeKinds
<1>3. journal' \in Worlds
  BY <1>2, Typed DEF EndFrame
<1>4. PICK r \in 0 .. Spent(gas) : gas' = [gas EXCEPT !.refunded = r]
  BY DEF EndFrame
<1>5. /\ gas' \in GasRecords /\ gas'.limit = gas.limit
      /\ gas'.remaining + gas'.refunded <= gas'.limit
  <2>1. gas \in GasRecords /\ gas.remaining <= gas.limit
    BY <1>1 DEF IInv, TypeOK, FrameGas, GasRecords
  <2>2. r \in Nat /\ r <= gas.limit - gas.remaining
    BY <2>1 DEF Spent, GasRecords
  <2> QED BY <1>4, <2>1, <2>2 DEF GasRecords
<1>6. TypeOK'
  BY <1>1, <1>3, <1>5 DEF IInv, TypeOK, Phases
<1>7. GasLimitCovers' /\ FrameGas' /\ SettledGas'
  BY <1>1, <1>5 DEF IInv, GasLimitCovers, FrameGas, SettledGas, SettlingPhases
<1>8. NothingWritten' /\ SystemCallPhases' /\ FeeInputsFetched' /\ FeeInputsChecked'
  BY <1>1 DEF IInv, NothingWritten, SystemCallPhases, FeeInputsFetched, FeeInputsChecked,
     ChargedPhases, OracleView, Fetched, Pays, L1CostOk, FeeInput
<1> QED BY <1>6, <1>7, <1>8 DEF IInv

\* last_frame_result turns the gas of the frame into the gas of the transaction.
LEMMA LastFrameResultStep ==
    ASSUME IInv, LastFrameResult
    PROVE  IInv'
<1>1. /\ pc = "last_frame_result" /\ tx \in TxRecords /\ tx.gasLimit \in Nat
      /\ UNCHANGED <<l1_block_info, result, mode, tx, block, cfg, runs, db, journal, txStart,
                     checkpoint, returned, initGas, eip7702_refund, status>>
      /\ pc' = IF mode = "system_call" THEN "execution_result" ELSE "refund"
  BY Typed, TxFields DEF LastFrameResult, envVars, stateVars
<1>2. /\ gas \in GasRecords /\ gas.limit <= tx.gasLimit
      /\ gas.remaining + gas.refunded <= gas.limit
  <2>1. initGas.initial \in Nat /\ gas \in GasRecords
    BY DEF IInv, TypeOK
  <2>2. gas.limit <= tx.gasLimit - initGas.initial /\ gas.remaining + gas.refunded <= gas.limit
    BY <1>1 DEF IInv, FrameGas
  <2> QED BY <1>1, <2>1, <2>2 DEF GasRecords
<1>3. /\ gas' \in GasRecords /\ gas'.limit = tx.gasLimit
      /\ gas'.remaining + gas'.refunded <= gas'.limit
  BY <1>1, <1>2 DEF LastFrameResult, GasRecords
<1>4. resultGas' \in [spent : Nat, refunded : Nat, floor : Nat]
  <2>1. Spent(gas') \in Nat /\ gas'.refunded \in Nat
    BY <1>3 DEF Spent, GasRecords
  <2> QED BY <2>1 DEF LastFrameResult, IInv, TypeOK
<1>5. TypeOK'
  BY <1>1, <1>3, <1>4 DEF IInv, TypeOK, Phases
<1>6. GasLimitCovers' /\ FrameGas' /\ SettledGas'
  BY <1>1, <1>3 DEF IInv, GasLimitCovers, FrameGas, SettledGas, SettlingPhases
<1>7. NothingWritten' /\ SystemCallPhases' /\ FeeInputsFetched' /\ FeeInputsChecked'
  BY <1>1 DEF IInv, NothingWritten, SystemCallPhases, FeeInputsFetched, FeeInputsChecked,
     ChargedPhases, OracleView, Fetched, Pays, L1CostOk, FeeInput
<1> QED BY <1>5, <1>6, <1>7 DEF IInv

\* What the settling phases know about gas.
LEMMA Settling ==
    ASSUME IInv, pc \in SettlingPhases
    PROVE  /\ tx # NoTx /\ tx \in TxRecords /\ mode # "system_call"
           /\ gas \in GasRecords /\ gas.limit = tx.gasLimit
           /\ gas.limit \in Nat /\ gas.remaining \in Nat /\ gas.refunded \in Nat
           /\ gas.remaining + gas.refunded <= gas.limit
           /\ Spent(gas) \in Nat /\ Used(gas) \in Nat
           /\ initGas.floor \in Nat /\ initGas.floor <= gas.limit
<1>1. tx # NoTx /\ tx \in TxRecords /\ mode # "system_call" /\ tx.gasLimit \in Nat
  BY Typed, TxFields DEF IInv, GasLimitCovers, SystemCallPhases, SettlingPhases
<1>2. /\ gas \in GasRecords /\ gas.limit = tx.gasLimit
      /\ gas.remaining + gas.refunded <= gas.limit
  BY DEF IInv, TypeOK, SettledGas
<1>3. gas.limit \in Nat /\ gas.remaining \in Nat /\ gas.refunded \in Nat
  BY <1>2 DEF GasRecords
<1>4. Spent(gas) \in Nat /\ Used(gas) \in Nat
  BY <1>2, <1>3 DEF Spent, Used
<1>5. initGas.floor \in Nat /\ initGas.floor <= gas.limit
  BY <1>1, <1>2 DEF IInv, TypeOK, GasLimitCovers
<1> QED BY <1>1, <1>2, <1>3, <1>4, <1>5

\* The cap on the refund keeps it below what was spent.
LEMMA RefundStep ==
    ASSUME IInv, Refund
    PROVE  IInv'
<1>1. /\ pc = "refund" /\ pc' = "eip7623_check_gas_floor" /\ pc \in SettlingPhases
      /\ UNCHANGED <<l1_block_info, result, mode, tx, block, cfg, runs, db, journal, txStart,
                     checkpoint, returned, initGas, eip7702_refund, status>>
  BY DEF Refund, envVars, stateVars, SettlingPhases
<1>2. CappedRefund(gas) \in Nat /\ CappedRefund(gas) <= Spent(gas)
  <2>1. gas.refunded + eip7702_refund \in Nat /\ Spent(gas) \in Nat
    BY <1>1, Settling DEF IInv, TypeOK
  <2>2. Spent(gas) \div 5 \in Nat /\ Spent(gas) \div 5 <= Spent(gas)
    BY <2>1
  <2> QED BY <2>1, <2>2 DEF CappedRefund, Lesser
<1>3. /\ gas' \in GasRecords /\ gas'.limit = tx.gasLimit
      /\ gas'.remaining + gas'.refunded <= gas'.limit
  BY <1>1, <1>2, Settling DEF Refund, GasRecords, Spent
<1>4. resultGas' \in [spent : Nat, refunded : Nat, floor : Nat]
  <2>1. Spent(gas') \in Nat /\ gas'.refunded \in Nat /\ initGas.floor \in Nat
    BY <1>1, <1>3, Settling DEF Spent, GasRecords
  <2> QED BY <2>1 DEF Refund
<1>5. TypeOK'
  BY <1>1, <1>3, <1>4 DEF IInv, TypeOK, Phases
<1>6. GasLimitCovers' /\ FrameGas' /\ SettledGas'
  BY <1>1, <1>3 DEF IInv, GasLimitCovers, FrameGas, SettledGas, SettlingPhases
<1>7. NothingWritten' /\ SystemCallPhases' /\ FeeInputsFetched' /\ FeeInputsChecked'
  BY <1>1, Settling DEF IInv, NothingWritten, SystemCallPhases, FeeInputsFetched, FeeInputsChecked,
     ChargedPhases, OracleView, Fetched, Pays, L1CostOk, FeeInput
<1> QED BY <1>5, <1>6, <1>7 DEF IInv

\* The floor can be spent because the gas limit covers it.
LEMMA FloorStep ==
    ASSUME IInv, Eip7623CheckGasFloor
    PROVE  IInv'
<1>1. /\ pc = "eip7623_check_gas_floor" /\ pc' = "reimburse_caller" /\ pc \in SettlingPhases
      /\ UNCHANGED <<l1_block_info, result, mode, tx, block, cfg, runs, db, journal, txStart,
                     checkpoint, returned, initGas, eip7702_refund, status, resultGas>>
      /\ gas' \in {gas, Floored(gas)}
  BY DEF Eip7623CheckGasFloor, envVars, stateVars, SettlingPhases
<1>2. /\ Floored(gas) \in GasRecords /\ Floored(gas).limit = tx.gasLimit
      /\ Floored(gas).remaining + Floored(gas).refunded <= Floored(gas).limit
  <2>1. CASE Used(gas) < initGas.floor
    <3>1. Floored(gas) = [limit |-> gas.limit, remaining |-> gas.limit - initGas.floor,
                          refunded |-> 0]
      BY <1>1, <2>1, Settling DEF Floored, GasRecords
    <3>2. gas.limit - initGas.floor \in Nat /\ gas.limit - initGas.floor <= gas.limit
      BY <1>1, Settling
    <3> QED BY <1>1, <3>1, <3>2, Settling DEF GasRecords
  <2>2. CASE ~(Used(gas) < initGas.floor)
    BY <1>1, <2>2, Settling DEF Floored
  <2> QED BY <2>1, <2>2
<1>3. /\ gas' \in GasRecords /\ gas'.limit = tx.gasLimit
      /\ gas'.remaining + gas'.refunded <= gas'.limit
  BY <1>1, <1>2, Settling
<1>4. TypeOK'
  BY <1>1, <1>3 DEF IInv, TypeOK, Phases
<1>5. GasLimitCovers' /\ FrameGas' /\ SettledGas'
  BY <1>1, <1>3 DEF IInv, GasLimitCovers, FrameGas, SettledGas, SettlingPhases
<1>6. NothingWritten' /\ SystemCallPhases' /\ FeeInputsFetched' /\ FeeInputsChecked'
  BY <1>1, Settling DEF IInv, NothingWritten, SystemCallPhases, FeeInputsFetched, FeeInputsChecked,
     ChargedPhases, OracleView, Fetched, Pays, L1CostOk, FeeInput
<1> QED BY <1>4, <1>5, <1>6 DEF IInv

\* Reimbursement pays back gas that is left, which is a natural.
LEMMA ReimburseStep ==
    ASSUME IInv, ReimburseCaller
    PROVE  IInv'
<1>1. /\ pc = "reimburse_caller" /\ pc' = "reward_beneficiary" /\ pc \in SettlingPhases
      /\ UNCHANGED <<l1_block_info, result, mode, tx, block, cfg, runs, db, txStart, checkpoint,
                     returned, initGas, eip7702_refund, gas, status, resultGas>>
  BY DEF ReimburseCaller, envVars, gasVars, SettlingPhases
<1>2. journal' \in Worlds
  <2>1. gas.remaining + gas.refunded \in Nat
    BY <1>1, Settling
  <2>2. Price * (gas.remaining + gas.refunded) \in Nat
    BY <1>1, <2>1, Settling, Amounts, ProductIsNat
  <2> QED BY <1>1, <2>2, Settling, Amounts, CreditWorld, Typed DEF ReimburseCaller
<1>3. TypeOK'
  BY <1>1, <1>2 DEF IInv, TypeOK, Phases
<1>4. GasLimitCovers' /\ FrameGas' /\ SettledGas'
  BY <1>1 DEF IInv, GasLimitCovers, FrameGas, SettledGas, SettlingPhases
<1>5. NothingWritten' /\ SystemCallPhases' /\ FeeInputsFetched' /\ FeeInputsChecked'
  BY <1>1, Settling DEF IInv, NothingWritten, SystemCallPhases, FeeInputsFetched, FeeInputsChecked,
     ChargedPhases, OracleView, Fetched, Pays, L1CostOk, FeeInput
<1> QED BY <1>3, <1>4, <1>5 DEF IInv

\* The reward finds the fee's inputs.
LEMMA RewardStep ==
    ASSUME IInv, RewardBeneficiary
    PROVE  IInv'
<1>1. /\ pc = "reward_beneficiary" /\ pc' \in {"execution_result", "catch_error"}
      /\ pc \in SettlingPhases
      /\ UNCHANGED <<l1_block_info, mode, tx, block, cfg, runs, db, txStart, checkpoint,
                     returned, initGas, eip7702_refund, gas, status, resultGas>>
      /\ result' = result \/ result'.used = 0
      /\ journal' \in {journal, Credit(journal, block.beneficiary, Reward(gas))}
  BY DEF RewardBeneficiary, Reject, envVars, gasVars, SettlingPhases
<1>2. Reward(gas) \in Nat
  <2>1. Price * Used(gas) \in Nat
    BY <1>1, Settling, Amounts, ProductIsNat
  <2> QED BY <1>1, <2>1, Settling, Amounts DEF Reward
<1>3. journal' \in Worlds
  <2>1. Credit(journal, block.beneficiary, Reward(gas)) \in Worlds
    BY <1>2, Typed, CreditWorld
  <2> QED BY <1>1, <2>1, Typed
<1>4. TypeOK'
  BY <1>1, <1>3 DEF IInv, TypeOK, Phases
<1>5. GasLimitCovers' /\ FrameGas' /\ SettledGas'
  BY <1>1, Settling DEF IInv, GasLimitCovers, FrameGas, SettledGas, SettlingPhases
<1>6. NothingWritten' /\ SystemCallPhases' /\ FeeInputsFetched' /\ FeeInputsChecked'
  BY <1>1, Settling DEF IInv, NothingWritten, SystemCallPhases, FeeInputsFetched, FeeInputsChecked,
     ChargedPhases, OracleView, Fetched, Pays, L1CostOk, FeeInput
<1> QED BY <1>4, <1>5, <1>6 DEF IInv

\* The receipt is written and the run is over.
LEMMA ExecutionResultStep ==
    ASSUME IInv, ExecutionResult
    PROVE  IInv'
<1> DEFINE reported == IF IsL1Msg(tx) THEN [resultGas EXCEPT !.floor = 0] ELSE resultGas
<1>1. /\ pc = "execution_result" /\ pc' = "idle"
      /\ UNCHANGED <<l1_block_info, mode, tx, block, cfg, runs, db, txStart, checkpoint, initGas,
                     eip7702_refund, gas, status>>
      /\ resultGas' = reported /\ result'.used = GasUsed(reported)
      /\ journal' \in {journal, EmptyJournal} /\ returned' \in {returned, journal}
  BY DEF ExecutionResult, envVars
<1>2. reported \in [spent : Nat, refunded : Nat, floor : Nat]
  BY DEF IInv, TypeOK
<1>3. GasUsed(reported) \in Nat
  BY <1>2 DEF GasUsed, Greater
<1>4. EmptyJournal \in Worlds
  BY SlotWorld, Typed DEF EmptyJournal
<1> HIDE DEF reported
<1>5. TypeOK'
  BY <1>1, <1>2, <1>3, <1>4 DEF IInv, TypeOK, Phases
<1>6. GasLimitCovers' /\ FrameGas' /\ SettledGas'
  BY <1>1 DEF IInv, GasLimitCovers, FrameGas, SettledGas, SettlingPhases
<1>7. NothingWritten' /\ SystemCallPhases' /\ FeeInputsFetched' /\ FeeInputsChecked'
  BY <1>1 DEF IInv, NothingWritten, SystemCallPhases, FeeInputsFetched, FeeInputsChecked,
     ChargedPhases
<1> QED BY <1>5, <1>6, <1>7 DEF IInv

\* An error stops the run where it is, and discard_tx takes the journal back.
LEMMA ErrorStep ==
    ASSUME IInv, DatabaseError \/ CatchError
    PROVE  IInv'
<1>1. /\ pc # "idle" /\ pc' \in {"idle", "catch_error"}
      /\ UNCHANGED <<l1_block_info, mode, tx, block, cfg, runs, db, txStart, checkpoint,
                     returned, initGas, eip7702_refund, gas, status, resultGas>>
      /\ journal' \in {journal, txStart}
      /\ result' = result \/ result'.used = 0
  BY DEF DatabaseError, CatchError, Reject, envVars, gasVars
<1>2. TypeOK'
  BY <1>1 DEF IInv, TypeOK, Phases
<1>3. GasLimitCovers' /\ FrameGas' /\ SettledGas'
  BY <1>1 DEF IInv, GasLimitCovers, FrameGas, SettledGas, SettlingPhases
<1>4. NothingWritten' /\ SystemCallPhases' /\ FeeInputsFetched' /\ FeeInputsChecked'
  BY <1>1 DEF IInv, NothingWritten, SystemCallPhases, FeeInputsFetched, FeeInputsChecked,
     ChargedPhases
<1> QED BY <1>2, <1>3, <1>4 DEF IInv

\* Every step preserves the invariant.
LEMMA NextIInv ==
    ASSUME IInv, [Next]_vars
    PROVE  IInv'
<1>1. ASSUME NEW t \in Txs, TransactOne(t) PROVE IInv'
  BY <1>1, StartStep DEF TransactOne
<1>2. ASSUME Replay PROVE IInv'
  BY <1>2, StartStep DEF Replay, IInv, TypeOK
<1>3. ASSUME NEW t \in SystemCalls, SystemCall(t) PROVE IInv'
  BY <1>3, StartStep DEF SystemCall
<1>4. ASSUME UNCHANGED vars PROVE IInv'
  <2>1. TypeOK'
    BY <1>4 DEF vars, envVars, stateVars, gasVars, IInv, TypeOK
  <2>2. GasLimitCovers' /\ FrameGas' /\ SettledGas'
    BY <1>4 DEF vars, envVars, stateVars, gasVars, IInv, GasLimitCovers, FrameGas, SettledGas
  <2>3. NothingWritten' /\ SystemCallPhases' /\ FeeInputsFetched' /\ FeeInputsChecked'
    BY <1>4 DEF vars, envVars, stateVars, gasVars, IInv, NothingWritten, SystemCallPhases,
       FeeInputsFetched, FeeInputsChecked, OracleView, Fetched, Pays, L1CostOk, FeeInput
  <2> QED BY <2>1, <2>2, <2>3 DEF IInv
<1>5. ASSUME Interface PROVE IInv'
  BY <1>1, <1>2, <1>3, <1>5, IdleStep DEF Interface
<1>6. ASSUME Frame PROVE IInv'
  BY <1>6, FirstFrameStep, SendValueStep, StoreOracleStep, EndFrameStep DEF Frame
<1>7. ASSUME Run PROVE IInv'
  BY <1>6, <1>7, ValidateStep, PreExecutionStep, DeductStep, LoadAccountsStep,
     LastFrameResultStep, RefundStep, FloorStep, ReimburseStep, RewardStep,
     ExecutionResultStep, ErrorStep DEF Run
<1> QED BY <1>4, <1>5, <1>7 DEF Next

-----------------------------------------------------------------------------
(* What follows from the first invariant *)

\* The inductive invariant holds of every behaviour of the handler.
THEOREM Invariant == Spec => []IInv
BY InitIInv, NextIInv, PTL DEF Spec

\* Type correctness: no balance, nonce or gas amount of the handler ever goes below zero, so
\* none of the unsigned subtractions of last_frame_result, refund, the EIP-7623 floor and the
\* receipt can wrap.
THEOREM TypeCorrect == Spec => []TypeOK
<1>1. IInv => TypeOK
  BY DEF IInv
<1> QED BY <1>1, Invariant, PTL

\* pre_execution refreshes the L1BlockInfo of every fee-charged transaction from the oracle
\* as of the start of that transaction, and nothing changes it before the fee is rewarded.
THEOREM FeeInputsAreFresh == Spec => []FeeFromOracleAtStart
<1>1. IInv => FeeFromOracleAtStart
  BY DEF IInv, FeeInputsFetched, FeeFromOracleAtStart
<1> QED BY <1>1, Invariant, PTL

\* The second computation of the L1 fee, in reward_beneficiary, finds the inputs that
\* validate_against_state_and_deduct_caller found, before TsukiV2 and from it on.
THEOREM RewardHasFeeInputs == Spec => []RewardCannotFail
<1>1. IInv => RewardCannotFail
  BY Settling DEF IInv, FeeInputsChecked, RewardCannotFail, Pays, SettlingPhases, IsFeeCharged
<1> QED BY <1>1, Invariant, PTL

-----------------------------------------------------------------------------
(* The charge *)

\* What the deduction does: the branch that the kind of the transaction and the fork select.
Deduction ==
    IF IsL1Msg(tx) THEN AdmitL1Message(journal)
    ELSE IF IsEnabledIn(cfg.spec, TSUKI_V2) THEN ChargeFromTsukiV2(journal)
    ELSE ChargeBeforeTsukiV2(journal)

\* What the caller of a transaction is charged up front.
UpFront == IF IsL1Msg(tx) THEN 0 ELSE Price * tx.gasLimit + L1Fee

\* A product grows with its factors: the price that is taken is not above the one checked for.
LEMMA ProductGrows ==
    ASSUME NEW x \in Nat, NEW y \in Nat, NEW n \in Nat, x <= y
    PROVE  x * n <= n * y
<1>1. PICK d \in Nat : y = x + d
  <2>1. y - x \in Nat /\ y = x + (y - x)
    OBVIOUS
  <2> QED BY <2>1
<1>2. n * y = x * n + d * n
  BY <1>1
<1>3. d * n \in Nat /\ x * n \in Nat
  BY <1>1, ProductIsNat
<1> QED BY <1>2, <1>3

\* Two deductions from one account are one of their sum.
LEMMA TakenTwice ==
    ASSUME NEW f \in [Accounts -> Nat], NEW a \in Accounts, NEW x \in Nat, NEW y \in Nat,
           x + y <= f[a]
    PROVE  [[f EXCEPT ![a] = @ - x] EXCEPT ![a] = @ - y] = [f EXCEPT ![a] = @ - (x + y)]
<1> DEFINE g == [f EXCEPT ![a] = @ - x]
           h == [g EXCEPT ![a] = @ - y]
           k == [f EXCEPT ![a] = @ - (x + y)]
<1>1. f[a] \in Nat /\ f[a] - x - y = f[a] - (x + y)
  OBVIOUS
<1>2. h = [b \in Accounts |-> IF b = a THEN f[a] - x - y ELSE f[b]]
  OBVIOUS
<1>3. k = [b \in Accounts |-> IF b = a THEN f[a] - (x + y) ELSE f[b]]
  OBVIOUS
<1> QED BY <1>1, <1>2, <1>3

\* A deduction that the balance covers, and the nonce bump of a call.
LEMMA TakenWorld ==
    ASSUME NEW w \in Worlds, NEW a \in Accounts, NEW v \in Nat, v <= w.bal[a]
    PROVE  /\ DecrBalance(w, a, v) \in Worlds
           /\ DecrBalance(w, a, v).bal = [w.bal EXCEPT ![a] = @ - v]
           /\ DecrBalance(w, a, v).bal[a] = w.bal[a] - v
           /\ DecrBalance(w, a, v).nonce = w.nonce
BY DecrBalanceWorld DEF Worlds

\* The nonce bump of a call: a CREATE's nonce is left to its frame.
LEMMA BumpCallNonceWorld ==
    ASSUME NEW w \in Worlds, tx.caller \in Accounts
    PROVE  /\ BumpCallNonce(w) \in Worlds
           /\ BumpCallNonce(w).bal = w.bal
           /\ BumpCallNonce(w).nonce[tx.caller] = w.nonce[tx.caller] + (IF tx.create THEN 0 ELSE 1)
<1>1. w.nonce \in [Accounts -> Nat]
  BY DEF Worlds
<1>2. CASE tx.create
  BY <1>1, <1>2 DEF BumpCallNonce
<1>3. CASE ~tx.create
  <2>1. BumpCallNonce(w) = BumpNonce(w, tx.caller)
    BY <1>3 DEF BumpCallNonce
  <2>2. /\ BumpNonce(w, tx.caller) \in Worlds /\ BumpNonce(w, tx.caller).bal = w.bal
        /\ BumpNonce(w, tx.caller).nonce = [w.nonce EXCEPT ![tx.caller] = @ + 1]
    BY BumpNonceWorld
  <2>3. [w.nonce EXCEPT ![tx.caller] = @ + 1][tx.caller] = w.nonce[tx.caller] + 1
    BY <1>1
  <2> QED BY <1>3, <2>1, <2>2, <2>3
<1> QED BY <1>2, <1>3

\* The mainnet deduction, when it passes: the gas at its price is there, and is taken.
LEMMA MainnetTakes ==
    ASSUME IInv, tx # NoTx, NEW w \in Worlds, MainnetDeduct(w).error = Ok
    PROVE  LET m == MainnetDeduct(w).world
           IN  /\ m \in Worlds
               /\ tx.gasLimit * tx.maxFee + tx.value <= w.bal[tx.caller]
               /\ Price * tx.gasLimit <= tx.gasLimit * tx.maxFee
               /\ m.bal = [w.bal EXCEPT ![tx.caller] = @ - Price * tx.gasLimit]
               /\ m.bal[tx.caller] = w.bal[tx.caller] - Price * tx.gasLimit
               /\ m.nonce[tx.caller] = w.nonce[tx.caller] + (IF tx.create THEN 0 ELSE 1)
               /\ w.nonce[tx.caller] = tx.nonce
<1> DEFINE gasCost == Price * tx.gasLimit
           max     == tx.gasLimit * tx.maxFee
           d       == DecrBalance(w, tx.caller, gasCost)
<1>1. /\ tx.caller \in Accounts /\ tx.value \in Nat /\ tx.gasLimit \in Nat /\ tx.maxFee \in Nat
      /\ Price \in Nat /\ Price <= tx.maxFee
  BY Amounts, TxFields
<1>2. gasCost \in Nat /\ max \in Nat /\ gasCost <= max
  BY <1>1, ProductGrows, ProductIsNat
<1>3. /\ w.nonce[tx.caller] = tx.nonce /\ ~(max + tx.value > w.bal[tx.caller])
      /\ MainnetDeduct(w).world = BumpCallNonce(d)
  BY MainnetDeductResult DEF MaxBalanceSpending
<1>4. w.bal[tx.caller] \in Nat
  BY <1>1 DEF Worlds
<1> HIDE DEF gasCost, max, d
<1>5. max + tx.value <= w.bal[tx.caller] /\ gasCost <= w.bal[tx.caller]
  BY <1>1, <1>2, <1>3, <1>4
<1>6. /\ d \in Worlds /\ d.bal = [w.bal EXCEPT ![tx.caller] = @ - gasCost]
      /\ d.bal[tx.caller] = w.bal[tx.caller] - gasCost /\ d.nonce = w.nonce
  BY <1>1, <1>2, <1>5, TakenWorld DEF d
<1>7. /\ BumpCallNonce(d) \in Worlds /\ BumpCallNonce(d).bal = d.bal
      /\ BumpCallNonce(d).nonce[tx.caller] = d.nonce[tx.caller] + (IF tx.create THEN 0 ELSE 1)
  BY <1>1, <1>6, BumpCallNonceWorld
<1> QED BY <1>2, <1>3, <1>5, <1>6, <1>7 DEF gasCost, max

\* What an admitted transaction has been charged is what it is charged up front, all of it taken;
\* it has room for its value where that was checked, and the nonce of a call is used up.
LEMMA DeductionTakes ==
    ASSUME IInv, tx # NoTx, Deduction.error = Ok
    PROVE  /\ UpFront \in Nat /\ UpFront <= journal.bal[tx.caller]
           /\ Deduction.world \in Worlds
           /\ Deduction.world.bal = [journal.bal EXCEPT ![tx.caller] = @ - UpFront]
           /\ Deduction.world.nonce[tx.caller]
                = journal.nonce[tx.caller] + (IF tx.create THEN 0 ELSE 1)
           /\ ~IsL1Msg(tx) => journal.nonce[tx.caller] = tx.nonce
           /\ (IF IsL1Msg(tx) THEN ~IsEnabledIn(cfg.spec, EUCLID) ELSE IsEnabledIn(cfg.spec, TSUKI_V2))
                 => tx.value <= Deduction.world.bal[tx.caller]
<1> DEFINE a       == tx.caller
           gasCost == Price * tx.gasLimit
           max     == tx.gasLimit * tx.maxFee
           m       == MainnetDeduct(journal)
           d       == DecrBalance(m.world, a, L1Cost)
<1>1. /\ a \in Accounts /\ tx.value \in Nat /\ journal \in Worlds /\ journal.bal[a] \in Nat
      /\ journal.bal \in [Accounts -> Nat] /\ gasCost \in Nat /\ L1Cost \in Nat /\ max \in Nat
  BY Amounts, TxFields, Typed, ProductIsNat DEF Worlds
<1>2. CASE IsL1Msg(tx)
  <2>1. L1MessageChecks(journal) = Ok /\ Deduction.world = BumpCallNonce(journal)
    BY <1>2 DEF Deduction, AdmitL1Message, Fail, Pass
  <2>2. /\ BumpCallNonce(journal) \in Worlds /\ BumpCallNonce(journal).bal = journal.bal
        /\ BumpCallNonce(journal).nonce[a] = journal.nonce[a] + (IF tx.create THEN 0 ELSE 1)
    BY <1>1, BumpCallNonceWorld
  <2>3. ASSUME ~IsEnabledIn(cfg.spec, EUCLID) PROVE tx.value <= journal.bal[a]
    <3>1. ~(max + tx.value > journal.bal[a])
      BY <2>1, <2>3, L1MessageChecksResult DEF MaxBalanceSpending
    <3> HIDE DEF max
    <3> QED BY <1>1, <3>1
  <2>4. [journal.bal EXCEPT ![a] = @ - 0] = journal.bal
    BY <1>1
  <2> QED BY <1>1, <1>2, <2>1, <2>2, <2>3, <2>4 DEF UpFront
<1>3. CASE ~IsL1Msg(tx)
  <2> SUFFICES /\ m.error = Ok
               /\ IF IsFeeCharged(tx) THEN Deduction.world = d /\ L1Cost <= m.world.bal[a]
                                      ELSE Deduction.world = m.world
               /\ IsEnabledIn(cfg.spec, TSUKI_V2) /\ IsFeeCharged(tx)
                     => max + tx.value + L1Cost <= journal.bal[a]
    <3>1. /\ m.world \in Worlds /\ max + tx.value <= journal.bal[a] /\ gasCost <= max
          /\ m.world.bal = [journal.bal EXCEPT ![a] = @ - gasCost]
          /\ m.world.bal[a] = journal.bal[a] - gasCost
          /\ m.world.nonce[a] = journal.nonce[a] + (IF tx.create THEN 0 ELSE 1)
          /\ journal.nonce[a] = tx.nonce
      BY <1>1, MainnetTakes
    <3> HIDE DEF m, gasCost, max
    <3>2. CASE ~IsFeeCharged(tx)
      <4>1. UpFront = gasCost
        BY <1>1, <1>3, <3>2 DEF UpFront, L1Fee, gasCost
      <4> QED BY <1>1, <1>3, <3>1, <3>2, <4>1
    <3>3. CASE IsFeeCharged(tx)
      <4>1. UpFront = gasCost + L1Cost
        BY <1>1, <1>3, <3>3 DEF UpFront, L1Fee, gasCost
      <4>2. /\ d \in Worlds /\ d.bal = [m.world.bal EXCEPT ![a] = @ - L1Cost]
            /\ d.bal[a] = m.world.bal[a] - L1Cost /\ d.nonce = m.world.nonce
        <5>1. m.world \in Worlds /\ a \in Accounts /\ L1Cost \in Nat /\ L1Cost <= m.world.bal[a]
          BY <1>1, <3>1, <3>3
        <5> HIDE DEF a
        <5> QED BY <5>1, TakenWorld
      <4>3. gasCost + L1Cost <= journal.bal[a]
        BY <1>1, <3>1, <3>3
      <4>4. d.bal = [journal.bal EXCEPT ![a] = @ - (gasCost + L1Cost)]
        BY <1>1, <3>1, <4>2, <4>3, TakenTwice
      <4>5. IsEnabledIn(cfg.spec, TSUKI_V2) => tx.value <= d.bal[a]
        BY <1>1, <3>1, <3>3, <4>2
      <4> HIDE DEF d
      <4> QED BY <1>1, <1>3, <3>1, <3>3, <4>1, <4>2, <4>3, <4>4, <4>5
    <3> QED BY <3>2, <3>3
  <2>1. CASE IsEnabledIn(cfg.spec, TSUKI_V2)
    <3>1. Deduction = ChargeFromTsukiV2(journal)
      BY <1>3, <2>1 DEF Deduction
    <3> HIDE DEF m
    <3>2. m.error = Ok /\ (IsFeeCharged(tx) => CombinedChecks(journal) = Ok)
      BY <3>1 DEF ChargeFromTsukiV2, Fail, Pass, m
    <3>3. IF IsFeeCharged(tx) THEN Deduction.world = d ELSE Deduction.world = m.world
      BY <3>1, <3>2 DEF ChargeFromTsukiV2, Fail, Pass, m
    <3>4. ASSUME IsFeeCharged(tx)
          PROVE  max + tx.value + L1Cost <= journal.bal[a]
      <4>1. ~(max + tx.value + L1Cost > journal.bal[a])
        BY <3>2, <3>4, CombinedChecksResult DEF MaxBalanceSpending
      <4> HIDE DEF max
      <4> QED BY <1>1, <4>1
    <3>5. ASSUME IsFeeCharged(tx) PROVE L1Cost <= m.world.bal[a]
      <4>1. gasCost <= max /\ m.world.bal[a] = journal.bal[a] - gasCost
        BY <1>1, <3>2, MainnetTakes DEF m
      <4> HIDE DEF max, gasCost
      <4> QED BY <1>1, <3>4, <3>5, <4>1
    <3> QED BY <2>1, <3>2, <3>3, <3>4, <3>5
  <2>2. CASE ~IsEnabledIn(cfg.spec, TSUKI_V2)
    <3>1. Deduction = ChargeBeforeTsukiV2(journal)
      BY <1>3, <2>2 DEF Deduction
    <3> HIDE DEF m
    <3>2. m.error = Ok /\ (IsFeeCharged(tx) => L1FeeChecks(m.world) = Ok)
      BY <3>1 DEF ChargeBeforeTsukiV2, Fail, Pass, m
    <3>3. IF IsFeeCharged(tx) THEN Deduction.world = d ELSE Deduction.world = m.world
      BY <3>1, <3>2 DEF ChargeBeforeTsukiV2, Fail, Pass, m
    <3>4. ASSUME IsFeeCharged(tx) PROVE L1Cost <= m.world.bal[a]
      <4>1. ~(L1Cost > m.world.bal[a])
        BY <3>2, <3>4, L1FeeChecksResult
      <4>2. m.world.bal[a] \in Nat
        <5>1. m.world.bal[a] = journal.bal[a] - gasCost /\ gasCost <= max
              /\ max + tx.value <= journal.bal[a]
          BY <1>1, <3>2, MainnetTakes DEF m
        <5> HIDE DEF max, gasCost
        <5> QED BY <1>1, <5>1
      <4> QED BY <1>1, <4>1, <4>2
    <3> QED BY <2>2, <3>2, <3>3, <3>4
  <2> QED BY <2>1, <2>2
<1> QED BY <1>2, <1>3

-----------------------------------------------------------------------------
(* Admission *)

\* A run that ends in catch_error got there by one of the handler's errors, never by a status
\* that an execution can end with.
RejectedForAReason == pc = "catch_error" => result.status \in Errors \cup {"DatabaseError"}

AdmissionInv == RejectedForAReason /\ AdmittedCanPayValue /\ L1MessagesAreNotTurnedAway

\* Steps that neither admit nor reject a transaction.
LEMMA StepsApartFromAdmission ==
    ASSUME IInv,
           \/ \E b \in Blocks : SetBlock(b)
           \/ \E c \in Cfgs : SetCfg(c)
           \/ Finalize \/ Commit \/ PreExecution \/ Frame \/ LastFrameResult \/ Refund
           \/ Eip7623CheckGasFloor \/ ReimburseCaller \/ ExecutionResult \/ CatchError
    PROVE  AdmissionInv'
<1>1. pc' \notin {"catch_error", "load_accounts", "first_frame"}
  BY DEF SetBlock, SetCfg, Finalize, Commit, PreExecution, Frame, FirstFrame, SendValue,
     StoreOracle, FrameStep, EndFrame, LastFrameResult, Refund, Eip7623CheckGasFloor,
     ReimburseCaller, ExecutionResult, CatchError
<1> QED BY <1>1 DEF AdmissionInv, RejectedForAReason, AdmittedCanPayValue,
            L1MessagesAreNotTurnedAway

\* A run starts unrejected; only a system call starts at its frame.
LEMMA StartAdmission ==
    ASSUME NEW m, NEW t, NEW first, Start(m, t, first),
           first = "validate" \/ (m = "system_call" /\ first = "first_frame")
    PROVE  AdmissionInv'
BY DEF Start, AdmissionInv, RejectedForAReason, AdmittedCanPayValue, L1MessagesAreNotTurnedAway

\* validate_env and validate_initial_tx_gas ask an L1 message for nothing but its gas limits,
\* its chain and the size of its initcode.
LEMMA ValidateAdmission ==
    ASSUME IInv, Validate
    PROVE  AdmissionInv'
<1> DEFINE env == ValidateEnv(cfg, block, tx)
           ini == ValidateInitialTxGas(cfg, tx)
           GasErrors == {"CallGasCostMoreThanGasLimit", "GasFloorMoreThanGasLimit"}
<1>1. tx.type \in TxTypes
  BY Typed, TxFields DEF Validate
<1>2. /\ env \in {Ok} \cup EnvErrors /\ (IsL1Msg(tx) => env \in {Ok} \cup MessageErrors)
      /\ ini.error \in {Ok} \cup GasErrors
  BY <1>1, ValidateEnvErrors, InitialTxGasErrors
<1> HIDE DEF env, ini
<1>3. /\ tx' = tx /\ cfg' = cfg /\ pc' \in {"catch_error", "pre_execution"}
      /\ pc' = "catch_error" =>
            \/ env # Ok /\ result'.status = env
            \/ env = Ok /\ ini.error # Ok /\ result'.status = ini.error
  BY DEF Validate, Reject, envVars, env, ini
<1>4. pc' = "catch_error" =>
        /\ result'.status \in EnvErrors \cup GasErrors
        /\ IsL1Msg(tx) => result'.status \in MessageErrors \cup GasErrors
  BY <1>2, <1>3
<1>5. RejectedForAReason'
  BY <1>4 DEF RejectedForAReason, EnvErrors, MessageErrors, TypeErrors, PriceErrors, Errors
<1>6. L1MessagesAreNotTurnedAway'
  BY <1>3, <1>4 DEF L1MessagesAreNotTurnedAway, MessageErrors
<1>7. AdmittedCanPayValue'
  BY <1>3 DEF AdmittedCanPayValue
<1> QED BY <1>5, <1>6, <1>7 DEF AdmissionInv

\* The deduction leaves an admitted transaction its value, and turns an L1 message away from
\* Euclid on only for the code of its caller.
LEMMA DeductAdmission ==
    ASSUME IInv, ValidateAgainstStateAndDeductCaller
    PROVE  AdmissionInv'
<1>1. /\ pc = "deduct_caller" /\ tx # NoTx
      /\ tx' = tx /\ cfg' = cfg /\ pc' \in {"catch_error", "load_accounts"}
      /\ pc' = "catch_error" => Deduction.error # Ok /\ result'.status = Deduction.error
      /\ pc' = "load_accounts" => Deduction.error = Ok /\ journal' = Deduction.world
  BY DEF ValidateAgainstStateAndDeductCaller, Deduction, Reject, envVars, IInv, GasLimitCovers
<1>2. Deduction.error \in {Ok} \cup Errors
  <2>1. CASE IsL1Msg(tx)
    BY <2>1, L1MessageChecksResult DEF Deduction, AdmitL1Message, Fail, Pass
  <2>2. CASE ~IsL1Msg(tx) /\ IsEnabledIn(cfg.spec, TSUKI_V2)
    <3> DEFINE m == MainnetDeduct(journal)
    <3>1. m.error \in {Ok} \cup Errors /\ CombinedChecks(journal) \in {Ok} \cup Errors
      BY MainnetDeductResult, CombinedChecksResult
    <3> HIDE DEF m
    <3> QED BY <2>2, <3>1 DEF Deduction, ChargeFromTsukiV2, Fail, Pass, m
  <2>3. CASE ~IsL1Msg(tx) /\ ~IsEnabledIn(cfg.spec, TSUKI_V2)
    <3> DEFINE m == MainnetDeduct(journal)
    <3>1. m.error \in {Ok} \cup Errors /\ L1FeeChecks(m.world) \in {Ok} \cup Errors
      BY MainnetDeductResult, L1FeeChecksResult
    <3> HIDE DEF m
    <3> QED BY <2>3, <3>1 DEF Deduction, ChargeBeforeTsukiV2, Fail, Pass, m
  <2> QED BY <2>1, <2>2, <2>3
<1>3. IsL1Msg(tx) /\ IsEnabledIn(cfg.spec, EUCLID) => Deduction.error \in {Ok, "RejectCallerWithCode"}
  BY L1MessageChecksResult DEF Deduction, AdmitL1Message, Fail, Pass
<1>4. RejectedForAReason'
  BY <1>1, <1>2 DEF RejectedForAReason
<1>5. L1MessagesAreNotTurnedAway'
  BY <1>1, <1>3 DEF L1MessagesAreNotTurnedAway
<1>6. AdmittedCanPayValue'
  BY <1>1, DeductionTakes DEF AdmittedCanPayValue
<1> QED BY <1>4, <1>5, <1>6 DEF AdmissionInv

\* Authorizations move no money and never take a nonce back.
LEMMA AuthorizationsChange ==
    ASSUME IInv, LoadAccountsAndApplyAuths
    PROVE  /\ journal'.bal = journal.bal
           /\ \A a \in Accounts : journal'.nonce[a] >= journal.nonce[a]
<1>1. PICK applied : journal' = [journal EXCEPT
                !.code  = [a \in Accounts |-> IF a \in applied THEN "delegation" ELSE @[a]],
                !.nonce = [a \in Accounts |-> IF a \in applied THEN @[a] + 1 ELSE @[a]]]
  BY DEF LoadAccountsAndApplyAuths
<1> DEFINE code  == [a \in Accounts |-> IF a \in applied THEN "delegation" ELSE journal.code[a]]
           nonce == [a \in Accounts |-> IF a \in applied THEN journal.nonce[a] + 1
                                                          ELSE journal.nonce[a]]
<1>2. journal' = [[journal EXCEPT !.code = code] EXCEPT !.nonce = nonce]
  BY <1>1, Zenon
<1>3. journal.nonce \in [Accounts -> Nat]
  BY Typed DEF Worlds
<1>4. \A a \in Accounts : nonce[a] >= journal.nonce[a]
  BY <1>3
<1> HIDE DEF code, nonce
<1>5. journal'.bal = journal.bal /\ journal'.nonce = nonce
  BY <1>2, Typed DEF Worlds
<1> QED BY <1>4, <1>5

\* Authorizations leave an admitted transaction its value.
LEMMA LoadAccountsAdmission ==
    ASSUME IInv, AdmissionInv, LoadAccountsAndApplyAuths
    PROVE  AdmissionInv'
<1>1. /\ pc = "load_accounts" /\ pc' = "first_frame" /\ journal \in Worlds
      /\ mode' = mode /\ tx' = tx /\ cfg' = cfg
  BY Typed DEF LoadAccountsAndApplyAuths, envVars
<1>2. journal'.bal = journal.bal
  BY <1>1, AuthorizationsChange
<1> QED BY <1>1, <1>2 DEF AdmissionInv, RejectedForAReason, AdmittedCanPayValue,
            L1MessagesAreNotTurnedAway

\* Past validation a run is rejected by the database, or by a fee that an L1 message does not
\* pay.
LEMMA LateErrorAdmission ==
    ASSUME RewardBeneficiary \/ DatabaseError
    PROVE  AdmissionInv'
<1>1. /\ pc' \in {"catch_error", "execution_result"} /\ tx' = tx
      /\ pc' = "catch_error" =>
            \/ result'.status = "L1FeeError" /\ ~IsL1Msg(tx)
            \/ result'.status = "DatabaseError"
  BY DEF RewardBeneficiary, DatabaseError, Reject, envVars, IsFeeCharged
<1> QED BY <1>1 DEF AdmissionInv, RejectedForAReason, AdmittedCanPayValue,
            L1MessagesAreNotTurnedAway, Errors

\* Every step keeps the admission invariant.
LEMMA NextAdmission ==
    ASSUME IInv, AdmissionInv, [Next]_vars
    PROVE  AdmissionInv'
<1>1. ASSUME UNCHANGED vars PROVE AdmissionInv'
  BY <1>1 DEF vars, envVars, stateVars, gasVars, AdmissionInv, RejectedForAReason,
     AdmittedCanPayValue, L1MessagesAreNotTurnedAway
<1>2. ASSUME NEW t \in Txs, TransactOne(t) PROVE AdmissionInv'
  BY <1>2, StartAdmission DEF TransactOne
<1>3. ASSUME Replay PROVE AdmissionInv'
  BY <1>3, StartAdmission DEF Replay
<1>4. ASSUME NEW t \in SystemCalls, SystemCall(t) PROVE AdmissionInv'
  BY <1>4, StartAdmission DEF SystemCall
<1>5. ASSUME Interface PROVE AdmissionInv'
  BY <1>2, <1>3, <1>4, <1>5, StepsApartFromAdmission DEF Interface
<1>6. ASSUME Run PROVE AdmissionInv'
  BY <1>6, StepsApartFromAdmission, ValidateAdmission, DeductAdmission, LoadAccountsAdmission,
     LateErrorAdmission DEF Run
<1> QED BY <1>1, <1>5, <1>6 DEF Next

-----------------------------------------------------------------------------
(* Gas *)

\* The intrinsic gas is part of what was spent ...
IntrinsicGasIsSpent ==
    pc = "refund" => gas.remaining + initGas.initial <= gas.limit

\* ... and the refund is at most a fifth of it, until the floor is applied ...
RefundIsCapped ==
    (pc = "eip7623_check_gas_floor" /\ Pays)
        => initGas.initial <= Spent(gas) /\ gas.refunded <= Spent(gas) \div 5

\* ... from where on the gas of a paying transaction has its bounds.
FlooredGas ==
    (pc \in {"reimburse_caller", "reward_beneficiary"} /\ Pays)
        => /\ Used(gas) >= initGas.floor
           /\ Used(gas) >= initGas.initial - initGas.initial \div 5

\* The ResultGas is made before the floor is applied to the gas, and has the floor apart; the
\* receipt agrees with the gas again once the floor has been applied there.
Reported == IF IsL1Msg(tx) THEN [resultGas EXCEPT !.floor = 0] ELSE resultGas
ReceiptGas ==
    /\ pc = "eip7623_check_gas_floor" =>
          resultGas = [spent |-> Spent(gas), refunded |-> gas.refunded, floor |-> initGas.floor]
    /\ pc \in {"reimburse_caller", "reward_beneficiary", "execution_result"} =>
          GasUsed(Reported) = Used(gas)

GasInv ==
    IntrinsicGasIsSpent /\ RefundIsCapped /\ FlooredGas /\ ReceiptGas /\ ReportedGasIsChargedGas

\* Four fifths of an amount grow with it.
LEMMA FourFifthsGrow ==
    ASSUME NEW x \in Nat, NEW y \in Nat, x <= y
    PROVE  x - x \div 5 <= y - y \div 5
OBVIOUS

\* Steps after which no gas has been settled yet, or no longer.
LEMMA StepsApartFromGas ==
    ASSUME IInv, AdmissionInv,
           \/ \E t \in Txs : TransactOne(t)
           \/ Replay
           \/ \E t \in SystemCalls : SystemCall(t)
           \/ Validate \/ PreExecution \/ ValidateAgainstStateAndDeductCaller
           \/ LoadAccountsAndApplyAuths \/ Frame \/ DatabaseError \/ CatchError
    PROVE  GasInv'
<1>1. CASE CatchError
  <2>1. pc = "catch_error" /\ pc' = "idle" /\ result' = result
    BY <1>1 DEF CatchError
  <2>2. result'.status \notin OkOrRevert \cup {"halt"}
    BY <2>1 DEF AdmissionInv, RejectedForAReason, Errors, OkOrRevert
  <2> QED BY <2>1, <2>2 DEF GasInv, IntrinsicGasIsSpent, RefundIsCapped, FlooredGas, ReceiptGas,
             ReportedGasIsChargedGas
<1>2. CASE ~CatchError
  <2>1. pc' \in {"validate", "pre_execution", "deduct_caller", "load_accounts", "first_frame",
                 "frame", "last_frame_result", "catch_error"}
    BY <1>2 DEF TransactOne, Replay, SystemCall, Start, Validate, PreExecution, Reject,
       ValidateAgainstStateAndDeductCaller, LoadAccountsAndApplyAuths, Frame, FirstFrame, SendValue,
       StoreOracle, FrameStep, EndFrame, DatabaseError
  <2> QED BY <2>1 DEF GasInv, IntrinsicGasIsSpent, RefundIsCapped, FlooredGas, ReceiptGas,
             ReportedGasIsChargedGas
<1> QED BY <1>1, <1>2

\* Between runs the last result and its gas stay as they are.
LEMMA IdleGas ==
    ASSUME IInv, GasInv,
           (\E b \in Blocks : SetBlock(b)) \/ (\E c \in Cfgs : SetCfg(c)) \/ Finalize \/ Commit
    PROVE  GasInv'
<1>1. pc = "idle" /\ pc' = "idle" /\ result' = result /\ gas' = gas
  BY DEF SetBlock, SetCfg, Finalize, Commit, gasVars
<1> QED BY <1>1 DEF GasInv, IntrinsicGasIsSpent, RefundIsCapped, FlooredGas, ReceiptGas,
           ReportedGasIsChargedGas, Used, Spent

\* last_frame_result: what is left is left of the gas limit less the intrinsic gas.
LEMMA LastFrameResultGas ==
    ASSUME IInv, LastFrameResult
    PROVE  GasInv'
<1>1. /\ pc = "last_frame_result" /\ tx \in TxRecords /\ tx.gasLimit \in Nat
      /\ initGas' = initGas /\ tx' = tx /\ initGas.initial \in Nat
      /\ pc' = IF mode = "system_call" THEN "execution_result" ELSE "refund"
  BY Typed, TxFields DEF LastFrameResult, envVars, stateVars, IInv, TypeOK
<1>2. /\ gas.limit \in Nat /\ gas.remaining \in Nat /\ gas.refunded \in Nat
      /\ gas.limit <= tx.gasLimit - initGas.initial
      /\ gas.remaining + gas.refunded <= gas.limit
  BY <1>1 DEF IInv, FrameGas, TypeOK, GasRecords
<1>3. /\ gas'.limit = tx.gasLimit
      /\ gas'.remaining \in {0, gas.remaining} /\ gas'.refunded \in {0, gas.refunded}
  BY DEF LastFrameResult
<1>4. IntrinsicGasIsSpent'
  BY <1>1, <1>2, <1>3 DEF IntrinsicGasIsSpent
<1>5. ReceiptGas'
  <2>1. CASE mode = "system_call"
    <3>1. resultGas' = [spent |-> Spent(gas'), refunded |-> gas'.refunded, floor |-> 0]
      BY <2>1 DEF LastFrameResult
    <3>2. Reported' = resultGas'
      BY <3>1 DEF Reported
    <3>3. Spent(gas') - gas'.refunded \in Nat
      BY <1>1, <1>2, <1>3 DEF Spent
    <3>4. GasUsed(resultGas') = Spent(gas') - gas'.refunded
      BY <3>1, <3>3 DEF GasUsed, Greater
    <3> QED BY <1>1, <2>1, <3>2, <3>4 DEF ReceiptGas, Used
  <2>2. CASE mode # "system_call"
    BY <1>1, <2>2 DEF ReceiptGas
  <2> QED BY <2>1, <2>2
<1>6. RefundIsCapped' /\ FlooredGas' /\ ReportedGasIsChargedGas'
  BY <1>1 DEF RefundIsCapped, FlooredGas, ReportedGasIsChargedGas
<1> QED BY <1>4, <1>5, <1>6 DEF GasInv

\* refund caps the refund of a paying transaction and makes the ResultGas.
LEMMA RefundGas ==
    ASSUME IInv, GasInv, Refund
    PROVE  GasInv'
<1>1. /\ pc = "refund" /\ pc' = "eip7623_check_gas_floor" /\ pc \in SettlingPhases
      /\ UNCHANGED <<tx, mode, initGas>>
      /\ gas' = IF IsL1Msg(tx) THEN gas ELSE [gas EXCEPT !.refunded = CappedRefund(gas)]
      /\ resultGas' = [spent |-> Spent(gas'), refunded |-> gas'.refunded, floor |-> initGas.floor]
  BY DEF Refund, envVars, SettlingPhases
<1>2. RefundIsCapped'
  <2>1. SUFFICES ASSUME ~IsL1Msg(tx)
                 PROVE  initGas.initial <= Spent(gas') /\ gas'.refunded <= Spent(gas') \div 5
    BY <1>1 DEF RefundIsCapped, Pays
  <2>2. /\ gas'.limit = gas.limit /\ gas'.remaining = gas.remaining
        /\ gas'.refunded = CappedRefund(gas)
    BY <1>1, <2>1, Settling DEF GasRecords
  <2>3. Spent(gas') = Spent(gas)
    BY <2>2 DEF Spent
  <2>4. gas.refunded + eip7702_refund \in Nat /\ Spent(gas) \div 5 \in Nat
    BY <1>1, Settling DEF IInv, TypeOK
  <2>5. CappedRefund(gas) <= Spent(gas) \div 5
    BY <2>4 DEF CappedRefund, Lesser
  <2>6. initGas.initial <= Spent(gas)
    BY <1>1, Settling DEF GasInv, IntrinsicGasIsSpent, Spent, IInv, TypeOK
  <2> QED BY <2>2, <2>3, <2>5, <2>6
<1>3. ReceiptGas'
  BY <1>1 DEF ReceiptGas
<1>4. IntrinsicGasIsSpent' /\ FlooredGas' /\ ReportedGasIsChargedGas'
  BY <1>1 DEF IntrinsicGasIsSpent, FlooredGas, ReportedGasIsChargedGas
<1> QED BY <1>2, <1>3, <1>4 DEF GasInv

\* The floor: what a transaction used becomes the floor, or was above it already.
LEMMA FloorGasStep ==
    ASSUME IInv, GasInv, Eip7623CheckGasFloor
    PROVE  GasInv'
<1>1. /\ pc = "eip7623_check_gas_floor" /\ pc' = "reimburse_caller" /\ pc \in SettlingPhases
      /\ UNCHANGED <<tx, mode, initGas, resultGas>>
      /\ gas' = IF IsL1Msg(tx) THEN gas ELSE Floored(gas)
      /\ mode # "system_call"
  BY Settling DEF Eip7623CheckGasFloor, envVars, SettlingPhases
<1>2. /\ Spent(gas) \in Nat /\ gas.refunded \in Nat /\ Used(gas) \in Nat
      /\ gas.limit \in Nat /\ initGas.floor \in Nat /\ initGas.initial \in Nat
      /\ Used(gas) = Spent(gas) - gas.refunded
  BY <1>1, Settling DEF IInv, TypeOK, Used
<1>3. resultGas = [spent |-> Spent(gas), refunded |-> gas.refunded, floor |-> initGas.floor]
  BY <1>1 DEF GasInv, ReceiptGas
<1>4. Used(Floored(gas)) = Greater(Used(gas), initGas.floor)
  <2>1. CASE Used(gas) < initGas.floor
    <3>1. /\ Floored(gas).limit = gas.limit /\ Floored(gas).refunded = 0
          /\ Floored(gas).remaining = gas.limit - initGas.floor
      BY <1>1, <2>1, Settling DEF Floored, GasRecords
    <3>2. Used(Floored(gas)) = initGas.floor
      BY <1>2, <3>1 DEF Used, Spent
    <3> QED BY <1>2, <2>1, <3>2 DEF Greater
  <2>2. CASE ~(Used(gas) < initGas.floor)
    BY <1>2, <2>2 DEF Floored, Greater
  <2> QED BY <2>1, <2>2
<1>5. GasUsed(Reported') = Used(gas')
  <2>1. CASE IsL1Msg(tx)
    <3>1. Reported' = [spent |-> Spent(gas), refunded |-> gas.refunded, floor |-> 0]
      BY <1>1, <1>3, <2>1 DEF Reported
    <3>2. GasUsed(Reported') = Used(gas)
      BY <1>2, <3>1 DEF GasUsed, Greater
    <3> QED BY <1>1, <2>1, <3>2
  <2>2. CASE ~IsL1Msg(tx)
    <3>1. Reported' = [spent |-> Spent(gas), refunded |-> gas.refunded, floor |-> initGas.floor]
      BY <1>1, <1>3, <2>2 DEF Reported
    <3>2. GasUsed(Reported') = Greater(Used(gas), initGas.floor)
      BY <1>2, <3>1 DEF GasUsed
    <3> QED BY <1>1, <1>4, <2>2, <3>2
  <2> QED BY <2>1, <2>2
<1>6. FlooredGas'
  <2>1. SUFFICES ASSUME ~IsL1Msg(tx)
                 PROVE  /\ Used(gas') >= initGas.floor
                        /\ Used(gas') >= initGas.initial - initGas.initial \div 5
    BY <1>1 DEF FlooredGas, Pays
  <2>2. initGas.initial <= Spent(gas) /\ gas.refunded <= Spent(gas) \div 5
    BY <1>1, <2>1 DEF GasInv, RefundIsCapped, Pays
  <2>3. initGas.initial - initGas.initial \div 5 <= Spent(gas) - Spent(gas) \div 5
    BY <1>2, <2>2, FourFifthsGrow
  <2>4. Used(gas) >= initGas.initial - initGas.initial \div 5
    BY <1>2, <2>2, <2>3
  <2>5. Used(gas') = Greater(Used(gas), initGas.floor)
    BY <1>1, <1>4, <2>1
  <2> QED BY <1>2, <2>4, <2>5 DEF Greater
<1>7. ReceiptGas'
  BY <1>1, <1>5 DEF ReceiptGas, GasUsed, Reported
<1>8. IntrinsicGasIsSpent' /\ RefundIsCapped' /\ ReportedGasIsChargedGas'
  BY <1>1 DEF IntrinsicGasIsSpent, RefundIsCapped, ReportedGasIsChargedGas
<1> QED BY <1>6, <1>7, <1>8 DEF GasInv

\* Reimbursement and reward look at the gas and leave it as it is.
LEMMA SettlingGas ==
    ASSUME IInv, GasInv, ReimburseCaller \/ RewardBeneficiary
    PROVE  GasInv'
<1>1. /\ \/ pc = "reimburse_caller" /\ pc' = "reward_beneficiary"
         \/ pc = "reward_beneficiary" /\ pc' \in {"execution_result", "catch_error"}
      /\ UNCHANGED <<tx, mode, initGas, gas, resultGas>>
  BY DEF ReimburseCaller, RewardBeneficiary, Reject, envVars, gasVars
<1>2. FlooredGas'
  BY <1>1 DEF GasInv, FlooredGas, Pays, Used, Spent
<1>3. ReceiptGas'
  BY <1>1 DEF GasInv, ReceiptGas, Reported, GasUsed, Used, Spent
<1>4. IntrinsicGasIsSpent' /\ RefundIsCapped' /\ ReportedGasIsChargedGas'
  BY <1>1 DEF IntrinsicGasIsSpent, RefundIsCapped, ReportedGasIsChargedGas
<1> QED BY <1>2, <1>3, <1>4 DEF GasInv

\* The receipt reports the gas that was used.
LEMMA ExecutionResultGas ==
    ASSUME IInv, GasInv, ExecutionResult
    PROVE  GasInv'
<1>1. /\ pc = "execution_result" /\ pc' = "idle" /\ gas' = gas
      /\ result'.used = GasUsed(Reported)
  BY DEF ExecutionResult, Reported
<1>2. result'.used = Used(gas')
  BY <1>1 DEF GasInv, ReceiptGas
<1> QED BY <1>1, <1>2 DEF GasInv, IntrinsicGasIsSpent, RefundIsCapped, FlooredGas, ReceiptGas,
           ReportedGasIsChargedGas, Used, Spent

\* Every step keeps the gas invariant.
LEMMA NextGas ==
    ASSUME IInv, AdmissionInv, GasInv, [Next]_vars
    PROVE  GasInv'
<1>1. ASSUME UNCHANGED vars PROVE GasInv'
  BY <1>1 DEF vars, envVars, stateVars, gasVars, GasInv, IntrinsicGasIsSpent, RefundIsCapped,
     FlooredGas, ReceiptGas, ReportedGasIsChargedGas, Pays, Reported, GasUsed, Used, Spent
<1>2. ASSUME Interface PROVE GasInv'
  BY <1>2, StepsApartFromGas, IdleGas DEF Interface
<1>3. ASSUME Run PROVE GasInv'
  BY <1>3, StepsApartFromGas, LastFrameResultGas, RefundGas, FloorGasStep, SettlingGas,
     ExecutionResultGas DEF Run
<1> QED BY <1>1, <1>2, <1>3 DEF Next

-----------------------------------------------------------------------------
(* Nonces *)

\* From TsukiV2, in a run of a transaction that pays: a call has used its nonce up when it is
\* admitted, a CREATE when its frame is opened, before the checkpoint that a failing frame
\* goes back to.
NoncePhases == {"frame", "last_frame_result", "execution_result"} \cup SettlingPhases
NonceInv ==
    (pc # "idle" /\ Pays /\ IsEnabledIn(cfg.spec, TSUKI_V2)) =>
        /\ pc \in {"load_accounts", "first_frame"} =>
              journal.nonce[tx.caller] >= tx.nonce + (IF tx.create THEN 0 ELSE 1)
        /\ pc \in NoncePhases => journal.nonce[tx.caller] > tx.nonce
        /\ pc = "frame" => checkpoint.nonce[tx.caller] > tx.nonce

\* A nonce bump adds one to one nonce.
LEMMA BumpedNonce ==
    ASSUME NEW w \in Worlds, NEW a \in Accounts, NEW b \in Accounts
    PROVE  /\ BumpNonce(w, a).nonce[a] = w.nonce[a] + 1
           /\ BumpNonce(w, a).nonce[b] >= w.nonce[b]
<1>1. w.nonce \in [Accounts -> Nat]
  BY DEF Worlds
<1>2. BumpNonce(w, a).nonce = [w.nonce EXCEPT ![a] = @ + 1]
  BY BumpNonceWorld
<1>3. /\ [w.nonce EXCEPT ![a] = @ + 1][a] = w.nonce[a] + 1
      /\ [w.nonce EXCEPT ![a] = @ + 1][b] >= w.nonce[b]
  BY <1>1
<1> QED BY <1>2, <1>3

\* Moving money changes no nonce.
LEMMA MovedNonce ==
    ASSUME NEW w \in Worlds, NEW a \in Accounts, NEW b \in Accounts, NEW v \in Nat
    PROVE  Move(w, a, b, v).nonce = w.nonce
<1> DEFINE d == DecrBalance(w, a, v)
<1>1. d \in Worlds /\ d.nonce = w.nonce
  BY DecrBalanceWorld
<1> HIDE DEF d
<1>2. Credit(d, b, v).nonce = d.nonce
  BY <1>1, CreditWorld
<1> QED BY <1>1, <1>2 DEF Move, d

\* Steps after which the nonce is not looked at.
LEMMA StepsApartFromNonces ==
    ASSUME \/ \E t \in Txs : TransactOne(t)
           \/ Replay
           \/ \E t \in SystemCalls : SystemCall(t)
           \/ \E b \in Blocks : SetBlock(b)
           \/ \E c \in Cfgs : SetCfg(c)
           \/ Finalize \/ Commit
           \/ Validate \/ PreExecution \/ ExecutionResult \/ DatabaseError \/ CatchError
    PROVE  NonceInv'
<1>1. \/ pc' \in {"idle", "validate", "catch_error", "pre_execution", "deduct_caller"}
      \/ mode' = "system_call"
  BY DEF TransactOne, Replay, SystemCall, Start, SetBlock, SetCfg, Finalize, Commit, Validate,
     PreExecution, ExecutionResult, DatabaseError, CatchError, Reject
<1> QED BY <1>1 DEF NonceInv, NoncePhases, SettlingPhases, Pays

\* The deduction compares the nonce of a paying transaction, and bumps that of a call.
LEMMA DeductNonces ==
    ASSUME IInv, ValidateAgainstStateAndDeductCaller
    PROVE  NonceInv'
<1>1. /\ pc = "deduct_caller" /\ tx # NoTx
      /\ tx' = tx /\ pc' \in {"catch_error", "load_accounts"}
      /\ pc' = "load_accounts" => Deduction.error = Ok /\ journal' = Deduction.world
  BY DEF ValidateAgainstStateAndDeductCaller, Deduction, Reject, envVars, IInv, GasLimitCovers
<1>2. tx.nonce \in Nat
  BY <1>1, Typed, TxFields
<1>3. (pc' = "load_accounts" /\ ~IsL1Msg(tx)) =>
         journal'.nonce[tx.caller] = tx.nonce + (IF tx.create THEN 0 ELSE 1)
  BY <1>1, DeductionTakes
<1>4. (pc' = "load_accounts" /\ ~IsL1Msg(tx)) =>
         journal'.nonce[tx.caller] >= tx.nonce + (IF tx.create THEN 0 ELSE 1)
  BY <1>2, <1>3
<1> QED BY <1>1, <1>4 DEF NonceInv, NoncePhases, SettlingPhases, Pays

\* The authorizations may raise the caller's nonce further.
LEMMA LoadAccountsNonces ==
    ASSUME IInv, NonceInv, LoadAccountsAndApplyAuths
    PROVE  NonceInv'
<1>1. /\ pc = "load_accounts" /\ pc' = "first_frame"
      /\ mode' = mode /\ tx' = tx /\ cfg' = cfg
      /\ tx \in TxRecords /\ tx.caller \in Accounts /\ tx.nonce \in Nat
  BY Typed, TxFields DEF LoadAccountsAndApplyAuths, envVars
<1>2. /\ journal'.nonce[tx.caller] >= journal.nonce[tx.caller]
      /\ journal'.nonce[tx.caller] \in Nat /\ journal.nonce[tx.caller] \in Nat
  <2>1. journal \in Worlds /\ journal' \in Worlds
    BY LoadAccountsStep, Typed DEF IInv, TypeOK
  <2> QED BY <1>1, <2>1, AuthorizationsChange DEF Worlds
<1>3. (Pays /\ IsEnabledIn(cfg.spec, TSUKI_V2)) =>
         journal'.nonce[tx.caller] >= tx.nonce + (IF tx.create THEN 0 ELSE 1)
  BY <1>1, <1>2 DEF NonceInv
<1> QED BY <1>1, <1>3 DEF NonceInv, NoncePhases, SettlingPhases, Pays

\* The first frame of a CREATE bumps the nonce before its checkpoint, and no admitted
\* transaction fails before that for want of its value.
LEMMA FirstFrameNonces ==
    ASSUME IInv, AdmissionInv, NonceInv, FirstFrame
    PROVE  NonceInv'
<1> DEFINE caller == IF tx.create THEN BumpNonce(journal, tx.caller) ELSE journal
           opened == IF tx.create THEN BumpNonce(caller, tx.to) ELSE caller
           moved  == Move(opened, tx.caller, tx.to, tx.value)
<1>1. /\ pc = "first_frame" /\ tx \in TxRecords /\ journal \in Worlds /\ tx.nonce \in Nat
      /\ tx.caller \in Accounts /\ tx.to \in Accounts /\ tx.value \in Nat
      /\ UNCHANGED <<mode, tx, cfg>>
  BY Typed, TxFields DEF FirstFrame, envVars
<1>2. SUFFICES ASSUME Pays, IsEnabledIn(cfg.spec, TSUKI_V2)
               PROVE  /\ pc' \in {"frame", "last_frame_result"}
                      /\ journal'.nonce[tx.caller] > tx.nonce
                      /\ pc' = "frame" => checkpoint'.nonce[tx.caller] > tx.nonce
  BY <1>1 DEF NonceInv, NoncePhases, SettlingPhases, Pays
<1>3. journal.nonce[tx.caller] >= tx.nonce + (IF tx.create THEN 0 ELSE 1)
  BY <1>1, <1>2 DEF NonceInv
<1>4. caller \in Worlds /\ caller.nonce[tx.caller] > tx.nonce
  <2>1. journal.nonce[tx.caller] \in Nat
    BY <1>1 DEF Worlds
  <2>2. CASE tx.create
    <3>1. /\ BumpNonce(journal, tx.caller) \in Worlds
          /\ BumpNonce(journal, tx.caller).nonce[tx.caller] = journal.nonce[tx.caller] + 1
      BY <1>1, BumpNonceWorld, BumpedNonce
    <3> QED BY <1>1, <1>3, <2>1, <2>2, <3>1
  <2>3. CASE ~tx.create
    BY <1>1, <1>3, <2>1, <2>3
  <2> QED BY <2>2, <2>3
<1>5. opened \in Worlds /\ opened.nonce[tx.caller] > tx.nonce
  <2> HIDE DEF caller
  <2>1. caller.nonce[tx.caller] \in Nat
    BY <1>1, <1>4 DEF Worlds
  <2>2. CASE tx.create
    <3>1. BumpNonce(caller, tx.to) \in Worlds
      BY <1>1, <1>4, BumpNonceWorld
    <3>2. BumpNonce(caller, tx.to).nonce[tx.caller] >= caller.nonce[tx.caller]
      BY <1>1, <1>4, BumpedNonce
    <3>3. BumpNonce(caller, tx.to).nonce[tx.caller] \in Nat
      BY <1>1, <3>1 DEF Worlds
    <3> QED BY <1>1, <1>4, <2>1, <2>2, <3>1, <3>2, <3>3
  <2>3. CASE ~tx.create
    BY <1>4, <2>3
  <2> QED BY <2>2, <2>3
<1>6. moved.nonce[tx.caller] > tx.nonce
  <2> HIDE DEF opened
  <2> QED BY <1>1, <1>5, MovedNonce
<1>7. tx.value <= journal.bal[tx.caller] /\ journal.bal[tx.caller] \in Nat
  BY <1>1, <1>2 DEF AdmissionInv, AdmittedCanPayValue, Pays, Worlds
<1>8. ~(journal.bal[tx.caller] < tx.value)
  BY <1>1, <1>7
<1> HIDE DEF caller, opened, moved
<1>9. \/ pc' = "last_frame_result" /\ journal' = caller
      \/ pc' = "frame" /\ checkpoint' = caller /\ journal' = moved
  BY <1>8 DEF FirstFrame, caller, opened, moved
<1> QED BY <1>4, <1>6, <1>9

\* Running code does not touch the nonce of the caller, and a failing frame goes back to a
\* checkpoint in which it is used up already.
LEMMA FrameNonces ==
    ASSUME IInv, NonceInv,
           \/ \E a, b \in Accounts : \E v \in 1 .. journal.bal[a] : SendValue(a, b, v)
           \/ \E v \in OracleValues : StoreOracle(v)
           \/ EndFrame
    PROVE  NonceInv'
<1>1. /\ pc = "frame" /\ pc' \in {"frame", "last_frame_result"} /\ journal \in Worlds
      /\ UNCHANGED <<mode, tx, cfg, checkpoint>>
  BY Typed DEF SendValue, StoreOracle, FrameStep, EndFrame, envVars
<1>2. journal'.nonce \in {journal.nonce, checkpoint.nonce}
  <2>1. ASSUME NEW a \in Accounts, NEW b \in Accounts, NEW v \in 1 .. journal.bal[a],
               SendValue(a, b, v)
        PROVE  journal'.nonce = journal.nonce
    <3>1. v \in Nat /\ journal' = Move(journal, a, b, v)
      BY <1>1, <2>1 DEF SendValue, FrameStep, Worlds
    <3> QED BY <1>1, <3>1, MovedNonce
  <2>2. ASSUME NEW v \in OracleValues, StoreOracle(v)
        PROVE  journal'.nonce = journal.nonce
    BY <1>1, <2>2 DEF StoreOracle, FrameStep, Worlds
  <2>3. ASSUME EndFrame PROVE journal'.nonce \in {journal.nonce, checkpoint.nonce}
    <3>1. [journal EXCEPT !.code[tx.to] = "contract"].nonce = journal.nonce
      BY <1>1 DEF Worlds
    <3>2. journal' \in {checkpoint, journal, [journal EXCEPT !.code[tx.to] = "contract"]}
      BY <2>3 DEF EndFrame
    <3> QED BY <3>1, <3>2
  <2> QED BY <2>1, <2>2, <2>3
<1>3. (Pays /\ IsEnabledIn(cfg.spec, TSUKI_V2)) =>
         journal.nonce[tx.caller] > tx.nonce /\ checkpoint.nonce[tx.caller] > tx.nonce
  BY <1>1 DEF NonceInv, NoncePhases
<1> QED BY <1>1, <1>2, <1>3 DEF NonceInv, NoncePhases, SettlingPhases, Pays

\* Settling pays balances only.
LEMMA SettlingNonces ==
    ASSUME IInv, NonceInv,
           \/ LastFrameResult \/ Refund \/ Eip7623CheckGasFloor \/ ReimburseCaller
           \/ RewardBeneficiary
    PROVE  NonceInv'
<1>1. /\ pc \in {"last_frame_result"} \cup SettlingPhases
      /\ pc' \in SettlingPhases \cup {"execution_result", "catch_error"}
      /\ UNCHANGED <<mode, tx, cfg>>
  BY DEF LastFrameResult, Refund, Eip7623CheckGasFloor, ReimburseCaller, RewardBeneficiary, Reject,
     envVars, SettlingPhases
<1>2. journal'.nonce = journal.nonce
  <2>1. CASE LastFrameResult \/ Refund \/ Eip7623CheckGasFloor
    BY <2>1 DEF LastFrameResult, Refund, Eip7623CheckGasFloor, stateVars
  <2>2. CASE ReimburseCaller
    <3>1. pc \in SettlingPhases
      BY <2>2 DEF ReimburseCaller, SettlingPhases
    <3>2. gas.remaining + gas.refunded \in Nat /\ tx.caller \in Accounts /\ Price \in Nat
      BY <3>1, Settling, Amounts
    <3> DEFINE amount == Price * (gas.remaining + gas.refunded)
    <3>3. amount \in Nat
      BY <3>2, ProductIsNat
    <3>4. journal' = journal \/ journal' = Credit(journal, tx.caller, amount)
      BY <2>2 DEF ReimburseCaller
    <3> HIDE DEF amount
    <3>5. journal \in Worlds
      BY Typed
    <3>6. Credit(journal, tx.caller, amount).nonce = journal.nonce
      BY <3>2, <3>3, <3>5, CreditWorld
    <3> QED BY <3>4, <3>6
  <2>3. CASE RewardBeneficiary
    <3>1. pc \in SettlingPhases
      BY <2>3 DEF RewardBeneficiary, SettlingPhases
    <3>2. Reward(gas) \in Nat
      <4>1. Price * Used(gas) \in Nat /\ L1Cost \in Nat
        BY <3>1, Settling, Amounts, ProductIsNat
      <4> QED BY <4>1 DEF Reward
    <3>3. journal \in Worlds /\ block.beneficiary \in Accounts
      BY Typed
    <3>4. Credit(journal, block.beneficiary, Reward(gas)).nonce = journal.nonce
      BY <3>2, <3>3, CreditWorld
    <3> QED BY <2>3, <3>4 DEF RewardBeneficiary, Reject
  <2> QED BY <2>1, <2>2, <2>3
<1> QED BY <1>1, <1>2 DEF NonceInv, NoncePhases, SettlingPhases, Pays

\* Every step keeps the nonce invariant.
LEMMA NextNonces ==
    ASSUME IInv, AdmissionInv, NonceInv, [Next]_vars
    PROVE  NonceInv'
<1>1. ASSUME UNCHANGED vars PROVE NonceInv'
  BY <1>1 DEF vars, envVars, stateVars, gasVars, NonceInv, Pays
<1>2. ASSUME Interface PROVE NonceInv'
  BY <1>2, StepsApartFromNonces DEF Interface
<1>3. ASSUME Frame PROVE NonceInv'
  BY <1>3, FirstFrameNonces, FrameNonces DEF Frame
<1>4. ASSUME Run PROVE NonceInv'
  BY <1>3, <1>4, StepsApartFromNonces, DeductNonces, LoadAccountsNonces, SettlingNonces DEF Run
<1> QED BY <1>1, <1>2, <1>4 DEF Next

-----------------------------------------------------------------------------
(* The second invariant, and what follows from it *)

\* Admission, gas and nonces together.
SafetyInv == AdmissionInv /\ GasInv /\ NonceInv

\* Before the first run nothing has been admitted or reported.
LEMMA InitSafety ==
    ASSUME Init
    PROVE  SafetyInv
BY DEF Init, SafetyInv, AdmissionInv, RejectedForAReason, AdmittedCanPayValue,
   L1MessagesAreNotTurnedAway, GasInv, IntrinsicGasIsSpent, RefundIsCapped, FlooredGas, ReceiptGas,
   ReportedGasIsChargedGas, NoResult, OkOrRevert, NonceInv

\* The three invariants hold of every behaviour of the handler.
THEOREM SafetyInvariant == Spec => []SafetyInv
<1>1. Init => SafetyInv
  BY InitSafety
<1>2. IInv /\ SafetyInv /\ [Next]_vars => SafetyInv'
  BY NextAdmission, NextGas, NextNonces DEF SafetyInv
<1> QED BY <1>1, <1>2, Invariant, PTL DEF Spec

\* What validation lets through can pay for its value when the first frame is made: the
\* combined check of TsukiV2 leaves room for it behind gas and L1 fee, and so does the check of
\* an L1 message before Euclid.
THEOREM AdmittedCoverTheirValue == Spec => []AdmittedCanPayValue
<1>1. SafetyInv => AdmittedCanPayValue
  BY DEF SafetyInv, AdmissionInv
<1> QED BY <1>1, SafetyInvariant, PTL

\* From Euclid no phase of the handler turns an L1 message away for a price, a fee, a balance, a
\* nonce or the cap on the gas of a transaction.
THEOREM L1MessagesAreAccepted == Spec => []L1MessagesAreNotTurnedAway
<1>1. SafetyInv => L1MessagesAreNotTurnedAway
  BY DEF SafetyInv, AdmissionInv
<1> QED BY <1>1, SafetyInvariant, PTL

\* The gas a paying transaction is charged for is within its limit, and not below its EIP-7623
\* floor or four fifths of its intrinsic gas, whatever refunds it earned.
THEOREM ChargedGasIsBounded == Spec => []ChargedGasBounds
<1>1. IInv /\ SafetyInv => ChargedGasBounds
  <2>1. SUFFICES ASSUME IInv, SafetyInv, pc = "reward_beneficiary", Pays
                 PROVE  /\ Used(gas) <= tx.gasLimit
                        /\ Used(gas) >= initGas.floor
                        /\ Used(gas) >= initGas.initial - initGas.initial \div 5
    BY DEF ChargedGasBounds
  <2>2. Used(gas) <= tx.gasLimit
    BY <2>1, Settling DEF Used, Spent, SettlingPhases
  <2> QED BY <2>1, <2>2 DEF SafetyInv, GasInv, FlooredGas
<1> QED BY <1>1, Invariant, SafetyInvariant, PTL

\* What a receipt reports is what the caller was charged for, although the ResultGas is made
\* before the floor is applied to the gas.
THEOREM ReceiptsReportChargedGas == Spec => []ReportedGasIsChargedGas
<1>1. SafetyInv => ReportedGasIsChargedGas
  BY DEF SafetyInv, GasInv
<1> QED BY <1>1, SafetyInvariant, PTL

\* From TsukiV2 a transaction that is included has used its nonce up, a CREATE too.
THEOREM IncludedTransactionsUseTheirNonce == Spec => []IncludedUsesNonce
<1>1. SafetyInv => IncludedUsesNonce
  BY DEF SafetyInv, NonceInv, NoncePhases, IncludedUsesNonce
<1> QED BY <1>1, SafetyInvariant, PTL

-----------------------------------------------------------------------------
(* The handler implements FeeLedger: every step of ScrollHandler is a step of the ledger under *)
(* the refinement mapping of ScrollHandlerProps, or leaves the ledger as it is.                *)

\* A step of the ledger, or none.
LedgerStep == [Ledger!Next]_(Ledger!vars)

\* What the ledger sees of a step.
LEMMA Stutters ==
    ASSUME UNCHANGED <<LedgerBal, Pot, LedgerStage, LedgerPayer, block, db, txStart, checkpoint,
                       LedgerHanded>>
    PROVE  LedgerStep
BY DEF LedgerStep, Ledger!vars

\* An aborted transaction has changed no balance.
LEMMA Aborts ==
    ASSUME LedgerStage # "closed", pc' = "catch_error",
           UNCHANGED <<tx, block, db, txStart, checkpoint, returned>>
    PROVE  LedgerStep
<1>1. LedgerStage' = "closed" /\ LedgerBal' = txStart.bal /\ Pot' = 0
  BY DEF LedgerStage, InTransaction, LedgerBal, Pot, ChargedPhases
<1>2. UNCHANGED <<LedgerPayer, LedgerHanded>>
  BY DEF LedgerPayer, LedgerHanded
<1>3. Ledger!Abort
  BY <1>1, <1>2 DEF Ledger!Abort
<1> QED BY <1>3 DEF LedgerStep, Ledger!Next

\* Moving money in the handler is moving it in the ledger.
LEMMA MovedBalance ==
    ASSUME NEW w \in Worlds, NEW a \in Accounts, NEW b \in Accounts, NEW v \in Nat, v <= w.bal[a]
    PROVE  Move(w, a, b, v).bal = Ledger!Moved(w.bal, a, b, v)
<1> DEFINE d == DecrBalance(w, a, v)
<1>1. d \in Worlds /\ d.bal = [w.bal EXCEPT ![a] = @ - v]
  BY DecrBalanceWorld
<1> HIDE DEF d
<1>2. Credit(d, b, v).bal = [d.bal EXCEPT ![b] = @ + v]
  BY <1>1, CreditWorld
<1> QED BY <1>1, <1>2 DEF Move, Ledger!Moved, d

\* Between runs nothing is owed and the ledger's balances are the journal's.
LEMMA IdleLedger ==
    ASSUME pc = "idle"
    PROVE  LedgerStage = "closed" /\ Pot = 0 /\ LedgerBal = journal.bal
BY DEF LedgerStage, InTransaction, Pot, ChargedPhases, LedgerBal

\* The builder's context is an initial ledger.
LEMMA InitLedger ==
    ASSUME Init
    PROVE  Ledger!Init
<1>1. /\ db.bal \in [Accounts -> Nat] /\ journal.bal = db.bal /\ journal = txStart
      /\ journal = checkpoint /\ tx = NoTx /\ returned = NoState /\ block.beneficiary \in Accounts
  BY WorldAssumption, BlockAssumption DEF Init
<1>2. LedgerPayer = Nobody /\ LedgerHanded = {}
  BY <1>1 DEF LedgerPayer, LedgerHanded
<1>3. LedgerStage = "closed" /\ Pot = 0 /\ LedgerBal = journal.bal
  BY IdleLedger DEF Init
<1> QED BY <1>1, <1>2, <1>3 DEF Ledger!Init, Ledger!Balances

\* A run opens a transaction of its caller; a system call is never charged.
LEMMA StartLedger ==
    ASSUME IInv, NEW m, NEW t \in Txs \cup SystemCalls, NEW first, Start(m, t, first),
           \/ m \in {"transact", "replay"} /\ first = "validate"
           \/ m = "system_call" /\ first = "first_frame"
    PROVE  LedgerStep
<1>1. /\ pc = "idle" /\ pc' = first /\ mode' = m /\ tx' = t /\ txStart' = journal
      /\ checkpoint' = journal /\ returned' = NoState
      /\ UNCHANGED <<block, db, journal>>
  BY DEF Start
<1>2. t \in TxRecords /\ t # NoTx /\ t.caller \in Accounts
  BY TxAssumption, TxFields
<1>3. LedgerStage = "closed" /\ Pot = 0 /\ LedgerBal = journal.bal
  BY <1>1, IdleLedger
<1>4. LedgerStage' \in {"opened", "charged"} /\ Pot' = 0 /\ LedgerBal' = journal.bal
  BY <1>1 DEF LedgerStage, InTransaction, Pot, ChargedPhases, Pays, LedgerBal
<1>5. LedgerPayer' = t.caller /\ LedgerHanded' = {}
  BY <1>1, <1>2 DEF LedgerPayer, LedgerHanded
<1>6. Ledger!Open(t.caller)
  BY <1>1, <1>3, <1>4, <1>5 DEF Ledger!Open
<1> QED BY <1>2, <1>6 DEF LedgerStep, Ledger!Next

\* Between runs the state moves between journal, owner and database; the beneficiary may change.
LEMMA IdleLedgerStep ==
    ASSUME IInv,
           (\E b \in Blocks : SetBlock(b)) \/ (\E c \in Cfgs : SetCfg(c)) \/ Finalize \/ Commit
    PROVE  LedgerStep
<1>1. /\ pc = "idle" /\ pc' = "idle" /\ UNCHANGED <<tx, txStart, checkpoint>>
      /\ LedgerStage = "closed" /\ Pot = 0 /\ LedgerBal = journal.bal
      /\ LedgerStage' = "closed" /\ Pot' = 0 /\ LedgerBal' = journal'.bal
  <2>1. pc = "idle" /\ pc' = "idle" /\ UNCHANGED <<tx, txStart, checkpoint>>
    BY DEF SetBlock, SetCfg, Finalize, Commit, envVars, stateVars
  <2>2. LedgerStage' = "closed" /\ Pot' = 0 /\ LedgerBal' = journal'.bal
    BY <2>1 DEF LedgerStage, InTransaction, Pot, ChargedPhases, LedgerBal
  <2> QED BY <2>1, <2>2, IdleLedger
<1>2. LedgerPayer' = LedgerPayer
  BY <1>1 DEF LedgerPayer
<1>3. ASSUME NEW b \in Blocks, SetBlock(b) PROVE LedgerStep
  <2>1. b.beneficiary \in Accounts /\ block' = b /\ UNCHANGED <<db, journal, returned>>
    BY <1>3, BlockAssumption DEF SetBlock, stateVars
  <2>2. Ledger!NewCollector(b.beneficiary)
    BY <1>1, <1>2, <2>1 DEF Ledger!NewCollector, LedgerHanded
  <2> QED BY <2>1, <2>2 DEF LedgerStep, Ledger!Next
<1>4. ASSUME NEW c \in Cfgs, SetCfg(c) PROVE LedgerStep
  <2>1. UNCHANGED <<block, db, journal, returned>>
    BY <1>4 DEF SetCfg, stateVars
  <2> QED BY <1>1, <1>2, <2>1, Stutters DEF LedgerHanded
<1>5. ASSUME Finalize PROVE LedgerStep
  <2>1. /\ returned' = journal /\ journal' = EmptyJournal /\ UNCHANGED <<block, db>>
        /\ journal # NoState
    BY <1>5, Typed, WorldAssumption DEF Finalize, envVars
  <2>2. EmptyJournal.bal = db.bal
    BY Typed, SlotWorld DEF EmptyJournal
  <2>3. LedgerHanded' = {journal.bal}
    BY <2>1 DEF LedgerHanded
  <2>4. Ledger!HandOut
    BY <1>1, <1>2, <2>1, <2>2, <2>3 DEF Ledger!HandOut
  <2> QED BY <2>4 DEF LedgerStep, Ledger!Next
<1>6. ASSUME Commit PROVE LedgerStep
  <2>1. returned \in Worlds /\ returned' = NoState /\ block' = block /\ returned # NoState
    BY <1>6 DEF Commit, envVars, IInv, TypeOK
  <2>2. db'.bal = returned.bal /\ journal'.bal = returned.bal
    BY <1>6, <2>1 DEF Commit, Worlds
  <2>3. LedgerHanded = {returned.bal} /\ LedgerHanded' = {}
    BY <2>1 DEF LedgerHanded
  <2>4. Ledger!Store
    BY <1>1, <1>2, <2>1, <2>2, <2>3 DEF Ledger!Store
  <2> QED BY <2>4 DEF LedgerStep, Ledger!Next
<1> QED BY <1>3, <1>4, <1>5, <1>6

\* Phases that only look at the transaction and the block.
LEMMA ValidateLedger ==
    ASSUME IInv, Validate \/ PreExecution
    PROVE  LedgerStep
<1>1. /\ pc \in {"validate", "pre_execution"}
      /\ pc' \in {"pre_execution", "deduct_caller", "catch_error"}
      /\ UNCHANGED <<tx, block, db, txStart, checkpoint, returned, journal>>
  BY DEF Validate, PreExecution, Reject, envVars, stateVars
<1>2. LedgerStage = "opened" /\ Pot = 0 /\ LedgerBal = journal.bal
  BY <1>1 DEF LedgerStage, InTransaction, Pot, ChargedPhases, LedgerBal
<1>3. CASE pc' = "catch_error"
  BY <1>1, <1>2, <1>3, Aborts
<1>4. CASE pc' # "catch_error"
  <2>1. LedgerStage' = "opened" /\ Pot' = 0 /\ LedgerBal' = journal.bal
    BY <1>1, <1>4 DEF LedgerStage, InTransaction, Pot, ChargedPhases, LedgerBal
  <2> QED BY <1>1, <1>2, <2>1, Stutters DEF LedgerPayer, LedgerHanded
<1> QED BY <1>3, <1>4

\* The deduction charges the payer once, or the transaction is aborted with what it took.
LEMMA DeductLedger ==
    ASSUME IInv, ValidateAgainstStateAndDeductCaller
    PROVE  LedgerStep
<1>1. /\ pc = "deduct_caller" /\ tx # NoTx /\ mode # "system_call"
      /\ pc' \in {"catch_error", "load_accounts"}
      /\ UNCHANGED <<l1_block_info, mode, tx, block, cfg, db, txStart, checkpoint, returned, gas>>
      /\ pc' = "load_accounts" => Deduction.error = Ok /\ journal' = Deduction.world
  BY DEF ValidateAgainstStateAndDeductCaller, Deduction, Reject, envVars, gasVars, IInv,
     GasLimitCovers, SystemCallPhases
<1>2. LedgerStage = "opened" /\ Pot = 0 /\ LedgerBal = journal.bal /\ LedgerPayer = tx.caller
  BY <1>1 DEF LedgerStage, InTransaction, Pot, ChargedPhases, LedgerBal, LedgerPayer
<1>3. CASE pc' = "catch_error"
  BY <1>1, <1>2, <1>3, Aborts
<1>4. CASE pc' = "load_accounts"
  <2>1. /\ UpFront \in Nat /\ UpFront <= journal.bal[tx.caller]
        /\ journal'.bal = [journal.bal EXCEPT ![tx.caller] = @ - UpFront]
    BY <1>1, <1>4, DeductionTakes
  <2>2. journal.bal[tx.caller] \in Nat
    BY <1>1, Typed, TxFields DEF Worlds
  <2>3. LedgerStage' = "charged" /\ LedgerBal' = journal'.bal
    BY <1>4 DEF LedgerStage, InTransaction, LedgerBal
  <2>4. Pot' = UpFront
    BY <1>1, <1>4 DEF Pot, ChargedPhases, Pays, UpFront, L1Fee, L1Cost, FeeInput, Price
  <2> HIDE DEF UpFront
  <2>5. UpFront \in 0 .. journal.bal[tx.caller] /\ Pot' = Pot + UpFront
    BY <1>2, <2>1, <2>2, <2>4
  <2>6. Ledger!Charge
    BY <1>1, <1>2, <2>1, <2>3, <2>5 DEF Ledger!Charge, LedgerPayer, LedgerHanded
  <2> QED BY <2>6 DEF LedgerStep, Ledger!Next
<1> QED BY <1>1, <1>3, <1>4

\* While a transaction stays charged the pot holds the whole charge.
LEMMA PotStays ==
    ASSUME pc \in ChargedPhases, pc' \in ChargedPhases \/ (mode = "system_call" /\ pc' = "execution_result"),
           UNCHANGED <<l1_block_info, mode, tx, block, cfg>>
    PROVE  Pot' = Pot
BY DEF Pot, ChargedPhases, Pays, L1Fee, L1Cost, FeeInput, Price

\* Accounts are loaded and authorizations applied: no balance changes.
LEMMA LoadAccountsLedger ==
    ASSUME IInv, LoadAccountsAndApplyAuths
    PROVE  LedgerStep
<1>1. /\ pc = "load_accounts" /\ pc' = "first_frame"
      /\ UNCHANGED <<l1_block_info, mode, tx, block, cfg, db, txStart, checkpoint, returned>>
  BY DEF LoadAccountsAndApplyAuths, envVars
<1>2. UNCHANGED <<LedgerStage, LedgerBal>>
  BY <1>1, AuthorizationsChange DEF LedgerStage, InTransaction, LedgerBal
<1>3. Pot' = Pot
  BY <1>1, PotStays DEF ChargedPhases
<1> QED BY <1>1, <1>2, <1>3, Stutters DEF LedgerPayer, LedgerHanded

\* The first frame is opened with its value, or not at all.
LEMMA FirstFrameLedger ==
    ASSUME IInv, FirstFrame
    PROVE  LedgerStep
<1> DEFINE caller == IF tx.create THEN BumpNonce(journal, tx.caller) ELSE journal
           opened == IF tx.create THEN BumpNonce(caller, tx.to) ELSE caller
<1>1. /\ pc = "first_frame" /\ tx \in TxRecords /\ tx # NoTx /\ journal \in Worlds
      /\ tx.caller \in Accounts /\ tx.to \in Accounts /\ tx.value \in Nat
      /\ UNCHANGED <<l1_block_info, mode, tx, block, cfg, db, txStart, returned>>
      /\ pc' \in {"last_frame_result", "frame"}
  BY Typed, TxFields DEF FirstFrame, envVars, IInv, GasLimitCovers
<1>2. caller \in Worlds /\ caller.bal = journal.bal
  BY <1>1, BumpNonceWorld
<1>3. opened \in Worlds /\ opened.bal = journal.bal
  BY <1>1, <1>2, BumpNonceWorld
<1>4. /\ LedgerStage = "charged" /\ LedgerBal = journal.bal /\ LedgerPayer = tx.caller
      /\ LedgerBal' = journal'.bal
      /\ UNCHANGED <<LedgerPayer, LedgerHanded>>
  BY <1>1 DEF LedgerStage, InTransaction, LedgerBal, LedgerPayer, LedgerHanded
<1>5. Pot' = Pot
  BY <1>1, PotStays DEF ChargedPhases
<1> HIDE DEF caller, opened
<1>6. CASE pc' = "last_frame_result"
  <2>1. journal' \in {journal, caller} /\ checkpoint' = checkpoint
    BY <1>6 DEF FirstFrame, caller
  <2>2. LedgerStage' = "charged"
    BY <1>6 DEF LedgerStage, InTransaction
  <2> QED BY <1>1, <1>2, <1>4, <1>5, <2>1, <2>2, Stutters
<1>7. CASE pc' = "frame"
  <2>1. /\ checkpoint' = caller /\ journal' = Move(opened, tx.caller, tx.to, tx.value)
        /\ journal.bal[tx.caller] >= tx.value
    BY <1>7 DEF FirstFrame, caller, opened
  <2>2. LedgerStage' = "running"
    BY <1>7 DEF LedgerStage, InTransaction
  <2>3. journal.bal[tx.caller] \in Nat
    BY <1>1 DEF Worlds
  <2>4. tx.value \in 0 .. journal.bal[tx.caller] /\ tx.value <= opened.bal[tx.caller]
    BY <1>1, <1>3, <2>1, <2>3
  <2>5. journal'.bal = Ledger!Moved(journal.bal, tx.caller, tx.to, tx.value)
    BY <1>1, <1>3, <2>1, <2>4, MovedBalance
  <2>6. Ledger!OpenFrame
    BY <1>1, <1>2, <1>4, <1>5, <2>1, <2>2, <2>4, <2>5 DEF Ledger!OpenFrame
  <2> QED BY <2>6 DEF LedgerStep, Ledger!Next
<1> QED BY <1>1, <1>6, <1>7

\* Running code transfers what accounts have.
LEMMA RunningLedger ==
    ASSUME IInv,
           \/ \E a, b \in Accounts : \E v \in 1 .. journal.bal[a] : SendValue(a, b, v)
           \/ \E v \in OracleValues : StoreOracle(v)
    PROVE  LedgerStep
<1>1. /\ pc = "frame" /\ pc' = "frame" /\ journal \in Worlds
      /\ UNCHANGED <<l1_block_info, mode, tx, block, cfg, db, txStart, checkpoint, returned>>
  BY Typed DEF SendValue, StoreOracle, FrameStep, envVars
<1>2. /\ LedgerStage = "running" /\ LedgerBal = journal.bal
      /\ LedgerStage' = "running" /\ LedgerBal' = journal'.bal
      /\ UNCHANGED <<LedgerPayer, LedgerHanded>>
  BY <1>1 DEF LedgerStage, InTransaction, LedgerBal, LedgerPayer, LedgerHanded
<1>3. Pot' = Pot
  BY <1>1, PotStays DEF ChargedPhases
<1>4. ASSUME NEW a \in Accounts, NEW b \in Accounts, NEW v \in 1 .. journal.bal[a],
             SendValue(a, b, v)
      PROVE  LedgerStep
  <2>1. journal' = Move(journal, a, b, v)
    BY <1>4 DEF SendValue, FrameStep
  <2>2. v \in Nat /\ v <= journal.bal[a] /\ v \in 0 .. journal.bal[a]
    BY <1>1 DEF Worlds
  <2>3. journal'.bal = Ledger!Moved(journal.bal, a, b, v)
    BY <1>1, <2>1, <2>2, MovedBalance
  <2>4. Ledger!Transfer
    BY <1>1, <1>2, <1>3, <2>2, <2>3 DEF Ledger!Transfer
  <2> QED BY <2>4 DEF LedgerStep, Ledger!Next
<1>5. ASSUME NEW v \in OracleValues, StoreOracle(v) PROVE LedgerStep
  <2>1. journal'.bal = journal.bal
    BY <1>1, <1>5, SlotWorld DEF StoreOracle, FrameStep
  <2> QED BY <1>1, <1>2, <1>3, <2>1, Stutters
<1> QED BY <1>4, <1>5

\* A frame closes with its moves or without them.
LEMMA EndFrameLedger ==
    ASSUME IInv, EndFrame
    PROVE  LedgerStep
<1>1. /\ pc = "frame" /\ pc' = "last_frame_result" /\ journal \in Worlds
      /\ UNCHANGED <<l1_block_info, mode, tx, block, cfg, db, txStart, checkpoint, returned>>
      /\ journal' \in {checkpoint, journal, [journal EXCEPT !.code[tx.to] = "contract"]}
  BY Typed DEF EndFrame, envVars
<1>2. /\ LedgerStage = "running" /\ LedgerBal = journal.bal
      /\ LedgerStage' = "charged" /\ LedgerBal' = journal'.bal
      /\ UNCHANGED <<LedgerPayer, LedgerHanded>>
  BY <1>1 DEF LedgerStage, InTransaction, LedgerBal, LedgerPayer, LedgerHanded
<1>3. Pot' = Pot
  BY <1>1, PotStays DEF ChargedPhases
<1>4. [journal EXCEPT !.code[tx.to] = "contract"].bal = journal.bal
  BY <1>1 DEF Worlds
<1>5. Ledger!CloseFrame
  BY <1>1, <1>2, <1>3, <1>4 DEF Ledger!CloseFrame
<1> QED BY <1>5 DEF LedgerStep, Ledger!Next

\* The gas is accounted for without touching money.
LEMMA GasLedger ==
    ASSUME IInv, LastFrameResult \/ Refund \/ Eip7623CheckGasFloor
    PROVE  LedgerStep
<1>1. /\ \/ pc \in {"last_frame_result", "refund", "eip7623_check_gas_floor"}
            /\ pc' \in {"refund", "eip7623_check_gas_floor", "reimburse_caller"}
         \/ mode = "system_call" /\ pc = "last_frame_result" /\ pc' = "execution_result"
      /\ UNCHANGED <<l1_block_info, mode, tx, block, cfg, db, journal, txStart, checkpoint, returned>>
  BY DEF LastFrameResult, Refund, Eip7623CheckGasFloor, envVars, stateVars
<1>2. LedgerStage = "charged" /\ LedgerStage' = "charged" /\ LedgerBal' = LedgerBal
  BY <1>1 DEF LedgerStage, InTransaction, LedgerBal
<1>3. Pot' = Pot
  BY <1>1, PotStays DEF ChargedPhases
<1> QED BY <1>1, <1>2, <1>3, Stutters DEF LedgerPayer, LedgerHanded

\* The charge for the gas limit is the charge for the gas used and for what is paid back.
LEMMA ChargeSplits ==
    ASSUME NEW price \in Nat, NEW limit \in Nat, NEW back \in Nat, NEW used \in Nat,
           limit = used + back
    PROVE  price * limit = price * used + price * back
<1>1. price * (used + back) = price * used + price * back
  OBVIOUS
<1> QED BY <1>1

\* What reimburse_caller pays back comes out of the pot.
LEMMA ReimburseLedger ==
    ASSUME IInv, ReimburseCaller
    PROVE  LedgerStep
<1> DEFINE back == gas.remaining + gas.refunded
           v    == IF IsL1Msg(tx) THEN 0 ELSE Price * back
<1>1. /\ pc = "reimburse_caller" /\ pc' = "reward_beneficiary" /\ tx # NoTx
      /\ pc \in SettlingPhases /\ mode # "system_call"
      /\ UNCHANGED <<l1_block_info, mode, tx, block, cfg, db, txStart, checkpoint, returned, gas>>
      /\ journal' = IF IsL1Msg(tx) THEN journal ELSE Credit(journal, tx.caller, Price * back)
  BY Settling DEF ReimburseCaller, SettlingPhases, envVars, gasVars
<1>2. /\ LedgerStage = "charged" /\ LedgerBal = journal.bal /\ LedgerPayer = tx.caller
      /\ LedgerStage' = "refunded" /\ LedgerBal' = journal'.bal
      /\ UNCHANGED <<LedgerPayer, LedgerHanded>>
  BY <1>1 DEF LedgerStage, InTransaction, LedgerBal, LedgerPayer, LedgerHanded
<1>3. /\ back \in Nat /\ Used(gas) \in Nat /\ tx.gasLimit \in Nat /\ tx.gasLimit = Used(gas) + back
      /\ Price \in Nat /\ L1Fee \in Nat
  BY <1>1, Settling, Amounts DEF Used, Spent, L1Fee
<1>4. /\ Pot = IF IsL1Msg(tx) THEN 0 ELSE Price * tx.gasLimit + L1Fee
      /\ Pot' = IF IsL1Msg(tx) THEN 0 ELSE Price * Used(gas) + L1Fee
  BY <1>1 DEF Pot, ChargedPhases, Pays, L1Fee, L1Cost, FeeInput, Price, Used, Spent
<1>5. /\ Price * tx.gasLimit = Price * Used(gas) + Price * back
      /\ Price * Used(gas) \in Nat /\ Price * back \in Nat
  BY <1>3, ChargeSplits, ProductIsNat
<1>6. v \in 0 .. Pot /\ Pot' = Pot - v
  BY <1>3, <1>4, <1>5
<1>7. journal'.bal = [journal.bal EXCEPT ![tx.caller] = @ + v]
  <2>1. tx.caller \in Accounts /\ journal \in Worlds /\ journal.bal \in [Accounts -> Nat]
    BY <1>1, Amounts, Typed DEF Worlds
  <2>2. CASE IsL1Msg(tx)
    BY <1>1, <2>1, <2>2
  <2>3. CASE ~IsL1Msg(tx)
    <3>1. journal'.bal = [journal.bal EXCEPT ![tx.caller] = @ + Price * back]
      BY <1>1, <1>5, <2>1, <2>3, CreditWorld
    <3> QED BY <2>3, <3>1
  <2> QED BY <2>2, <2>3
<1> HIDE DEF v
<1>8. Ledger!Refund
  BY <1>1, <1>2, <1>6, <1>7 DEF Ledger!Refund
<1> QED BY <1>8 DEF LedgerStep, Ledger!Next

\* The reward empties the pot: the L1 fee is computed again and comes out the same.
LEMMA RewardLedger ==
    ASSUME IInv, RewardBeneficiary
    PROVE  LedgerStep
<1>1. /\ pc = "reward_beneficiary" /\ tx # NoTx /\ pc \in SettlingPhases /\ mode # "system_call"
      /\ pc' \in {"execution_result", "catch_error"}
      /\ UNCHANGED <<mode, tx, block, db, txStart, checkpoint, returned>>
  BY Settling DEF RewardBeneficiary, Reject, SettlingPhases, envVars
<1>2. LedgerStage = "refunded" /\ LedgerBal = journal.bal
  BY <1>1 DEF LedgerStage, InTransaction, LedgerBal
<1>3. CASE pc' = "catch_error"
  BY <1>1, <1>2, <1>3, Aborts
<1>4. CASE pc' = "execution_result"
  <2>1. LedgerStage' = "collected" /\ LedgerBal' = journal'.bal /\ Pot' = 0
    BY <1>1, <1>4 DEF LedgerStage, InTransaction, LedgerBal, Pot, ChargedPhases
  <2>2. journal' = IF IsL1Msg(tx) THEN journal ELSE Credit(journal, block.beneficiary, Reward(gas))
    BY <1>4 DEF RewardBeneficiary, Reject
  <2>3. Pot = IF IsL1Msg(tx) THEN 0 ELSE Reward(gas)
    BY <1>1 DEF Pot, ChargedPhases, Pays, L1Fee, Reward, IsFeeCharged
  <2>4. Reward(gas) \in Nat
    <3>1. Price * Used(gas) \in Nat /\ L1Cost \in Nat
      BY <1>1, Settling, Amounts, ProductIsNat
    <3> QED BY <3>1 DEF Reward
  <2>5. journal'.bal = [journal.bal EXCEPT ![block.beneficiary] = @ + Pot]
    <3>1. journal \in Worlds /\ journal.bal \in [Accounts -> Nat] /\ block.beneficiary \in Accounts
      BY Typed DEF Worlds
    <3>2. CASE IsL1Msg(tx)
      BY <2>2, <2>3, <3>1, <3>2
    <3>3. CASE ~IsL1Msg(tx)
      BY <2>2, <2>3, <2>4, <3>1, <3>3, CreditWorld
    <3> QED BY <3>2, <3>3
  <2>6. Ledger!Collect
    BY <1>1, <1>2, <2>1, <2>5 DEF Ledger!Collect, LedgerPayer, LedgerHanded
  <2> QED BY <2>6 DEF LedgerStep, Ledger!Next
<1> QED BY <1>1, <1>3, <1>4

\* The transaction closes with an empty pot; a replay hands its balances out at once.
LEMMA ExecutionResultLedger ==
    ASSUME IInv, ExecutionResult
    PROVE  LedgerStep
<1>1. /\ pc = "execution_result" /\ pc' = "idle"
      /\ UNCHANGED <<tx, block, db, txStart, checkpoint>>
      /\ \/ returned' = journal /\ journal' = EmptyJournal
         \/ UNCHANGED <<returned, journal>>
  BY DEF ExecutionResult, envVars
<1>2. LedgerStage \in {"charged", "collected"} /\ Pot = 0 /\ LedgerBal = journal.bal
  BY <1>1 DEF LedgerStage, InTransaction, Pot, ChargedPhases, LedgerBal
<1>3. LedgerStage' = "closed" /\ Pot' = 0 /\ LedgerBal' = journal'.bal /\ LedgerPayer' = LedgerPayer
  BY <1>1 DEF LedgerStage, InTransaction, Pot, ChargedPhases, LedgerBal, LedgerPayer
<1>4. EmptyJournal.bal = db.bal /\ journal # NoState
  BY Typed, SlotWorld, WorldAssumption DEF EmptyJournal
<1>5. \/ LedgerHanded' = {journal.bal} /\ journal'.bal = db.bal
      \/ LedgerHanded' = LedgerHanded /\ journal'.bal = journal.bal
  BY <1>1, <1>4 DEF LedgerHanded
<1>6. Ledger!Close
  BY <1>1, <1>2, <1>3, <1>5 DEF Ledger!Close
<1> QED BY <1>6 DEF LedgerStep, Ledger!Next

\* An error aborts the transaction; that the journal goes back only in catch_error is hidden.
LEMMA ErrorLedger ==
    ASSUME IInv, DatabaseError \/ CatchError
    PROVE  LedgerStep
<1>1. UNCHANGED <<tx, block, db, txStart, checkpoint, returned>>
  BY DEF DatabaseError, CatchError, envVars
<1>2. CASE DatabaseError
  <2>1. pc' = "catch_error" /\ LedgerStage # "closed"
    BY <1>2 DEF DatabaseError, Reject, LedgerStage, InTransaction
  <2> QED BY <1>1, <2>1, Aborts
<1>3. CASE CatchError
  <2>1. pc = "catch_error" /\ pc' = "idle" /\ journal' = txStart
    BY <1>3 DEF CatchError
  <2>2. UNCHANGED <<LedgerStage, Pot, LedgerBal>>
    BY <1>1, <2>1 DEF LedgerStage, InTransaction, Pot, ChargedPhases, LedgerBal
  <2> QED BY <1>1, <2>2, Stutters DEF LedgerPayer, LedgerHanded
<1> QED BY <1>2, <1>3

\* Every step of the handler is a step of the ledger or leaves it alone.
LEMMA NextLedger ==
    ASSUME IInv, [Next]_vars
    PROVE  LedgerStep
<1>1. ASSUME UNCHANGED vars PROVE LedgerStep
  <2>1. UNCHANGED <<pc, l1_block_info, mode, tx, block, cfg, db, journal, txStart, checkpoint,
                    returned, gas>>
    BY <1>1 DEF vars, envVars, stateVars, gasVars
  <2>2. UNCHANGED <<LedgerBal, Pot, LedgerStage, LedgerPayer, LedgerHanded>>
    BY <2>1 DEF LedgerBal, Pot, LedgerStage, LedgerPayer, LedgerHanded, InTransaction, Pays,
       L1Fee, L1Cost, FeeInput, Price, Used, Spent
  <2> QED BY <2>1, <2>2, Stutters
<1>2. ASSUME NEW t \in Txs, TransactOne(t) PROVE LedgerStep
  BY <1>2, StartLedger DEF TransactOne
<1>3. ASSUME Replay PROVE LedgerStep
  BY <1>3, StartLedger DEF Replay, IInv, TypeOK
<1>4. ASSUME NEW t \in SystemCalls, SystemCall(t) PROVE LedgerStep
  BY <1>4, StartLedger DEF SystemCall
<1>5. ASSUME Interface PROVE LedgerStep
  BY <1>2, <1>3, <1>4, <1>5, IdleLedgerStep DEF Interface
<1>6. ASSUME Frame PROVE LedgerStep
  BY <1>6, FirstFrameLedger, RunningLedger, EndFrameLedger DEF Frame
<1>7. ASSUME Run PROVE LedgerStep
  BY <1>6, <1>7, ValidateLedger, DeductLedger, LoadAccountsLedger, GasLedger, ReimburseLedger,
     RewardLedger, ExecutionResultLedger, ErrorLedger DEF Run
<1> QED BY <1>1, <1>5, <1>7 DEF Next

\* The handler implements the fee ledger: a transaction is charged once, what is taken up front
\* is what reimburse_caller and reward_beneficiary pay out, a rejected transaction changes no
\* balance, and no decr_balance leaves an amount out silently.
THEOREM HandlerImplementsLedger == Spec => ImplementsLedger
<1>1. Init => Ledger!Init
  BY InitLedger
<1>2. IInv /\ [Next]_vars => [Ledger!Next]_(Ledger!vars)
  BY NextLedger DEF LedgerStep
<1>3. Spec => Ledger!Spec
  BY <1>1, <1>2, Invariant, PTL DEF Spec, Ledger!Spec
<1> QED BY <1>3 DEF ImplementsLedger

-----------------------------------------------------------------------------
(* The money: the sum of all balances and the pot, along the steps of the ledger *)

\* One changed balance changes the sum of the balances by as much.
LEMMA ChangedBalance ==
    ASSUME NEW f \in [Accounts -> Nat], NEW a \in Accounts, NEW d \in Int, f[a] + d \in Nat
    PROVE  /\ [f EXCEPT ![a] = @ + d] \in [Accounts -> Nat]
           /\ SumFunction(f) \in Int
           /\ SumFunction([f EXCEPT ![a] = @ + d]) = SumFunction(f) + d
<1> DEFINE h == [f EXCEPT ![a] = @ + d]
<1>1. h = [x \in Accounts |-> IF x = a THEN f[a] + d ELSE f[x]]
  OBVIOUS
<1>2. h \in [Accounts -> Nat] /\ h[a] = f[a] + d /\ \A x \in Accounts : x # a => h[x] = f[x]
  BY <1>1
<1> HIDE DEF h
<1>3. IsFiniteSet(Accounts) /\ f \in [Accounts -> Int] /\ h \in [Accounts -> Int]
  BY <1>2, TxAssumption
<1>4. SumFunction(f) \in Int /\ SumFunction(h) = SumFunction(f) + d
  BY <1>2, <1>3, SumChanges
<1> QED BY <1>2, <1>4 DEF h

\* The sum of balances is an integer.
LEMMA SumIsInt ==
    ASSUME NEW f \in [Accounts -> Nat], NEW a \in Accounts
    PROVE  SumFunction(f) \in Int
<1>1. f[a] \in Nat /\ 0 \in Int /\ f[a] + 0 \in Nat
  OBVIOUS
<1> QED BY <1>1, ChangedBalance

\* A move of the ledger keeps the sum.
LEMMA MovedSum ==
    ASSUME NEW f \in [Accounts -> Nat], NEW a \in Accounts, NEW b \in Accounts, NEW v \in 0 .. f[a]
    PROVE  Ledger!Moved(f, a, b, v) \in [Accounts -> Nat]
           /\ SumFunction(Ledger!Moved(f, a, b, v)) = SumFunction(f)
<1> DEFINE g == [f EXCEPT ![a] = @ + (-v)]
           h == [g EXCEPT ![b] = @ + v]
<1>1. f[a] \in Nat /\ v \in Nat /\ -v \in Int /\ f[a] + (-v) \in Nat /\ f[a] - v = f[a] + (-v)
  OBVIOUS
<1>2. g \in [Accounts -> Nat] /\ SumFunction(f) \in Int /\ SumFunction(g) = SumFunction(f) + (-v)
  BY <1>1, ChangedBalance
<1>3. g = [f EXCEPT ![a] = @ - v]
  BY <1>1
<1> HIDE DEF g
<1>4. v \in Int /\ g[b] + v \in Nat
  BY <1>1, <1>2
<1>5. h \in [Accounts -> Nat] /\ SumFunction(h) = SumFunction(g) + v
  <2>1. g \in [Accounts -> Nat]
    BY <1>2
  <2>2. v \in Int
    BY <1>4
  <2>3. g[b] + v \in Nat
    BY <1>4
  <2> QED BY <2>1, <2>2, <2>3, ChangedBalance, Zenon
<1>6. Ledger!Moved(f, a, b, v) = h
  BY <1>3 DEF Ledger!Moved
<1> HIDE DEF h
<1> QED BY <1>1, <1>2, <1>5, <1>6

Supply == SumFunction(InitialBalance)

\* What never changes is the sum with the pot; a set of balances that a step may go back to
\* (the start of the transaction, the frame's checkpoint, the database, the state handed out)
\* makes up the same sum with what the pot holds at that moment.
MoneyInv ==
    /\ Ledger!TypeOK
    /\ LedgerStage # "closed" => LedgerPayer \in Accounts
    /\ SumFunction(LedgerBal) + Pot = Supply
    /\ SumFunction(db.bal) = Supply
    /\ \A b \in LedgerHanded : SumFunction(b) = Supply
    /\ LedgerStage # "closed" => SumFunction(txStart.bal) = Supply
    /\ LedgerStage \in {"closed", "opened"} => Pot = 0
    /\ LedgerStage = "running" => SumFunction(checkpoint.bal) + Pot = Supply

\* The builder's context has no pot, and every set of balances is the initial one.
LEMMA InitMoney ==
    ASSUME Init
    PROVE  MoneyInv
<1>1. /\ journal.bal = InitialBalance /\ db.bal = InitialBalance
      /\ journal = txStart /\ journal = checkpoint /\ tx = NoTx /\ returned = NoState
      /\ block.beneficiary \in Accounts /\ InitialBalance \in [Accounts -> Nat]
  BY WorldAssumption, BlockAssumption DEF Init
<1>2. LedgerPayer = Nobody /\ LedgerHanded = {}
  BY <1>1 DEF LedgerPayer, LedgerHanded
<1>3. LedgerStage = "closed" /\ Pot = 0 /\ LedgerBal = journal.bal
  BY IdleLedger DEF Init
<1>4. Supply \in Int
  BY <1>1, SumIsInt DEF Supply
<1>5. Ledger!TypeOK
  BY <1>1, <1>2, <1>3 DEF Ledger!TypeOK, Ledger!Balances, Ledger!Stages
<1>6. /\ LedgerBal = InitialBalance /\ txStart.bal = InitialBalance
      /\ SumFunction(InitialBalance) = Supply
  BY <1>1, <1>3 DEF Supply
<1> QED BY <1>1, <1>2, <1>3, <1>4, <1>5, <1>6 DEF MoneyInv

\* The steps inside a transaction that move money: the charge, the value of the first frame, a
\* transfer, the refund and the reward.
LEMMA MovingMoney ==
    ASSUME MoneyInv,
           Ledger!Charge \/ Ledger!OpenFrame \/ Ledger!Transfer \/ Ledger!Refund \/ Ledger!Collect
    PROVE  MoneyInv'
<1>1. /\ LedgerBal \in [Accounts -> Nat] /\ Pot \in Nat /\ LedgerHanded \in SUBSET [Accounts -> Nat]
      /\ txStart.bal \in [Accounts -> Nat] /\ checkpoint.bal \in [Accounts -> Nat]
      /\ db.bal \in [Accounts -> Nat] /\ block.beneficiary \in Accounts
      /\ LedgerPayer \in Accounts /\ LedgerStage # "closed"
  BY DEF MoneyInv, Ledger!TypeOK, Ledger!Balances, Ledger!Charge, Ledger!OpenFrame,
         Ledger!Transfer, Ledger!Refund, Ledger!Collect
<1>2. SumFunction(LedgerBal) \in Int
  BY <1>1, SumIsInt
<1>3. /\ LedgerBal' \in [Accounts -> Nat] /\ Pot' \in Nat
      /\ SumFunction(LedgerBal') + Pot' = SumFunction(LedgerBal) + Pot
      /\ LedgerStage' \in {"charged", "running", "refunded", "collected"}
      /\ LedgerStage' = "running"
            => \/ checkpoint.bal' = LedgerBal /\ Pot' = Pot
               \/ LedgerStage = "running" /\ checkpoint.bal' = checkpoint.bal /\ Pot' = Pot
      /\ checkpoint.bal' \in [Accounts -> Nat]
      /\ UNCHANGED <<LedgerPayer, block.beneficiary, txStart.bal, db.bal, LedgerHanded>>
  <2>1. CASE Ledger!Charge
    <3>1. PICK v \in 0 .. LedgerBal[LedgerPayer] :
              LedgerBal' = [LedgerBal EXCEPT ![LedgerPayer] = @ - v] /\ Pot' = Pot + v
      BY <2>1 DEF Ledger!Charge
    <3>2. /\ LedgerBal[LedgerPayer] \in Nat /\ v \in Nat /\ -v \in Int
          /\ LedgerBal[LedgerPayer] + (-v) \in Nat
          /\ LedgerBal[LedgerPayer] - v = LedgerBal[LedgerPayer] + (-v)
      BY <1>1
    <3>3. LedgerBal' = [LedgerBal EXCEPT ![LedgerPayer] = @ + (-v)]
      BY <3>1, <3>2
    <3>4. LedgerBal' \in [Accounts -> Nat] /\ SumFunction(LedgerBal') = SumFunction(LedgerBal) + (-v)
      BY <1>1, <3>2, <3>3, ChangedBalance
    <3>5. SumFunction(LedgerBal') + Pot' = SumFunction(LedgerBal) + Pot /\ Pot' \in Nat
      BY <1>1, <1>2, <3>1, <3>2, <3>4
    <3>6. /\ LedgerStage' = "charged" /\ checkpoint.bal' = checkpoint.bal
          /\ UNCHANGED <<LedgerPayer, block.beneficiary, txStart.bal, db.bal, LedgerHanded>>
      BY <2>1 DEF Ledger!Charge
    <3> QED BY <1>1, <3>4, <3>5, <3>6
  <2>2. CASE Ledger!OpenFrame
    <3>1. PICK b \in Accounts, v \in 0 .. LedgerBal[LedgerPayer] :
              LedgerBal' = Ledger!Moved(LedgerBal, LedgerPayer, b, v)
      BY <2>2 DEF Ledger!OpenFrame
    <3>2. LedgerBal' \in [Accounts -> Nat] /\ SumFunction(LedgerBal') = SumFunction(LedgerBal)
      <4>1. /\ Ledger!Moved(LedgerBal, LedgerPayer, b, v) \in [Accounts -> Nat]
            /\ SumFunction(Ledger!Moved(LedgerBal, LedgerPayer, b, v)) = SumFunction(LedgerBal)
        BY <1>1, MovedSum, Zenon
      <4> QED BY <3>1, <4>1
    <3>3. /\ LedgerStage' = "running" /\ checkpoint.bal' = LedgerBal /\ Pot' = Pot
          /\ UNCHANGED <<LedgerPayer, block.beneficiary, txStart.bal, db.bal, LedgerHanded>>
      BY <2>2 DEF Ledger!OpenFrame
    <3> QED BY <1>1, <3>2, <3>3
  <2>3. CASE Ledger!Transfer
    <3>1. PICK a \in Accounts, b \in Accounts, v \in Nat :
              v \in 0 .. LedgerBal[a] /\ LedgerBal' = Ledger!Moved(LedgerBal, a, b, v)
      BY <2>3 DEF Ledger!Transfer
    <3>2. LedgerBal' \in [Accounts -> Nat] /\ SumFunction(LedgerBal') = SumFunction(LedgerBal)
      <4>1. LedgerBal \in [Accounts -> Nat] /\ v \in 0 .. LedgerBal[a]
        BY <1>1, <3>1
      <4>2. /\ Ledger!Moved(LedgerBal, a, b, v) \in [Accounts -> Nat]
            /\ SumFunction(Ledger!Moved(LedgerBal, a, b, v)) = SumFunction(LedgerBal)
        BY <4>1, MovedSum, Zenon
      <4> QED BY <3>1, <4>2
    <3>3. /\ LedgerStage = "running" /\ LedgerStage' = "running"
          /\ checkpoint.bal' = checkpoint.bal /\ Pot' = Pot
          /\ UNCHANGED <<LedgerPayer, block.beneficiary, txStart.bal, db.bal, LedgerHanded>>
      BY <2>3 DEF Ledger!Transfer
    <3> QED BY <1>1, <3>2, <3>3
  <2>4. CASE Ledger!Refund
    <3>1. PICK v \in 0 .. Pot :
              Pot' = Pot - v /\ LedgerBal' = [LedgerBal EXCEPT ![LedgerPayer] = @ + v]
      BY <2>4 DEF Ledger!Refund
    <3>2. v \in Int /\ v <= Pot /\ LedgerBal[LedgerPayer] + v \in Nat
      BY <1>1
    <3>3. LedgerBal' \in [Accounts -> Nat] /\ SumFunction(LedgerBal') = SumFunction(LedgerBal) + v
      BY <1>1, <3>1, <3>2, ChangedBalance
    <3>4. SumFunction(LedgerBal') + Pot' = SumFunction(LedgerBal) + Pot /\ Pot' \in Nat
      BY <1>1, <1>2, <3>1, <3>2, <3>3
    <3>5. /\ LedgerStage' = "refunded" /\ checkpoint.bal' = checkpoint.bal
          /\ UNCHANGED <<LedgerPayer, block.beneficiary, txStart.bal, db.bal, LedgerHanded>>
      BY <2>4 DEF Ledger!Refund
    <3> QED BY <1>1, <3>3, <3>4, <3>5
  <2>5. CASE Ledger!Collect
    <3>1. /\ Pot' = 0 /\ LedgerBal' = [LedgerBal EXCEPT ![block.beneficiary] = @ + Pot]
          /\ LedgerStage' = "collected" /\ checkpoint.bal' = checkpoint.bal
          /\ UNCHANGED <<LedgerPayer, block.beneficiary, txStart.bal, db.bal, LedgerHanded>>
      BY <2>5 DEF Ledger!Collect
    <3>2. Pot \in Int /\ LedgerBal[block.beneficiary] + Pot \in Nat
      BY <1>1
    <3>3. LedgerBal' \in [Accounts -> Nat] /\ SumFunction(LedgerBal') = SumFunction(LedgerBal) + Pot
      BY <1>1, <3>1, <3>2, ChangedBalance
    <3>4. SumFunction(LedgerBal') + Pot' = SumFunction(LedgerBal) + Pot /\ Pot' \in Nat
      BY <1>1, <1>2, <3>1, <3>3
    <3> QED BY <1>1, <3>1, <3>3, <3>4
  <2> QED BY <2>1, <2>2, <2>3, <2>4, <2>5
<1>4. Ledger!TypeOK'
  BY <1>1, <1>3 DEF Ledger!TypeOK, Ledger!Balances, Ledger!Stages
<1>5. LedgerPayer' \in Accounts /\ LedgerStage' \notin {"closed", "opened"}
  BY <1>1, <1>3
<1>6. /\ SumFunction(LedgerBal') + Pot' = Supply
      /\ SumFunction(db.bal') = Supply
      /\ \A b \in LedgerHanded' : SumFunction(b) = Supply
      /\ SumFunction(txStart.bal') = Supply
  BY <1>1, <1>3 DEF MoneyInv
<1>7. LedgerStage' = "running" => SumFunction(checkpoint.bal') + Pot' = Supply
  BY <1>3 DEF MoneyInv
<1>8. Supply' = Supply
  BY DEF Supply
<1> QED BY <1>4, <1>5, <1>6, <1>7, <1>8 DEF MoneyInv

\* The steps that open and close a transaction, go back to saved balances, hand the state out,
\* store it or change the collector.
LEMMA OtherMoney ==
    ASSUME MoneyInv, LedgerStep,
           ~(Ledger!Charge \/ Ledger!OpenFrame \/ Ledger!Transfer \/ Ledger!Refund \/ Ledger!Collect)
    PROVE  MoneyInv'
<1>1. /\ LedgerBal \in [Accounts -> Nat] /\ Pot \in Nat /\ LedgerHanded \in SUBSET [Accounts -> Nat]
      /\ txStart.bal \in [Accounts -> Nat] /\ checkpoint.bal \in [Accounts -> Nat]
      /\ db.bal \in [Accounts -> Nat] /\ block.beneficiary \in Accounts
      /\ LedgerPayer \in Accounts \cup {Nobody} /\ LedgerStage \in Ledger!Stages
  BY DEF MoneyInv, Ledger!TypeOK, Ledger!Balances
<1>2. Supply' = Supply /\ Supply \in Int
  <2>1. SumFunction(LedgerBal) \in Int
    BY <1>1, SumIsInt
  <2> QED BY <1>1, <2>1 DEF MoneyInv, Supply
<1>3. ASSUME NEW p \in Accounts, Ledger!Open(p) PROVE MoneyInv'
  <2>1. /\ LedgerStage = "closed" /\ LedgerStage' \in {"opened", "charged"}
        /\ LedgerPayer' = p /\ txStart.bal' = LedgerBal /\ checkpoint.bal' = LedgerBal
        /\ LedgerHanded' = {} /\ UNCHANGED <<LedgerBal, Pot, block.beneficiary, db.bal>>
    BY <1>3 DEF Ledger!Open
  <2>2. Ledger!TypeOK'
    BY <1>1, <2>1 DEF Ledger!TypeOK, Ledger!Balances, Ledger!Stages
  <2>3. Pot = 0 /\ SumFunction(LedgerBal) + Pot = Supply /\ SumFunction(db.bal) = Supply
    BY <2>1 DEF MoneyInv
  <2>4. SumFunction(LedgerBal) = Supply
    <3>1. SumFunction(LedgerBal) \in Int
      BY <1>1, SumIsInt
    <3> QED BY <2>3, <3>1
  <2> QED BY <1>2, <2>1, <2>2, <2>3, <2>4 DEF MoneyInv
<1>4. ASSUME Ledger!CloseFrame PROVE MoneyInv'
  <2>1. /\ LedgerStage = "running" /\ LedgerStage' = "charged"
        /\ LedgerBal' \in {LedgerBal, checkpoint.bal}
        /\ UNCHANGED <<Pot, LedgerPayer, block.beneficiary, txStart.bal, checkpoint.bal, db.bal,
                       LedgerHanded>>
    BY <1>4 DEF Ledger!CloseFrame
  <2>2. Ledger!TypeOK'
    BY <1>1, <2>1 DEF Ledger!TypeOK, Ledger!Balances, Ledger!Stages
  <2> QED BY <1>2, <2>1, <2>2 DEF MoneyInv
<1>5. ASSUME LedgerStage \in {"charged", "collected"} \/ LedgerStage = "closed", Pot = 0,
             LedgerStage' = "closed", LedgerHanded' = {LedgerBal}, LedgerBal' = db.bal,
             UNCHANGED <<Pot, LedgerPayer, block.beneficiary, txStart.bal, checkpoint.bal, db.bal>>
      PROVE  MoneyInv'
  <2>1. SumFunction(LedgerBal) = Supply /\ SumFunction(db.bal) = Supply
    <3>1. SumFunction(LedgerBal) \in Int
      BY <1>1, SumIsInt
    <3> QED BY <1>5, <3>1 DEF MoneyInv
  <2>2. Ledger!TypeOK'
    BY <1>1, <1>5 DEF Ledger!TypeOK, Ledger!Balances, Ledger!Stages
  <2>3. SumFunction(LedgerBal') + Pot' = Supply
    BY <1>2, <1>5, <2>1
  <2> QED BY <1>2, <1>5, <2>1, <2>2, <2>3 DEF MoneyInv
<1>6. ASSUME Ledger!Close PROVE MoneyInv'
  <2>1. /\ LedgerStage \in {"charged", "collected"} /\ Pot = 0 /\ LedgerStage' = "closed"
        /\ \/ UNCHANGED <<LedgerBal, LedgerHanded>>
           \/ LedgerHanded' = {LedgerBal} /\ LedgerBal' = db.bal
        /\ UNCHANGED <<Pot, LedgerPayer, block.beneficiary, txStart.bal, checkpoint.bal, db.bal>>
    BY <1>6 DEF Ledger!Close
  <2>2. CASE UNCHANGED <<LedgerBal, LedgerHanded>>
    <3>1. Ledger!TypeOK'
      BY <1>1, <2>1, <2>2 DEF Ledger!TypeOK, Ledger!Balances, Ledger!Stages
    <3> QED BY <1>2, <2>1, <2>2, <3>1 DEF MoneyInv
  <2> QED BY <1>5, <2>1, <2>2
<1>7. ASSUME Ledger!Abort PROVE MoneyInv'
  <2>1. /\ LedgerStage # "closed" /\ LedgerStage' = "closed"
        /\ LedgerBal' = txStart.bal /\ Pot' = 0
        /\ UNCHANGED <<LedgerPayer, block.beneficiary, txStart.bal, checkpoint.bal, db.bal,
                       LedgerHanded>>
    BY <1>7 DEF Ledger!Abort
  <2>2. Ledger!TypeOK'
    BY <1>1, <2>1 DEF Ledger!TypeOK, Ledger!Balances, Ledger!Stages
  <2>3. SumFunction(LedgerBal') + Pot' = Supply
    BY <1>2, <2>1 DEF MoneyInv
  <2> QED BY <1>2, <2>1, <2>2, <2>3 DEF MoneyInv
<1>8. ASSUME Ledger!HandOut PROVE MoneyInv'
  <2>1. /\ LedgerStage = "closed" /\ LedgerStage' = "closed" /\ Pot = 0
        /\ LedgerHanded' = {LedgerBal} /\ LedgerBal' = db.bal
        /\ UNCHANGED <<Pot, LedgerPayer, block.beneficiary, txStart.bal, checkpoint.bal, db.bal>>
    BY <1>8 DEF Ledger!HandOut, MoneyInv
  <2> QED BY <1>5, <2>1
<1>9. ASSUME Ledger!Store PROVE MoneyInv'
  <2>1. /\ LedgerStage = "closed" /\ LedgerStage' = "closed" /\ Pot = 0
        /\ LedgerBal' \in LedgerHanded /\ db.bal' = LedgerBal' /\ LedgerHanded' = {}
        /\ UNCHANGED <<Pot, LedgerPayer, block.beneficiary, txStart.bal, checkpoint.bal>>
    BY <1>9 DEF Ledger!Store, MoneyInv
  <2>2. Ledger!TypeOK'
    BY <1>1, <2>1 DEF Ledger!TypeOK, Ledger!Balances, Ledger!Stages
  <2>3. SumFunction(LedgerBal') = Supply
    BY <2>1 DEF MoneyInv
  <2>4. SumFunction(LedgerBal') + Pot' = Supply /\ SumFunction(db.bal') = Supply
    BY <1>2, <2>1, <2>3
  <2> QED BY <1>2, <2>1, <2>2, <2>4 DEF MoneyInv
<1>10. ASSUME NEW c \in Accounts, Ledger!NewCollector(c) PROVE MoneyInv'
  <2>1. /\ LedgerStage = "closed" /\ block.beneficiary' = c
        /\ UNCHANGED <<LedgerBal, Pot, LedgerStage, LedgerPayer, txStart.bal, checkpoint.bal,
                       db.bal, LedgerHanded>>
    BY <1>10 DEF Ledger!NewCollector
  <2>2. Ledger!TypeOK'
    BY <1>1, <2>1 DEF Ledger!TypeOK, Ledger!Balances, Ledger!Stages
  <2> QED BY <1>2, <2>1, <2>2 DEF MoneyInv
<1>11. ASSUME UNCHANGED Ledger!vars PROVE MoneyInv'
  <2>1. UNCHANGED <<LedgerBal, Pot, LedgerStage, LedgerPayer, block.beneficiary, txStart.bal,
                    checkpoint.bal, db.bal, LedgerHanded>>
    BY <1>11 DEF Ledger!vars
  <2>2. Ledger!TypeOK'
    BY <1>1, <2>1 DEF Ledger!TypeOK, Ledger!Balances, Ledger!Stages
  <2> QED BY <1>2, <2>1, <2>2 DEF MoneyInv
<1> QED BY <1>3, <1>4, <1>6, <1>7, <1>8, <1>9, <1>10, <1>11 DEF LedgerStep, Ledger!Next

\* No fee is created or lost: between the deduction from the caller and the reward of the
\* beneficiary, through refunds, reverted frames, rejected transactions, and the state that
\* replay or finalize hands out and commit stores, the balances and the pot make up the money
\* there was when the context was built.
THEOREM MoneyNeverChanges == Spec => []MoneyIsConserved
<1>1. Init => MoneyInv
  BY InitMoney
<1>2. IInv /\ MoneyInv /\ [Next]_vars => MoneyInv'
  BY NextLedger, MovingMoney, OtherMoney
<1>3. MoneyInv => MoneyIsConserved
  BY DEF MoneyInv, MoneyIsConserved, LedgerBal, Supply
<1> QED BY <1>1, <1>2, <1>3, Invariant, PTL DEF Spec

-----------------------------------------------------------------------------
(* The fee inputs: the handler composed with the formulas of L1Fee *)

\* From what a fork reads of the oracle its own formula lacks nothing: whether there is a fee
\* depends on what the transaction supplies.
LEMMA FormulaNeedsSupplies ==
    ASSUME PRECISION \in Nat,
           NEW v \in [Fees!Slots -> Fees!U256], NEW data \in Fees!TxData, NEW s \in ScrollSpecId
    PROVE  LET info == Fees!InfoFrom(v, s)
           IN  Fees!Formula(info, data, s).error = "none" <=>
                 /\ IsEnabledIn(s, FEYNMAN) /\ ~IsEnabledIn(s, GALILEO)
                       => data.ratio # None /\ data.ratio >= PRECISION
                 /\ IsEnabledIn(s, GALILEO)
                       => data.compressed # None /\ data.compressed <= Fees!Length(data)
<1> DEFINE info  == Fees!InfoFrom(v, s)
           curie == Fees!IsEnabledIn(s, Fees!CURIE)
           feynman == Fees!IsEnabledIn(s, Fees!FEYNMAN)
           galileo == Fees!IsEnabledIn(s, Fees!GALILEO)
<1>1. /\ feynman = IsEnabledIn(s, FEYNMAN) /\ galileo = IsEnabledIn(s, GALILEO)
      /\ galileo => feynman
      /\ feynman => curie
  BY DEF Fees!IsEnabledIn, IsEnabledIn, Fees!CURIE, Fees!FEYNMAN, Fees!GALILEO, FEYNMAN, GALILEO,
         ScrollSpecId
<1>2. None \notin Nat /\ UMAX \in Nat
  BY TxAssumption, GasAssumption
<1>3. \A slot \in Fees!Slots : v[slot] # None
  BY <1>2 DEF Fees!U256
<1>4. curie => info.l1_blob_base_fee # None /\ info.l1_commit_scalar # None /\ info.l1_blob_scalar # None
  BY <1>3 DEF Fees!InfoFrom, Fees!Slots
<1>5. curie => info.calldata_gas # None
  <2>1. v["l1_commit_scalar"] \in Nat /\ v["l1_base_fee"] \in Nat
    BY <1>2 DEF Fees!U256, Fees!Slots
  <2>2. Fees!SaturatingMul(v["l1_commit_scalar"], v["l1_base_fee"]) \in Nat
    BY <1>2, <2>1 DEF Fees!SaturatingMul
  <2> QED BY <1>2, <2>2 DEF Fees!InfoFrom
<1>6. feynman => info.penalty_threshold # None /\ info.penalty_factor # None
  BY <1>3 DEF Fees!InfoFrom, Fees!Slots
<1> HIDE DEF info, curie, feynman, galileo
<1>7. CASE ~curie
  <2>1. Fees!Formula(info, data, s) = Fees!ShanghaiFee(info, data)
    BY <1>7 DEF Fees!Formula, curie
  <2>2. Fees!Formula(info, data, s).error = "none"
    BY <2>1 DEF Fees!ShanghaiFee, Fees!Fee
  <2> QED BY <1>1, <1>7, <2>2 DEF info
<1>8. CASE curie /\ ~feynman
  <2>1. Fees!Formula(info, data, s) = Fees!CurieFee(info, data)
    BY <1>8 DEF Fees!Formula, curie, feynman
  <2>2. Fees!Formula(info, data, s).error = "none"
    BY <1>4, <1>5, <1>8, <2>1 DEF Fees!CurieFee, Fees!Fee, Fees!Present
  <2> QED BY <1>1, <1>8, <2>2 DEF info
<1>9. CASE feynman /\ ~galileo
  <2>1. Fees!Formula(info, data, s) = Fees!FeynmanFee(info, data)
    BY <1>1, <1>9 DEF Fees!Formula, curie, feynman, galileo
  <2>2. Fees!Present({info.l1_commit_scalar, info.l1_blob_scalar, info.l1_blob_base_fee,
                      info.penalty_threshold, info.penalty_factor})
    BY <1>1, <1>4, <1>6, <1>9 DEF Fees!Present
  <2>3. Fees!FeynmanFee(info, data).error = "none"
            <=> data.ratio # None /\ ~(data.ratio < PRECISION)
    BY <2>2 DEF Fees!FeynmanFee, Fees!Fee, Fees!FeeError
  <2>4. data.ratio # None => (~(data.ratio < PRECISION) <=> data.ratio >= PRECISION)
    BY DEF Fees!TxData, Fees!U256
  <2> QED BY <1>1, <1>9, <2>1, <2>3, <2>4 DEF info
<1>10. CASE galileo
  <2>1. Fees!Formula(info, data, s) = Fees!GalileoFee(info, data)
    BY <1>1, <1>10 DEF Fees!Formula, curie, feynman, galileo
  <2>2. Fees!Present({info.l1_commit_scalar, info.l1_blob_scalar, info.l1_blob_base_fee,
                      info.penalty_factor})
    BY <1>1, <1>4, <1>6, <1>10 DEF Fees!Present
  <2>3. Fees!GalileoFee(info, data).error = "none"
            <=> data.compressed # None /\ ~(data.compressed > Fees!Length(data))
    BY <2>2 DEF Fees!GalileoFee, Fees!Fee, Fees!FeeError
  <2>4. data.compressed # None
            => (~(data.compressed > Fees!Length(data)) <=> data.compressed <= Fees!Length(data))
    BY DEF Fees!TxData, Fees!Length
  <2> QED BY <1>1, <1>10, <2>1, <2>3, <2>4 DEF info
<1> QED BY <1>1, <1>7, <1>8, <1>9, <1>10

\* tx_l1_cost fails for a fetched L1BlockInfo exactly if the transaction does not supply what the
\* fork asks for.
LEMMA FeeNeedsSupplies ==
    ASSUME FeesComposed, NEW v \in OracleValues, NEW data \in DataSet, NEW s \in ScrollSpecId
    PROVE  <<TryFetch[<<v, s>>], data, s>> \in FeeDefined <=> Supplies(data, s)
<1> DEFINE info  == Fees!InfoFrom(v, s)
           input == <<info, data, s>>
<1>1. TryFetch[<<v, s>>] = info
  BY DEF FeesComposed, ComposedTryFetch
<1>2. info \in Infos
  BY <1>1, OracleAssumption
<1> HIDE DEF info
<1>3. input \in FeeDefined <=> TxL1CostOf(input).error = "none"
  BY <1>2 DEF FeesComposed, ComposedFeeDefined, FeeInputs
<1>4. CASE data = None
  BY <1>1, <1>3, <1>4 DEF TxL1CostOf, Fees!FeeError, Supplies
<1>5. CASE data # None
  <2>1. data \in Fees!TxData /\ v \in [Fees!Slots -> Fees!U256] /\ PRECISION \in Nat
    BY <1>5 DEF FeesComposed
  <2>2. TxL1CostOf(input) = Fees!TryCalculateTxL1Cost(info, data, s)
    BY <1>5 DEF TxL1CostOf
  <2>3. Fees!TryCalculateTxL1Cost(info, data, s).error = "none"
            <=> Fees!Formula(info, data, s).error = "none"
    BY DEF Fees!TryCalculateTxL1Cost, Fees!Fee
  <2>4. Fees!Formula(info, data, s).error = "none" <=> Supplies(data, s)
    BY <1>5, <2>1, FormulaNeedsSupplies DEF Supplies, info
  <2> QED BY <1>1, <1>3, <2>2, <2>3, <2>4
<1> QED BY <1>4, <1>5

\* The L1 fee that the deduction and the reward ask for is the fork's fee of the transaction.
LEMMA FetchedFeeNeedsSupplies ==
    ASSUME IInv, FeesComposed, tx # NoTx, NEW w \in Worlds, l1_block_info = Fetched(w)
    PROVE  L1CostOk <=> Supplies(tx.data, cfg.spec)
<1>1. OracleView(w) \in OracleValues
  BY DEF OracleView, Worlds, IInv, TypeOK
<1>2. tx.data \in DataSet /\ cfg.spec \in ScrollSpecId
  BY Typed, TxFields
<1>3. FeeInput = <<TryFetch[<<OracleView(w), cfg.spec>>], tx.data, cfg.spec>>
  BY DEF FeeInput, Fetched
<1> QED BY <1>1, <1>2, <1>3, FeeNeedsSupplies DEF L1CostOk

\* A run that was rejected for its L1 fee did not carry what its fork asks for.
RejectedForItsInputs ==
    (pc = "catch_error" /\ result.status = "L1FeeError") => ~Supplies(tx.data, cfg.spec)

\* The check whose error is reported has failed.
LEMMA ReportedCheckFailed ==
    ASSUME NEW checks \in CheckLists, FirstError(checks) # Ok
    PROVE  \E i \in DOMAIN checks : checks[i][1] /\ checks[i][2] = FirstError(checks)
<1>1. DOMAIN checks \subseteq Nat
  BY DEF CheckLists
<1>2. FirstError(checks) \in ErrorsOf(checks)
  BY <1>1, ReportedErrorIsAFailure
<1> QED BY <1>2, Zenon DEF ErrorsOf

\* The checks before TsukiV2 report the fee only when it cannot be computed ...
LEMMA L1FeeChecksForInputs ==
    ASSUME NEW w, L1FeeChecks(w) = "L1FeeError"
    PROVE  ~L1CostOk
<1> DEFINE c1 == ~L1CostOk
           c2 == L1Cost > w.bal[tx.caller]
           p  == <<c1, "L1FeeError">>
           q  == <<c2, "LackOfFundForMaxFee">>
           l  == <<p, q>>
<1>1. c1 \in BOOLEAN /\ c2 \in BOOLEAN
  OBVIOUS
<1>2. FirstError(l) = "L1FeeError"
  BY DEF L1FeeChecks
<1> HIDE DEF c1, c2
<1>3. p \in Checks /\ p[1] = c1 /\ q \in Checks /\ q[2] = "LackOfFundForMaxFee"
  BY <1>1 DEF Checks, Errors
<1> HIDE DEF p, q
<1>4. l \in CheckLists /\ DOMAIN l = 1 .. 2 /\ l[1] = p /\ l[2] = q
  BY <1>3 DEF CheckLists
<1> HIDE DEF l
<1>5. PICK i \in DOMAIN l : l[i][1] /\ l[i][2] = "L1FeeError"
  BY <1>2, <1>4, ReportedCheckFailed DEF Ok
<1>6. c1
  BY <1>3, <1>4, <1>5
<1> QED BY <1>6 DEF c1

\* ... and so do those from TsukiV2.
LEMMA CombinedChecksForInputs ==
    ASSUME NEW w, CombinedChecks(w) = "L1FeeError"
    PROVE  ~L1CostOk
<1> DEFINE c1 == ~L1CostOk
           c2 == MaxBalanceSpending(tx) > UMAX \/ MaxBalanceSpending(tx) + L1Cost > UMAX
           c3 == MaxBalanceSpending(tx) + L1Cost > w.bal[tx.caller]
           p  == <<c1, "L1FeeError">>
           q  == <<c2, "OverflowPayment">>
           r  == <<c3, "LackOfFundForMaxFee">>
           l  == <<p, q, r>>
<1>1. c1 \in BOOLEAN /\ c2 \in BOOLEAN /\ c3 \in BOOLEAN
  OBVIOUS
<1>2. FirstError(l) = "L1FeeError"
  BY DEF CombinedChecks
<1> HIDE DEF c1, c2, c3
<1>3. /\ p \in Checks /\ p[1] = c1 /\ q \in Checks /\ q[2] = "OverflowPayment"
      /\ r \in Checks /\ r[2] = "LackOfFundForMaxFee"
  BY <1>1 DEF Checks, Errors
<1> HIDE DEF p, q, r
<1>4. l \in CheckLists /\ DOMAIN l = 1 .. 3 /\ l[1] = p /\ l[2] = q /\ l[3] = r
  BY <1>3 DEF CheckLists
<1> HIDE DEF l
<1>5. PICK i \in DOMAIN l : l[i][1] /\ l[i][2] = "L1FeeError"
  BY <1>2, <1>4, ReportedCheckFailed DEF Ok
<1>6. c1
  BY <1>3, <1>4, <1>5
<1> QED BY <1>6 DEF c1

\* The mainnet deduction knows no L1 fee.
LEMMA MainnetDeductForOthers ==
    ASSUME NEW w
    PROVE  MainnetDeduct(w).error # "L1FeeError"
<1> DEFINE c1 == CallerHasCode(w)
           c2 == w.nonce[tx.caller] # tx.nonce
           c3 == MaxBalanceSpending(tx) > UMAX
           c4 == MaxBalanceSpending(tx) > w.bal[tx.caller]
           p  == <<c1, "RejectCallerWithCode">>
           q  == <<c2, "NonceMismatch">>
           r  == <<c3, "OverflowPayment">>
           z  == <<c4, "LackOfFundForMaxFee">>
           l  == <<p, q, r, z>>
           e  == FirstError(l)
<1>1. c1 \in BOOLEAN /\ c2 \in BOOLEAN /\ c3 \in BOOLEAN /\ c4 \in BOOLEAN
  BY DEF CallerHasCode
<1>2. MainnetDeduct(w).error = e
  <2> HIDE DEF e
  <2>1. MainnetDeduct(w) = IF e # Ok THEN Fail(e, w)
                    ELSE Pass(BumpCallNonce(DecrBalance(w, tx.caller, Price * tx.gasLimit)))
    BY DEF MainnetDeduct, e
  <2> QED BY <2>1 DEF Fail, Pass
<1> HIDE DEF c1, c2, c3, c4
<1>3. /\ p \in Checks /\ p[2] # "L1FeeError" /\ q \in Checks /\ q[2] # "L1FeeError"
      /\ r \in Checks /\ r[2] # "L1FeeError" /\ z \in Checks /\ z[2] # "L1FeeError"
  BY <1>1 DEF Checks, Errors
<1> HIDE DEF p, q, r, z
<1>4. l \in CheckLists /\ DOMAIN l = 1 .. 4 /\ l[1] = p /\ l[2] = q /\ l[3] = r /\ l[4] = z
  BY <1>3 DEF CheckLists
<1> HIDE DEF l
<1>5. ASSUME e = "L1FeeError" PROVE FALSE
  <2>1. PICK i \in DOMAIN l : l[i][1] /\ l[i][2] = "L1FeeError"
    BY <1>4, <1>5, ReportedCheckFailed DEF Ok
  <2> QED BY <1>3, <1>4, <2>1
<1> QED BY <1>2, <1>5

\* Nor do the checks of L1 messages.
LEMMA MessageChecksForOthers ==
    ASSUME NEW w
    PROVE  L1MessageChecks(w) # "L1FeeError"
<1> DEFINE c1 == ~IsEnabledIn(cfg.spec, EUCLID) /\ MaxBalanceSpending(tx) > UMAX
           c2 == ~IsEnabledIn(cfg.spec, EUCLID) /\ MaxBalanceSpending(tx) > w.bal[tx.caller]
           c3 == CallerHasCode(w)
           p  == <<c1, "OverflowPayment">>
           q  == <<c2, "LackOfFundForMaxFee">>
           r  == <<c3, "RejectCallerWithCode">>
           l  == <<p, q, r>>
<1>1. c1 \in BOOLEAN /\ c2 \in BOOLEAN /\ c3 \in BOOLEAN
  BY DEF CallerHasCode
<1>2. L1MessageChecks(w) = FirstError(l)
  BY DEF L1MessageChecks
<1> HIDE DEF c1, c2, c3
<1>3. /\ p \in Checks /\ p[2] # "L1FeeError" /\ q \in Checks /\ q[2] # "L1FeeError"
      /\ r \in Checks /\ r[2] # "L1FeeError"
  BY <1>1 DEF Checks, Errors
<1> HIDE DEF p, q, r
<1>4. l \in CheckLists /\ DOMAIN l = 1 .. 3 /\ l[1] = p /\ l[2] = q /\ l[3] = r
  BY <1>3 DEF CheckLists
<1> HIDE DEF l
<1>5. ASSUME FirstError(l) = "L1FeeError" PROVE FALSE
  <2>1. PICK i \in DOMAIN l : l[i][1] /\ l[i][2] = "L1FeeError"
    BY <1>4, <1>5, ReportedCheckFailed DEF Ok
  <2> QED BY <1>3, <1>4, <2>1
<1> QED BY <1>2, <1>5

\* The deduction is refused for the L1 fee only if it is charged and cannot be computed.
LEMMA DeductionForInputs ==
    ASSUME Deduction.error = "L1FeeError"
    PROVE  ~IsL1Msg(tx) /\ IsFeeCharged(tx) /\ ~L1CostOk
<1> DEFINE m == MainnetDeduct(journal)
<1>1. m.error # "L1FeeError"
  BY MainnetDeductForOthers
<1> HIDE DEF m
<1>2. ~IsL1Msg(tx)
  BY MessageChecksForOthers DEF Deduction, AdmitL1Message, Fail, Pass, Ok
<1>3. CASE IsEnabledIn(cfg.spec, TSUKI_V2)
  <2>1. IsFeeCharged(tx) /\ CombinedChecks(journal) = "L1FeeError"
    BY <1>1, <1>3, <1>2 DEF Deduction, ChargeFromTsukiV2, Fail, Pass, Ok, m
  <2> QED BY <1>2, <2>1, CombinedChecksForInputs
<1>4. CASE ~IsEnabledIn(cfg.spec, TSUKI_V2)
  <2>1. IsFeeCharged(tx) /\ L1FeeChecks(m.world) = "L1FeeError"
    BY <1>1, <1>4, <1>2 DEF Deduction, ChargeBeforeTsukiV2, Fail, Pass, Ok, m
  <2> QED BY <1>2, <2>1, L1FeeChecksForInputs
<1> QED BY <1>3, <1>4, <1>2

\* The steps that reject nothing.
LEMMA StepsWithoutRejection ==
    ASSUME Interface \/ PreExecution \/ LoadAccountsAndApplyAuths \/ Frame \/ LastFrameResult
           \/ Refund \/ Eip7623CheckGasFloor \/ ReimburseCaller \/ ExecutionResult \/ CatchError
    PROVE  pc' # "catch_error"
<1>1. ASSUME Interface PROVE pc' # "catch_error"
  BY <1>1 DEF Interface, TransactOne, Replay, SystemCall, Start, SetBlock, SetCfg, Finalize, Commit
<1>2. ASSUME Frame PROVE pc' # "catch_error"
  BY <1>2 DEF Frame, FirstFrame, SendValue, StoreOracle, FrameStep, EndFrame
<1>3. ASSUME PreExecution \/ LoadAccountsAndApplyAuths \/ LastFrameResult \/ Refund
             \/ Eip7623CheckGasFloor \/ ReimburseCaller \/ ExecutionResult \/ CatchError
      PROVE  pc' # "catch_error"
  BY <1>3 DEF PreExecution, LoadAccountsAndApplyAuths, LastFrameResult, Refund,
     Eip7623CheckGasFloor, ReimburseCaller, ExecutionResult, CatchError
<1> QED BY <1>1, <1>2, <1>3

\* The step that rejects a run for its L1 fee is the deduction (RewardCannotFail excludes the
\* reward), and it finds the fee fetched for this transaction and fork.
LEMMA RejectionsForInputs ==
    ASSUME IInv, FeesComposed, [Next]_vars, RejectedForItsInputs,
           pc' = "catch_error", result'.status = "L1FeeError"
    PROVE  ~Supplies(tx'.data, cfg'.spec)
<1>1. CASE Validate
  <2> DEFINE env == ValidateEnv(cfg, block, tx)
             ini == ValidateInitialTxGas(cfg, tx)
  <2>1. tx.type \in TxTypes
    BY <1>1, Typed, TxFields DEF Validate
  <2>2. /\ env \in {Ok} \cup EnvErrors
        /\ ini.error \in {Ok, "CallGasCostMoreThanGasLimit", "GasFloorMoreThanGasLimit"}
    BY <2>1, ValidateEnvErrors, InitialTxGasErrors
  <2> HIDE DEF env, ini
  <2>3. \/ result'.status = env
        \/ env = Ok /\ result'.status = ini.error
    BY <1>1 DEF Validate, Reject, env, ini
  <2> QED BY <2>2, <2>3 DEF EnvErrors, MessageErrors, TypeErrors, PriceErrors, Ok
<1>2. CASE ValidateAgainstStateAndDeductCaller
  <2>1. /\ pc = "deduct_caller" /\ tx # NoTx /\ mode # "system_call"
        /\ tx' = tx /\ cfg' = cfg /\ Deduction.error = "L1FeeError"
    BY <1>2 DEF ValidateAgainstStateAndDeductCaller, Deduction, Reject, envVars, IInv, GasLimitCovers,
       SystemCallPhases
  <2>2. ~IsL1Msg(tx) /\ IsFeeCharged(tx) /\ ~L1CostOk
    BY <2>1, DeductionForInputs
  <2>3. l1_block_info = Fetched(txStart) /\ txStart \in Worlds
    BY <2>1, <2>2, Typed DEF IInv, FeeInputsFetched, Pays
  <2> QED BY <2>1, <2>2, <2>3, FetchedFeeNeedsSupplies
<1>3. CASE RewardBeneficiary
  BY <1>3, Settling DEF RewardBeneficiary, Reject, IInv, FeeInputsChecked, Pays, SettlingPhases,
     IsFeeCharged
<1>4. CASE DatabaseError
  BY <1>4 DEF DatabaseError, Reject
<1>5. CASE UNCHANGED vars
  BY <1>5 DEF vars, envVars, RejectedForItsInputs
<1>6. ~(Interface \/ PreExecution \/ LoadAccountsAndApplyAuths \/ Frame \/ LastFrameResult
        \/ Refund \/ Eip7623CheckGasFloor \/ ReimburseCaller \/ ExecutionResult \/ CatchError)
  BY StepsWithoutRejection
<1> QED BY <1>1, <1>2, <1>3, <1>4, <1>5, <1>6 DEF Next, Run

\* Whether the fee can be computed is a matter of the transaction alone.
THEOREM FeesNeedOnlyTheTransaction ==
    ASSUME FeesComposed
    PROVE  Spec => []OnlyTheTransactionLacksInputs
<1>1. Init => RejectedForItsInputs
  BY DEF Init, RejectedForItsInputs
<1>2. IInv /\ RejectedForItsInputs /\ [Next]_vars => RejectedForItsInputs'
  BY RejectionsForInputs DEF RejectedForItsInputs
<1>3. IInv /\ RejectedForItsInputs => OnlyTheTransactionLacksInputs
  <2>1. ASSUME IInv, pc \in ChargedPhases, Pays, IsFeeCharged(tx)
        PROVE  Supplies(tx.data, cfg.spec)
    <3>1. tx # NoTx /\ txStart \in Worlds
      BY <2>1, Typed DEF ChargedPhases, Pays, IInv, GasLimitCovers
    <3>2. l1_block_info = Fetched(txStart) /\ L1CostOk
      BY <2>1 DEF IInv, FeeInputsFetched, FeeInputsChecked
    <3> QED BY <2>1, <3>1, <3>2, FetchedFeeNeedsSupplies
  <2> QED BY <2>1 DEF RejectedForItsInputs, OnlyTheTransactionLacksInputs
<1> QED BY <1>1, <1>2, <1>3, Invariant, PTL DEF Spec
================================================================================
