---------------------------- MODULE MCHandlerFees ----------------------------
(***************************************************************************)
(* A small instance of HandlerFees: the owner moves the EVM between forks  *)
(* with different formulas, and transactions may lack any of the inputs.   *)
(***************************************************************************)
EXTENDS MCScrollHandler, HandlerFees

\* The handler's fees are those of L1Fee in this instance.
ASSUME FeesAreComposed == FeesComposed

\* One fork of each formula.
MCForks == {MCCfg(spec) : spec \in {BERNOULLI, DARWIN, FEYNMAN, TSUKI_V2}}

\* A cheap oracle, and one with the penalties of Feynman and Galileo in force.
Cheap == [slot \in Fees!Slots |-> CASE slot = "l1_blob_base_fee"  -> 0
                                    [] slot = "penalty_threshold" -> 2
                                    [] OTHER                      -> 1]
Dear  == [slot \in Fees!Slots |-> IF slot = "penalty_threshold" THEN 4 ELSE 2]

FeeOracleValues == {Cheap, Dear}
FeeDefaultInfo  == Fees!DefaultL1BlockInfo
FeeInfos        == {FeeDefaultInfo} \cup Range(ComposedTryFetch)

\* What a transaction supplies: everything, something missing, or a ratio or size out of bounds.
Full       == [zeros |-> 1, nonzeros |-> 1, ratio |-> 2, compressed |-> 1]
NoRatio    == [Full EXCEPT !.ratio = None]
NoSize     == [Full EXCEPT !.compressed = None]
Inflated   == [Full EXCEPT !.ratio = 1, !.compressed = 3]
FeeDataSet == {None, Full, NoRatio, NoSize, Inflated}

FeeBalance == [MCBalance EXCEPT ![alice] = 31]

\* Two nonces for the rolled-up transactions, a message and a system transaction in between.
First     == [Call EXCEPT !.type = "legacy", !.prio = None, !.maxFee = 1, !.data = Full]
Second    == [First EXCEPT !.nonce = 1]
FeeTxs == {First, Second, [First EXCEPT !.data = NoRatio], [First EXCEPT !.data = NoSize],
           [First EXCEPT !.data = Inflated], [L1Message EXCEPT !.nonce = 0, !.data = None],
           [SystemTx EXCEPT !.data = None]}
FeeSystem == {[Probe EXCEPT !.data = None]}
=============================================================================
