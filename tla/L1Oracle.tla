------------------------------- MODULE L1Oracle -------------------------------
(***************************************************************************)
(* The L1 gas price oracle between the database, the journal and the       *)
(* L1BlockInfo of the chain context (src/src/l1block.rs, used by           *)
(* pre_execution in src/src/handler.rs).                                   *)
(*                                                                         *)
(* Transactions of a block write oracle slots; until the block is committed*)
(* they are in the journal only, and only those slots that were touched    *)
(* are.  try_fetch_from_journal puts the two together.                     *)
(***************************************************************************)
EXTENDS L1Fee

CONSTANTS
    InitialValues,      \* values a slot of the database may hold at first
    WriteValues,        \* values transactions write
    InitialSpecs,       \* forks the chain may be at
    DataSet,            \* the transactions a fee is asked for
    MaxTouches          \* bound: how many slots transactions read or write

ASSUME OracleAssumption ==
    /\ None \notin Nat
    /\ InitialValues \subseteq U256 /\ WriteValues \subseteq U256
    /\ InitialSpecs \subseteq ScrollSpecId
    /\ DataSet \subseteq TxData /\ \A data \in DataSet : Length(data) <= MaxSize
    /\ MaxTouches \in Nat

VARIABLES
    pc,                 \* "idle" between runs, "fetched" when pre_execution has the fee's inputs
    spec,               \* the fork
    db,                 \* the oracle's storage in the database
    journaled,          \* the slots the journal has loaded, None for the others
    l1_block_info,      \* ctx.chain.l1_block_info
    touches

vars == <<pc, spec, db, journaled, l1_block_info, touches>>

NotLoaded == [s \in Slots |-> None]

Init ==
    /\ pc = "idle" /\ spec \in InitialSpecs
    /\ db \in [Slots -> InitialValues] /\ journaled = NotLoaded
    /\ l1_block_info = DefaultL1BlockInfo
    /\ touches = 0

\* Variant with a mistake: the database is asked, whatever the journal holds.
DatabaseStorage(slot) == db[slot]

\* The closure of try_fetch_from_journal.
Storage(slot) == IF journaled[slot] # None THEN journaled[slot] ELSE db[slot]

-----------------------------------------------------------------------------
\* pre_execution of a fee-charged transaction: neither the journal nor what it holds of the
\* oracle changes.
FetchFromJournal ==
    /\ pc = "idle" /\ pc' = "fetched"
    /\ l1_block_info' = InfoFrom([s \in Slots |-> Storage(s)], spec)
    /\ UNCHANGED <<spec, db, journaled, touches>>

\* The transaction runs and stores v in a slot (external: SSTORE) ...
Store(slot, v) ==
    /\ pc = "fetched" /\ pc' = "idle" /\ touches < MaxTouches
    /\ journaled' = [journaled EXCEPT ![slot] = v]
    /\ touches' = touches + 1
    /\ UNCHANGED <<spec, db, l1_block_info>>

\* ... or reads one (external: SLOAD) ...
Load(slot) ==
    /\ pc = "fetched" /\ pc' = "idle" /\ touches < MaxTouches
    /\ journaled' = [journaled EXCEPT ![slot] = Storage(slot)]
    /\ touches' = touches + 1
    /\ UNCHANGED <<spec, db, l1_block_info>>

\* ... or leaves the oracle alone.
RunElsewhere ==
    /\ pc = "fetched" /\ pc' = "idle"
    /\ UNCHANGED <<spec, db, journaled, l1_block_info, touches>>

\* The block is committed, and the next one may be of a later fork.
CommitBlock ==
    /\ pc = "idle"
    /\ db' = [s \in Slots |-> Storage(s)] /\ journaled' = NotLoaded
    /\ spec' \in {s \in InitialSpecs : s >= spec}
    /\ UNCHANGED <<pc, l1_block_info, touches>>

\* The block is dropped: finalize without commit.
DropBlock ==
    /\ pc = "idle" /\ journaled' = NotLoaded
    /\ UNCHANGED <<pc, spec, db, l1_block_info, touches>>

Next ==
    \/ FetchFromJournal
    \/ \E s \in Slots : Load(s)
    \/ \E s \in Slots : \E v \in WriteValues : Store(s, v)
    \/ RunElsewhere
    \/ CommitBlock \/ DropBlock

Spec == Init /\ [][Next]_vars

-----------------------------------------------------------------------------
(* Properties *)

TypeOK ==
    /\ pc \in {"idle", "fetched"} /\ spec \in ScrollSpecId
    /\ db \in [Slots -> U256] /\ journaled \in [Slots -> U256 \cup {None}]
    /\ \A f \in DOMAIN l1_block_info : l1_block_info[f] \in U256 \cup {None}

(* The fee as the protocol describes it, in unbounded integers: the        *)
(* comments above the formulas, with o the oracle's contents.              *)

ExactPerByte(o) == o["l1_commit_scalar"] * o["l1_base_fee"] + o["l1_blob_scalar"] * o["l1_blob_base_fee"]

ExactShanghai(o, data) ==
    ((data.zeros * ZERO_BYTE_COST + data.nonzeros * NON_ZERO_BYTE_COST + o["l1_fee_overhead"]
        + TX_L1_COMMIT_EXTRA_COST) * o["l1_base_fee"] * o["l1_base_fee_scalar"]) \div PRECISION

ExactCurie(o, data) ==
    (o["l1_commit_scalar"] * o["l1_base_fee"]
       + o["l1_blob_scalar"] * Length(data) * o["l1_blob_base_fee"]) \div PRECISION

ExactFeynman(o, data) ==
    LET penalty == IF data.ratio >= o["penalty_threshold"] THEN PRECISION ELSE o["penalty_factor"]
    IN  (Length(data) * ExactPerByte(o) * penalty) \div (PRECISION * PRECISION)

ExactGalileo(o, data) ==
    LET base   == ExactPerByte(o) * data.compressed
        factor == IF o["penalty_factor"] = 0 THEN 1 ELSE o["penalty_factor"]
    IN  (base + (base * data.compressed) \div factor) \div PRECISION

\* Which inputs of the transaction a fork insists on.
Acceptable(data) ==
    CASE IsEnabledIn(spec, GALILEO) -> data.compressed # None /\ data.compressed <= Length(data)
      [] IsEnabledIn(spec, FEYNMAN) /\ ~IsEnabledIn(spec, GALILEO) ->
            data.ratio # None /\ data.ratio >= PRECISION
      [] OTHER -> TRUE

ExactFee(o, data) ==
    CASE IsEnabledIn(spec, GALILEO) -> ExactGalileo(o, data)
      [] IsEnabledIn(spec, FEYNMAN) /\ ~IsEnabledIn(spec, GALILEO) -> ExactFeynman(o, data)
      [] IsEnabledIn(spec, CURIE) /\ ~IsEnabledIn(spec, FEYNMAN) -> ExactCurie(o, data)
      [] OTHER -> ExactShanghai(o, data)

\* What an oracle slot holds for the transaction at hand.
Contents == [s \in Slots |-> IF journaled[s] = None THEN db[s] ELSE journaled[s]]

\* The fee of a transaction is the fork's exact fee for the oracle's contents as earlier
\* transactions left them, up to the cap: no saturation shows through, no oracle value the
\* formula needs was left out by the fetch, and only the transaction can be at fault for an
\* error.
FeeIsExactUpToCap ==
    pc = "fetched" =>
        \A data \in DataSet :
            LET r == TryCalculateTxL1Cost(l1_block_info, data, spec)
            IN  IF Acceptable(data)
                THEN r = Fee(AtMost(ExactFee(Contents, data), Cap(spec)))
                ELSE r.error # "none"

\* From Galileo a transaction that compresses better never pays more.
FeeGrowsWithSize ==
    (pc = "fetched" /\ IsEnabledIn(spec, GALILEO)) =>
        \A d1, d2 \in DataSet :
            LET fee(d) == TryCalculateTxL1Cost(l1_block_info, d, spec)
            IN  (Acceptable(d1) /\ Acceptable(d2) /\ d1.compressed <= d2.compressed)
                    => fee(d1).fee <= fee(d2).fee
=============================================================================
