------------------------------ MODULE Blockhash ------------------------------
(***************************************************************************)
(* The BLOCKHASH instruction (blockhash and eip7709_history_sload in       *)
(* src/src/instructions.rs) with what it needs of the journal: whether the *)
(* history account and its slots are cached, and which are warm.  Frames,  *)
(* the journal and the system call that fills the history contract are     *)
(* revm's or the node's (external).                                        *)
(***************************************************************************)
EXTENDS ScrollSpecs, Sequences

CONSTANTS
    InitialSpecs,           \* the forks to look at
    HISTORY_SERVE_WINDOW,   \* slots of the history contract
    BLOCK_HASH_HISTORY,     \* how many blocks back BLOCKHASH serves
    BaseGas,                \* what the interpreter charges for the opcode
    WarmGas, ColdGas,       \* warm_storage_read_cost, cold_storage_additional_cost
    Gases,                  \* gas limits of frames
    MaxBlock, MaxDepth      \* bounds: the last block, and how deep frames nest

ASSUME BlockhashAssumption ==
    /\ InitialSpecs \subseteq ScrollSpecId
    /\ HISTORY_SERVE_WINDOW \in Nat \ {0}
    /\ BLOCK_HASH_HISTORY \in 1 .. HISTORY_SERVE_WINDOW
    /\ {BaseGas, WarmGas, ColdGas} \subseteq Nat /\ Gases \subseteq Nat
    /\ MaxBlock \in Nat \ {0} /\ MaxDepth \in Nat

Indices == 0 .. HISTORY_SERVE_WINDOW - 1

VARIABLES
    spec,
    number,         \* the current block
    storage,        \* the slots of the history contract
    cached,         \* whether the journal has the history account
    accountWarm,    \* whether it was loaded in this transaction
    slots,          \* its slots in the journal: absent, cold or warm
    listed,         \* its slots in the transaction's access list
    frames,         \* the open frames: gas left, and what was warm at the checkpoint
    last            \* the last answer

journalVars == <<cached, accountWarm, slots, listed>>
blockVars   == <<spec, number, storage>>
vars        == <<blockVars, journalVars, frames, last>>

\* The hash of block n, which is never the empty word 0, and the hash made up before Feynman.
Hash(n)             == n + 1
ComputeBlockHash(n) == - (n + 1)

NoAnswer == [block |-> 0, at |-> 0, value |-> 0]

\* Block 1 is about to run.
Init ==
    /\ spec \in InitialSpecs /\ number = 1
    /\ storage = [i \in Indices |-> IF i = 0 THEN Hash(0) ELSE 0]
    /\ cached = FALSE /\ accountWarm = FALSE
    /\ slots = [i \in Indices |-> "absent"] /\ listed = {}
    /\ frames = << >> /\ last = NoAnswer

Top           == frames[Len(frames)]
IsWarm(i)     == slots[i] = "warm" \/ i \in listed
WarmEntries   == {i \in Indices : slots[i] = "warm"}
TopWith(g)    == [frames EXCEPT ![Len(frames)].gas = g]
InFrame       == frames # << >>

-----------------------------------------------------------------------------
(* Transactions and frames (external) *)

\* The next block: its first act is the EIP-2935 system call.
NewBlock ==
    /\ ~InFrame /\ number < MaxBlock
    /\ number' = number + 1
    /\ storage' = [storage EXCEPT ![number % HISTORY_SERVE_WINDOW] = Hash(number)]
    /\ UNCHANGED <<spec, journalVars, frames, last>>

\* A transaction begins, on a journal that was kept (commit_tx) or emptied (finalize).
Begin(g, list, kept) ==
    /\ ~InFrame
    /\ cached' = (cached /\ kept) /\ accountWarm' = FALSE /\ listed' = list
    /\ slots' = [i \in Indices |-> IF kept /\ slots[i] # "absent" THEN "cold" ELSE "absent"]
    /\ frames' = <<[gas |-> g, slots |-> {}, accountWarm |-> FALSE]>>
    /\ UNCHANGED <<blockVars, last>>

OpenFrame(g) ==
    /\ InFrame /\ Len(frames) < MaxDepth /\ g <= Top.gas
    /\ frames' = Append(TopWith(Top.gas - g),
                        [gas |-> g, slots |-> WarmEntries, accountWarm |-> accountWarm])
    /\ UNCHANGED <<blockVars, journalVars, last>>

\* The frame ends and gives g back.
Pop(g) ==
    frames' = IF Len(frames) = 1 THEN << >>
              ELSE [SubSeq(frames, 1, Len(frames) - 1) EXCEPT ![Len(frames) - 1].gas = @ + g]

Return == InFrame /\ Pop(Top.gas) /\ UNCHANGED <<blockVars, journalVars, last>>

\* The frame's journal entries are undone; what it cached stays cached.
Undo ==
    /\ accountWarm' = Top.accountWarm
    /\ slots' = [i \in Indices |-> IF slots[i] = "warm" /\ i \notin Top.slots THEN "cold" ELSE slots[i]]
    /\ UNCHANGED <<blockVars, listed, last>>

Revert == InFrame /\ Pop(Top.gas) /\ Undo /\ UNCHANGED cached
Halt   == Pop(0) /\ Undo

\* A database error ends the transaction, and discard_tx takes back all of it but what is cached.
Fatal ==
    /\ frames' = << >> /\ accountWarm' = FALSE /\ listed' = {}
    /\ slots' = [i \in Indices |-> IF slots[i] = "warm" THEN "cold" ELSE slots[i]]
    /\ UNCHANGED <<blockVars, last>>

\* Another opcode loads the history account, BALANCE say.
TouchAccount ==
    /\ InFrame /\ Top.gas > 0
    /\ cached' = TRUE /\ accountWarm' = TRUE /\ frames' = TopWith(Top.gas - 1)
    /\ UNCHANGED <<blockVars, slots, listed, last>>

-----------------------------------------------------------------------------
(* BLOCKHASH *)

\* sload_skip_cold_load (external): a slot of an account that is not cached is always skipped.
SloadSkipped(i, skipCold) == ~cached \/ (skipCold /\ ~IsWarm(i))

\* Variant with a mistake: the account load of the fallback is not rolled back.
HistorySloadKeepingAccount(i, skipCold) ==
    [skipped  |-> skipCold /\ ~IsWarm(i),
     cached   |-> TRUE,
     account  |-> accountWarm \/ ~cached,
     slots    |-> IF skipCold /\ ~IsWarm(i) THEN slots ELSE [slots EXCEPT ![i] = "warm"]]

\* Variant with a mistake: the slot is warmed whether it can be paid for or not.
HistorySloadUnpaid(i, skipCold) ==
    [skipped  |-> FALSE, cached |-> TRUE, account |-> accountWarm,
     slots    |-> [slots EXCEPT ![i] = "warm"]]

\* eip7709_history_sload, but for database errors.  If the first attempt is skipped the account
\* is cached by a load that is rolled back at once, and the slot is tried again.
HistorySload(i, skipCold) ==
    LET first   == SloadSkipped(i, skipCold)
        skipped == IF first THEN skipCold /\ ~IsWarm(i) ELSE FALSE
    IN  [skipped  |-> skipped,
         cached   |-> TRUE,
         account  |-> accountWarm,
         slots    |-> IF skipped THEN slots ELSE [slots EXCEPT ![i] = "warm"]]

Answer(n, v) == last' = [block |-> n, at |-> number, value |-> v]

\* Future, current and too old blocks.
OutOfRange(n) ==
    /\ Top.gas >= BaseGas
    /\ n >= number \/ number - n > BLOCK_HASH_HISTORY
    /\ Answer(n, 0) /\ frames' = TopWith(Top.gas - BaseGas)
    /\ UNCHANGED <<blockVars, journalVars>>

InRange(n) == Top.gas >= BaseGas /\ n < number /\ number - n <= BLOCK_HASH_HISTORY

\* Before Feynman the hash is made up.
MadeUp(n) ==
    /\ InRange(n) /\ ~IsEnabledIn(spec, FEYNMAN)
    /\ Answer(n, ComputeBlockHash(n)) /\ frames' = TopWith(Top.gas - BaseGas)
    /\ UNCHANGED <<blockVars, journalVars>>

\* Variant with a mistake: the ring buffer is indexed by the distance to the current block.
IndexByDistance(n) == (number - n) % HISTORY_SERVE_WINDOW

Index(n) == n % HISTORY_SERVE_WINDOW

\* From Feynman, before TsukiV2: the account is loaded and the slot read for the base price.
LoadedFlat(n) ==
    /\ InRange(n) /\ IsEnabledIn(spec, FEYNMAN) /\ ~IsEnabledIn(spec, TSUKI_V2)
    /\ Answer(n, storage[Index(n)]) /\ frames' = TopWith(Top.gas - BaseGas)
    /\ cached' = TRUE /\ accountWarm' = TRUE /\ slots' = [slots EXCEPT ![Index(n)] = "warm"]
    /\ UNCHANGED <<blockVars, listed>>

\* From TsukiV2: SLOAD gas, with the cold part charged after the load that it allowed.
LoadedLikeSload(n) ==
    LET left == Top.gas - BaseGas - WarmGas
        r    == HistorySload(Index(n), left < ColdGas)
    IN  /\ InRange(n) /\ IsEnabledIn(spec, TSUKI_V2) /\ left >= 0 /\ ~r.skipped
        /\ Answer(n, storage[Index(n)])
        /\ frames' = TopWith(left - (IF IsWarm(Index(n)) THEN 0 ELSE ColdGas))
        /\ cached' = r.cached /\ accountWarm' = r.account /\ slots' = r.slots
        /\ UNCHANGED <<blockVars, listed>>

\* The opcode, or the warm part of SLOAD's price, cannot be paid.
OutOfGas(n) ==
    /\ \/ Top.gas < BaseGas
       \/ InRange(n) /\ IsEnabledIn(spec, TSUKI_V2) /\ Top.gas < BaseGas + WarmGas
    /\ Halt /\ UNCHANGED cached

\* The slot is cold and cannot be paid: found out twice, with the account loaded in between.
OutOfGasForSlot(n) ==
    LET left == Top.gas - BaseGas - WarmGas
        r    == HistorySload(Index(n), left < ColdGas)
    IN  /\ InRange(n) /\ IsEnabledIn(spec, TSUKI_V2) /\ left >= 0 /\ r.skipped
        /\ Halt /\ cached' = r.cached

\* What is not cached is read from the database, which may fail: for the account, or then for
\* the slot.
DatabaseError(n) ==
    LET left == Top.gas - BaseGas - WarmGas
    IN  /\ InRange(n) /\ IsEnabledIn(spec, FEYNMAN)
        /\ IsEnabledIn(spec, TSUKI_V2) => left >= 0
        /\ \/ ~cached /\ UNCHANGED cached
           \/ /\ slots[Index(n)] = "absent" /\ cached' = TRUE
              /\ IsEnabledIn(spec, TSUKI_V2) => ~HistorySload(Index(n), left < ColdGas).skipped
        /\ Fatal

BlockhashOp(n) ==
    /\ InFrame
    /\ \/ OutOfRange(n) \/ MadeUp(n) \/ LoadedFlat(n) \/ LoadedLikeSload(n)
       \/ OutOfGas(n) \/ OutOfGasForSlot(n) \/ DatabaseError(n)

-----------------------------------------------------------------------------
Next ==
    \/ NewBlock
    \/ \E g \in Gases, list \in SUBSET Indices, kept \in BOOLEAN : Begin(g, list, kept)
    \/ \E g \in Gases : OpenFrame(g)
    \/ Return \/ Revert \/ TouchAccount
    \/ \E n \in 0 .. MaxBlock : BlockhashOp(n)

Spec == Init /\ [][Next]_vars

-----------------------------------------------------------------------------
(* Properties *)

SlotStates == {"absent", "cold", "warm"}

\* The gas of a frame never goes below zero, and a slot is only in the journal with its account.
TypeOK ==
    /\ spec \in ScrollSpecId /\ number \in 1 .. MaxBlock
    /\ storage \in [Indices -> 0 .. MaxBlock + 1]
    /\ cached \in BOOLEAN /\ accountWarm \in BOOLEAN
    /\ slots \in [Indices -> SlotStates] /\ listed \in SUBSET Indices
    /\ frames \in Seq([gas : Nat, slots : SUBSET Indices, accountWarm : BOOLEAN])
    /\ \A i \in Indices : slots[i] # "absent" => cached
    /\ accountWarm => cached

\* From Feynman BLOCKHASH answers with the hash of the block asked for, for each of the last
\* BLOCK_HASH_HISTORY blocks: the ring buffer has not overwritten it.  Other blocks give 0.
ServesRecentHashes ==
    (last # NoAnswer /\ IsEnabledIn(spec, FEYNMAN)) =>
        last.value = IF last.block < last.at /\ last.at - last.block <= BLOCK_HASH_HISTORY
                     THEN Hash(last.block) ELSE 0

AbstractFrames ==
    [k \in DOMAIN frames |-> [gas     |-> frames[k].gas,
                              warm    |-> frames[k].slots \cup listed,
                              account |-> frames[k].accountWarm \/ listed # {}]]

EIP7709 == INSTANCE Eip7709 WITH
    Indices <- Indices, BaseGas <- BaseGas, WarmGas <- WarmGas, ColdGas <- ColdGas, Gases <- Gases,
    warm    <- {i \in Indices : IsWarm(i)},
    account <- accountWarm \/ listed # {},
    frames  <- AbstractFrames

\* From TsukiV2 BLOCKHASH is EIP-7709's: gas, warmth of the slot and of the account do not depend
\* on what the journal happens to have cached, a lookup warms its slot only if it is paid for,
\* never the account, and a reverted frame takes its warming back.
ImplementsEip7709 ==
    EIP7709!Init /\ [][IsEnabledIn(spec, TSUKI_V2) => EIP7709!Next]_(EIP7709!vars)
=============================================================================
