---------------------------- MODULE ScrollOpcodes ----------------------------
(***************************************************************************)
(* The overridden opcodes besides BLOCKHASH (src/src/instructions.rs):     *)
(* BASEFEE, TSTORE, TLOAD, MCOPY, DIFFICULTY, CLZ and SELFDESTRUCT, in the *)
(* frames of a transaction.                                                *)
(*                                                                         *)
(* An opcode's operands are parameters of its action and what it pushes is *)
(* out; the operand stack itself is left out (a stack too short or too     *)
(* high is one more way to halt, like SELFDESTRUCT).  Frames, memory and   *)
(* the journal of transient storage are revm's (external).                 *)
(***************************************************************************)
EXTENDS ScrollSpecs, Sequences, SequencesExt

CONSTANTS
    Specs,              \* the forks to look at
    Addresses, Keys, Values,    \* of transient storage
    Operands,           \* of MCOPY and MSTORE8: offsets and lengths
    Bytes, WORD,        \* contents of memory, and bytes in a word
    USIZE_MAX, WordBits,
    StaticGas,          \* what the instruction table charges for an opcode
    CALL_GAS, COPY_GAS, MEMORY_GAS,
    GasLimit,
    MaxDepth, MaxRuns   \* bounds: how deep frames nest, and how many transactions there are

Opcodes == {"BASEFEE", "TSTORE", "TLOAD", "MCOPY", "DIFFICULTY", "CLZ", "SELFDESTRUCT", "MSTORE8"}

\* The gas of a memory of n words (external): linear, and quadratic far out.
MemoryGas(n) == MEMORY_GAS * n + (n * n) \div 4
NumWords(n)  == (n + WORD - 1) \div WORD

\* No gas limit pays for a memory of usize::MAX bytes: a size that saturates there is never
\* reached.
ASSUME OpcodeAssumption ==
    /\ Specs \subseteq ScrollSpecId
    /\ 0 \in Values /\ Values \subseteq Nat /\ 0 \in Bytes /\ Operands \subseteq Nat
    /\ {USIZE_MAX, WordBits, CALL_GAS, COPY_GAS, MEMORY_GAS, GasLimit, MaxDepth, MaxRuns} \subseteq Nat
    /\ WORD \in Nat \ {0} /\ StaticGas \in [Opcodes -> Nat]
    /\ MemoryGas(NumWords(USIZE_MAX)) > GasLimit

VARIABLES
    spec,
    transient,  \* the journal's transient storage
    undo,       \* the journal's entries for it, of this transaction
    frames,     \* the open frames
    out,        \* the last opcode, and what it pushed
    txs         \* how many transactions were started

vars == <<spec, transient, undo, frames, out, txs>>

Slots == Addresses \X Keys
Empty == [slot \in Slots |-> 0]
NoOut == [op |-> "none", value |-> 0]

Top           == frames[Len(frames)]
Replace(f)    == [frames EXCEPT ![Len(frames)] = f]
Open(a, static, g) == [target |-> a, static |-> static, remaining |-> g, memory |-> << >>,
                       checkpoint |-> Len(undo)]

Init ==
    /\ spec \in Specs /\ transient = Empty /\ undo = << >> /\ frames = << >>
    /\ out = NoOut /\ txs = 0

-----------------------------------------------------------------------------
(* Transactions, frames and the journal (external) *)

Begin(a) ==
    /\ frames = << >> /\ txs < MaxRuns /\ txs' = txs + 1
    /\ frames' = <<Open(a, FALSE, GasLimit)>> /\ out' = NoOut
    /\ UNCHANGED <<spec, transient, undo>>

\* A delegatecall runs the code of a in the name of its caller.
CallCode(a, scheme) ==
    /\ frames # << >> /\ Len(frames) < MaxDepth /\ Top.remaining >= CALL_GAS
    /\ frames' = Append(Replace([Top EXCEPT !.remaining = 0]),
                        Open(IF scheme = "delegatecall" THEN Top.target ELSE a,
                             Top.static \/ scheme = "staticcall", Top.remaining - CALL_GAS))
    /\ out' = NoOut /\ UNCHANGED <<spec, transient, undo, txs>>

\* checkpoint_revert undoes the entries since the checkpoint, the newest first: a slot is left
\* with what the oldest of its entries had.
UndoTo(n) ==
    [slot \in Slots |->
        LET since == {k \in n + 1 .. Len(undo) : undo[k].slot = slot}
        IN  IF since = {} THEN transient[slot] ELSE undo[Min(since)].had]

\* The frame ends; its caller gets the gas back.  commit_tx and discard_tx empty the storage
\* after the outermost frame.
Leave(storage, entries, gasBack) ==
    /\ frames # << >>
    /\ IF Len(frames) = 1
       THEN frames' = << >> /\ transient' = Empty /\ undo' = << >>
       ELSE /\ frames' = [Front(frames) EXCEPT ![Len(frames) - 1].remaining = @ + gasBack]
            /\ transient' = storage /\ undo' = entries
    /\ out' = NoOut /\ UNCHANGED <<spec, txs>>

Return == Leave(transient, undo, Top.remaining)
Revert == Leave(UndoTo(Top.checkpoint), SubSeq(undo, 1, Top.checkpoint), Top.remaining)
Halt   == Leave(UndoTo(Top.checkpoint), SubSeq(undo, 1, Top.checkpoint), 0)

-----------------------------------------------------------------------------
(* Opcodes *)

\* The frame after the interpreter has charged the opcode.
Charged(op) == [Top EXCEPT !.remaining = @ - StaticGas[op]]
Affordable(op) == frames # << >> /\ Top.remaining >= StaticGas[op]

\* op runs if allowed, leaves the frame f and pushes v; otherwise it halts.
Execute(op, allowed, f, v) ==
    /\ Affordable(op)
    /\ IF allowed
       THEN /\ frames' = Replace(f) /\ out' = [op |-> op, value |-> v]
            /\ UNCHANGED <<spec, transient, undo, txs>>
       ELSE Halt

OutOfGas == (\E op \in Opcodes : frames # << >> /\ ~Affordable(op)) /\ Halt

Selfdestruct == Execute("SELFDESTRUCT", FALSE, Top, 0)

\* What is pushed is the base fee of the block: any value stands for it.
Basefee == Execute("BASEFEE", IsEnabledIn(spec, CURIE), Charged("BASEFEE"), 1)

Difficulty == Execute("DIFFICULTY", TRUE, Charged("DIFFICULTY"), 0)

\* Variant with a mistake: static frames may store.
TstoreWhenStatic(k, v) ==
    LET slot == <<Top.target, k>>
    IN  /\ Affordable("TSTORE") /\ IsEnabledIn(spec, CURIE)
        /\ frames' = Replace(Charged("TSTORE"))
        /\ transient' = [transient EXCEPT ![slot] = v]
        /\ undo' = Append(undo, [slot |-> slot, had |-> transient[slot]])
        /\ out' = NoOut /\ UNCHANGED <<spec, txs>>

\* The journal gets an entry when the value changes.
Tstore(k, v) ==
    LET slot == <<Top.target, k>>
    IN  /\ Affordable("TSTORE")
        /\ IF IsEnabledIn(spec, CURIE) /\ ~Top.static
           THEN /\ frames' = Replace(Charged("TSTORE"))
                /\ transient' = [transient EXCEPT ![slot] = v]
                /\ undo' = IF transient[slot] = v THEN undo
                           ELSE Append(undo, [slot |-> slot, had |-> transient[slot]])
                /\ out' = NoOut /\ UNCHANGED <<spec, txs>>
           ELSE Halt

Tload(k) ==
    Execute("TLOAD", IsEnabledIn(spec, CURIE), Charged("TLOAD"), transient[<<Top.target, k>>])

\* U256::leading_zeros (external).
LeadingZeros(x) == Cardinality({b \in 0 .. WordBits - 1 : x < 2^b})
Clz(x) == Execute("CLZ", IsEnabledIn(spec, GALILEO), Charged("CLZ"), LeadingZeros(x))

-----------------------------------------------------------------------------
(* Memory *)

Max2(a, b) == IF a >= b THEN a ELSE b
Saturated(n) == IF n <= USIZE_MAX THEN n ELSE USIZE_MAX

\* resize_memory: what memory up to byte end costs more than what there is, and that memory.
Grown(m, end)      == m \o [i \in 1 .. NumWords(end) * WORD - Len(m) |-> 0]
ResizeGas(m, end)  == IF NumWords(end) * WORD <= Len(m) THEN 0
                      ELSE MemoryGas(NumWords(end)) - MemoryGas(NumWords(Len(m)))

\* SharedMemory::copy, which is copy_within.
CopyWithin(m, dst, src, len) ==
    [i \in DOMAIN m |-> IF i \in dst + 1 .. dst + len THEN m[i - dst + src] ELSE m[i]]

NoFrame == [remaining |-> None]

\* Variant with a mistake: no early return for a length of zero.
McopyResultWithoutReturn(f, dst, src, len) ==
    LET end == Saturated(Max2(dst, src) + len)
        gas == COPY_GAS * NumWords(len) + ResizeGas(f.memory, end)
    IN  IF {dst, src, len} \subseteq 0 .. USIZE_MAX /\ gas <= f.remaining
        THEN [f EXCEPT !.remaining = @ - gas, !.memory = CopyWithin(Grown(@, end), dst, src, len)]
        ELSE NoFrame

\* Variant with a mistake: the memory is grown before it is paid.
McopyResultUnpaid(f, dst, src, len) ==
    LET end    == Saturated(Max2(dst, src) + len)
        copied == COPY_GAS * NumWords(len)
    IN  IF len > USIZE_MAX \/ copied > f.remaining THEN NoFrame
        ELSE IF len = 0 THEN [f EXCEPT !.remaining = @ - copied]
        ELSE IF dst > USIZE_MAX \/ src > USIZE_MAX THEN NoFrame
        ELSE [f EXCEPT !.remaining = @ - copied - ResizeGas(f.memory, end),
                       !.memory = CopyWithin(Grown(@, end), dst, src, len)]

\* What mcopy makes of the frame f, NoFrame if it halts: the length, the gas for the copy, and
\* only then, unless there is nothing to copy, the two offsets and the gas for memory.
McopyResult(f, dst, src, len) ==
    LET end    == Saturated(Max2(dst, src) + len)
        copied == COPY_GAS * NumWords(len)
        resize == ResizeGas(f.memory, end)
    IN  IF len > USIZE_MAX \/ copied > f.remaining THEN NoFrame
        ELSE IF len = 0 THEN [f EXCEPT !.remaining = @ - copied]
        ELSE IF dst > USIZE_MAX \/ src > USIZE_MAX \/ copied + resize > f.remaining THEN NoFrame
        ELSE [f EXCEPT !.remaining = @ - copied - resize,
                       !.memory = CopyWithin(Grown(@, end), dst, src, len)]

Mcopy(dst, src, len) ==
    LET r == McopyResult(Charged("MCOPY"), dst, src, len)
    IN  Execute("MCOPY", IsEnabledIn(spec, CURIE) /\ r # NoFrame, r, 0)

\* MSTORE8 (external) fills memory.
Mstore8(at, byte) ==
    LET end    == Saturated(at + 1)
        resize == ResizeGas(Top.memory, end)
        f      == Charged("MSTORE8")
    IN  Execute("MSTORE8", at <= USIZE_MAX /\ resize <= f.remaining,
                [f EXCEPT !.remaining = @ - resize,
                          !.memory = [Grown(@, end) EXCEPT ![at + 1] = byte]], 0)

-----------------------------------------------------------------------------
Next ==
    \/ \E a \in Addresses : Begin(a)
    \/ \E a \in Addresses, scheme \in {"call", "staticcall", "delegatecall"} : CallCode(a, scheme)
    \/ Return \/ Revert \/ OutOfGas
    \/ Selfdestruct \/ Basefee \/ Difficulty
    \/ \E k \in Keys : Tload(k) \/ \E v \in Values : Tstore(k, v)
    \/ \E x \in Operands : Clz(x)
    \/ \E dst, src, len \in Operands : Mcopy(dst, src, len)
    \/ \E at \in Operands, byte \in Bytes : Mstore8(at, byte)

Spec == Init /\ [][Next]_vars

-----------------------------------------------------------------------------
(* Properties *)

\* Types; in particular the gas of a frame never goes below zero, whatever memory it asks for, and
\* an open frame's checkpoint is never beyond the journal.
TypeOK ==
    /\ spec \in Specs /\ transient \in [Slots -> Values]
    /\ undo \in Seq([slot : Slots, had : Values])
    /\ frames \in Seq([target : Addresses, static : BOOLEAN, remaining : 0 .. GasLimit,
                       memory : Seq(Bytes), checkpoint : 0 .. Len(undo)])
    /\ out.value \in Nat /\ txs \in 0 .. MaxRuns

\* MCOPY as EIP-5656 has it, over numbers without a width: memory is zero beyond its end, is
\* extended to cover both ranges unless the length is zero, and the bytes are read before any is
\* written.
Eip5656(f, dst, src, len) ==
    LET byte(i) == IF i \in DOMAIN f.memory THEN f.memory[i] ELSE 0
        old     == Len(f.memory) \div WORD
        new     == IF len = 0 THEN old ELSE Max2(old, NumWords(Max2(dst, src) + len))
        gas     == COPY_GAS * NumWords(len) + MemoryGas(new) - MemoryGas(old)
    IN  IF gas > f.remaining THEN NoFrame
        ELSE [f EXCEPT !.remaining = @ - gas,
                       !.memory = [i \in 1 .. new * WORD |->
                                     IF dst < i /\ i <= dst + len THEN byte(src + i - dst) ELSE byte(i)]]

\* In every frame that running code can produce and for all operands, beyond usize::MAX too, MCOPY
\* does what EIP-5656 says: the narrowing of the operands, their order and the early return for a
\* length of zero show neither in the result nor in the gas nor in what halts.
McopyIsEip5656 ==
    frames # << >> =>
        \A dst, src, len \in Operands :
            McopyResult(Top, dst, src, len) = Eip5656(Top, dst, src, len)

\* The storage as it was when frame i began.
AtBeginning(i) == UndoTo(frames[i].checkpoint)

\* The open frames and the last answer as EIP-1153 sees them.
OpenCalls  == [i \in DOMAIN frames |-> [owner |-> frames[i].target, static |-> frames[i].static,
                                        saved |-> AtBeginning(i)]]
LastAnswer == IF out.op = "TLOAD" THEN out.value ELSE None

EIP1153 == INSTANCE Eip1153 WITH
    NoAnswer <- None,
    storage  <- transient,
    calls    <- OpenCalls,
    answer   <- LastAnswer

\* TSTORE and TLOAD are EIP-1153's: whatever frames have failed, in whatever order, the journal's
\* entries lead back to the storage each open frame began with; nothing below a static call
\* stores; a delegatecall stores in the name of its caller; nothing outlives its transaction.
ImplementsEip1153 == EIP1153!Spec
=============================================================================
