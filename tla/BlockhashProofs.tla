----------------------------- MODULE BlockhashProofs -----------------------------
(***************************************************************************)
(* Theorems of Blockhash: the hashes BLOCKHASH serves, and that from       *)
(* TsukiV2 on it is EIP-7709's.                                            *)
(***************************************************************************)
EXTENDS Blockhash, SequenceTheorems, TLAPS

FrameRecords == [gas : Nat, slots : SUBSET Indices, accountWarm : BOOLEAN]

-----------------------------------------------------------------------------
(* The ring buffer *)

\* A block has one slot, and no other block of the window before it has the same.
LEMMA SlotsOfAWindow ==
    ASSUME NEW w \in Nat \ {0}, NEW a \in Nat, NEW b \in Nat, a < b, b < a + w
    PROVE  a % w # b % w
<1> DEFINE p == a \div w
           q == b \div w
<1>1. /\ p \in Int /\ q \in Int
      /\ a = w * p + (a % w) /\ b = w * q + (b % w)
  OBVIOUS
<1> HIDE DEF p, q
<1>2. ASSUME a % w = b % w PROVE FALSE
  <2>1. b - a = w * q - w * p
    BY <1>1, <1>2
  <2>2. b - a = w * (q - p)
    BY <1>1, <2>1
  <2> DEFINE d == q - p
  <2>3. d \in Int /\ 0 < w * d /\ w * d < w
    BY <1>1, <2>2
  <2> HIDE DEF d
  <2>4. CASE d <= 0
    BY <2>3, <2>4
  <2>5. CASE d >= 1
    <3>1. w * d >= w
      BY <2>3, <2>5
    <3> QED BY <2>3, <3>1
  <2> QED BY <2>3, <2>4, <2>5
<1> QED BY <1>2

\* An index is the index of a slot.
LEMMA IndexOfABlock ==
    ASSUME NEW n \in Nat
    PROVE  Index(n) \in Indices
BY BlockhashAssumption DEF Index, Indices

-----------------------------------------------------------------------------
(* The inductive invariant *)

\* A frame that was opened with the history account warm will be undone into a journal that
\* still has the account.
CachedInv == \A k \in DOMAIN frames : frames[k].accountWarm => cached

\* A checkpoint remembers slots that are still warm, a later one those of an earlier one.
CheckpointInv ==
    /\ \A k \in DOMAIN frames : frames[k].slots \subseteq WarmEntries
    /\ \A k, l \in DOMAIN frames : k <= l => frames[k].slots \subseteq frames[l].slots

\* The ring buffer has the hash of every block of the window.
RingInv ==
    \A m \in 0 .. number - 1 :
        number - m <= HISTORY_SERVE_WINDOW => storage[Index(m)] = Hash(m)

JournalInv == TypeOK /\ CachedInv /\ CheckpointInv

IInv == JournalInv /\ RingInv /\ ServesRecentHashes

\* The running frame.
LEMMA TopFrame ==
    ASSUME TypeOK, InFrame
    PROVE  /\ Len(frames) \in Nat \ {0} /\ DOMAIN frames = 1 .. Len(frames)
           /\ Len(frames) \in DOMAIN frames /\ Top \in FrameRecords
           /\ frames \in Seq(FrameRecords)
<1>1. frames \in Seq(FrameRecords) /\ frames # << >>
  BY DEF TypeOK, FrameRecords, InFrame
<1>2. Len(frames) \in Nat \ {0} /\ DOMAIN frames = 1 .. Len(frames) /\ Top \in FrameRecords
  BY <1>1 DEF Top
<1> QED BY <1>1, <1>2

\* No frame of fs is new, and none has another checkpoint than it had.
OldCheckpoints(fs) ==
    /\ fs \in Seq(FrameRecords) /\ DOMAIN fs \subseteq DOMAIN frames
    /\ \A k \in DOMAIN fs : fs[k].slots = frames[k].slots /\ fs[k].accountWarm = frames[k].accountWarm

\* Paying keeps the checkpoints.
LEMMA PayingKeepsCheckpoints ==
    ASSUME TypeOK, InFrame, NEW g \in Nat
    PROVE  /\ OldCheckpoints(TopWith(g)) /\ DOMAIN TopWith(g) = DOMAIN frames
           /\ Len(TopWith(g)) = Len(frames)
<1>1. /\ Len(frames) \in DOMAIN frames /\ frames \in Seq(FrameRecords) /\ Top \in FrameRecords
      /\ Len(frames) \in Nat /\ DOMAIN frames = 1 .. Len(frames)
  BY TopFrame
<1> DEFINE r == [Top EXCEPT !.gas = g]
<1>2. r \in FrameRecords /\ r.slots = Top.slots /\ r.accountWarm = Top.accountWarm
  BY <1>1 DEF FrameRecords
<1>3. TopWith(g) = [frames EXCEPT ![Len(frames)] = r]
  BY DEF TopWith, Top
<1> HIDE DEF r
<1>4. TopWith(g) \in Seq(FrameRecords) /\ DOMAIN TopWith(g) = DOMAIN frames
      /\ \A k \in DOMAIN frames : TopWith(g)[k] = IF k = Len(frames) THEN r ELSE frames[k]
  BY <1>1, <1>2, <1>3
<1>5. Len(TopWith(g)) = Len(frames)
  BY <1>1, <1>4
<1> QED BY <1>2, <1>4, <1>5 DEF OldCheckpoints, Top

\* So does the end of a frame.
LEMMA PoppingKeepsCheckpoints ==
    ASSUME TypeOK, InFrame, NEW g \in Nat, Pop(g)
    PROVE  OldCheckpoints(frames')
<1>1. /\ frames \in Seq(FrameRecords) /\ Len(frames) \in Nat \ {0}
      /\ DOMAIN frames = 1 .. Len(frames)
  BY TopFrame
<1>2. CASE Len(frames) = 1
  <2>1. frames' = << >>
    BY <1>2 DEF Pop
  <2> QED BY <2>1 DEF OldCheckpoints
<1>3. CASE Len(frames) # 1
  <2> DEFINE n     == Len(frames) - 1
             below == SubSeq(frames, 1, n)
             r     == [below[n] EXCEPT !.gas = @ + g]
  <2>1. /\ below \in Seq(FrameRecords) /\ DOMAIN below = 1 .. n /\ n \in DOMAIN below /\ n \in Nat
        /\ \A k \in 1 .. n : below[k] = frames[k]
    BY <1>1, <1>3
  <2>2. frames' = [below EXCEPT ![n] = r]
    BY <1>3 DEF Pop
  <2>3. below[n] \in FrameRecords
    BY <2>1
  <2>4. r \in FrameRecords /\ r.slots = below[n].slots /\ r.accountWarm = below[n].accountWarm
    <3>1. \A q \in FrameRecords :
            LET e == [q EXCEPT !.gas = @ + g]
            IN  e \in FrameRecords /\ e.slots = q.slots /\ e.accountWarm = q.accountWarm
      BY DEF FrameRecords
    <3> QED BY <2>3, <3>1
  <2> HIDE DEF below, r
  <2>5. /\ frames' \in Seq(FrameRecords) /\ DOMAIN frames' = 1 .. n
        /\ \A k \in 1 .. n : frames'[k] = IF k = n THEN r ELSE below[k]
    BY <2>1, <2>2, <2>4
  <2>6. DOMAIN frames' \subseteq DOMAIN frames
    <3>1. 1 .. n \subseteq 1 .. Len(frames)
      BY <1>1
    <3> HIDE DEF n
    <3> QED BY <1>1, <2>5, <3>1
  <2>7. ASSUME NEW k \in DOMAIN frames'
        PROVE  frames'[k].slots = frames[k].slots /\ frames'[k].accountWarm = frames[k].accountWarm
    <3>1. k \in 1 .. n /\ below[k] = frames[k]
      BY <2>1, <2>5, <2>7
    <3>2. k = n \/ k # n
      OBVIOUS
    <3> HIDE DEF n
    <3> QED BY <2>4, <2>5, <3>1, <3>2
  <2> QED BY <2>5, <2>6, <2>7 DEF OldCheckpoints
<1> QED BY <1>2, <1>3

\* While checkpoints stay and what they remember stays warm, the journal's invariant does.
LEMMA OldCheckpointsKeepInv ==
    ASSUME JournalInv, OldCheckpoints(frames'), cached => cached',
           \A k \in DOMAIN frames' : frames[k].slots \subseteq WarmEntries'
    PROVE  frames' \in Seq(FrameRecords) /\ CachedInv' /\ CheckpointInv'
<1>1. /\ DOMAIN frames' \subseteq DOMAIN frames
      /\ \A k \in DOMAIN frames' :
            frames'[k].slots = frames[k].slots /\ frames'[k].accountWarm = frames[k].accountWarm
  BY DEF OldCheckpoints
<1>2. CachedInv'
  BY <1>1 DEF JournalInv, CachedInv
<1>3. CheckpointInv'
  BY <1>1 DEF JournalInv, CheckpointInv
<1> QED BY <1>2, <1>3 DEF OldCheckpoints

-----------------------------------------------------------------------------
(* Every step keeps the journal's invariant *)

\* A transaction begins with nothing warm but its list.
LEMMA BeginKeepsJournalInv ==
    ASSUME JournalInv, NEW g \in Gases, NEW list \in SUBSET Indices, NEW kept \in BOOLEAN,
           Begin(g, list, kept)
    PROVE  JournalInv'
<1> DEFINE r == [gas |-> g, slots |-> {}, accountWarm |-> FALSE]
<1>1. /\ cached' = (cached /\ kept) /\ accountWarm' = FALSE /\ listed' = list
      /\ slots' = [i \in Indices |-> IF kept /\ slots[i] # "absent" THEN "cold" ELSE "absent"]
      /\ frames' = <<r>>
      /\ spec' = spec /\ number' = number /\ storage' = storage
  BY DEF Begin, blockVars
<1>2. r \in FrameRecords /\ r.slots = {} /\ r.accountWarm = FALSE
  BY BlockhashAssumption DEF FrameRecords
<1> HIDE DEF r
<1>3. frames' \in Seq(FrameRecords) /\ DOMAIN frames' = {1} /\ frames'[1] = r
  BY <1>1, <1>2
<1>4. \A i \in Indices : slots'[i] # "absent" => cached'
  BY <1>1 DEF JournalInv, TypeOK
<1>5. slots' \in [Indices -> SlotStates] /\ cached' \in BOOLEAN
  BY <1>1 DEF SlotStates, JournalInv, TypeOK
<1>6. TypeOK'
  BY <1>1, <1>3, <1>4, <1>5 DEF JournalInv, TypeOK, FrameRecords
<1>7. CachedInv' /\ CheckpointInv'
  BY <1>2, <1>3 DEF CachedInv, CheckpointInv
<1> QED BY <1>6, <1>7 DEF JournalInv

\* A frame is opened with what is warm as its checkpoint.
LEMMA OpenFrameKeepsJournalInv ==
    ASSUME JournalInv, NEW g \in Gases, OpenFrame(g)
    PROVE  JournalInv'
<1> DEFINE paid == TopWith(Top.gas - g)
           r    == [gas |-> g, slots |-> WarmEntries, accountWarm |-> accountWarm]
<1>1. /\ InFrame /\ g <= Top.gas /\ frames' = Append(paid, r)
      /\ spec' = spec /\ number' = number /\ storage' = storage
      /\ cached' = cached /\ accountWarm' = accountWarm /\ slots' = slots /\ listed' = listed
  BY DEF OpenFrame, blockVars, journalVars
<1>2. TypeOK /\ g \in Nat
  BY BlockhashAssumption DEF JournalInv
<1>3. Top.gas - g \in Nat
  BY <1>1, <1>2, TopFrame DEF FrameRecords
<1>4. /\ paid \in Seq(FrameRecords) /\ DOMAIN paid = DOMAIN frames /\ Len(paid) = Len(frames)
      /\ Len(frames) \in Nat /\ DOMAIN frames = 1 .. Len(frames)
      /\ \A k \in DOMAIN frames :
            paid[k].slots = frames[k].slots /\ paid[k].accountWarm = frames[k].accountWarm
  BY <1>1, <1>2, <1>3, PayingKeepsCheckpoints, TopFrame DEF OldCheckpoints
<1>5. r \in FrameRecords /\ r.slots = WarmEntries /\ r.accountWarm = accountWarm
  BY <1>2 DEF FrameRecords, WarmEntries, TypeOK
<1> HIDE DEF paid, r
<1>6. /\ frames' \in Seq(FrameRecords) /\ DOMAIN frames' = 1 .. Len(frames) + 1
      /\ \A k \in 1 .. Len(frames) : frames'[k] = paid[k]
      /\ frames'[Len(frames) + 1] = r
  BY <1>1, <1>4, <1>5
<1>7. WarmEntries' = WarmEntries
  BY <1>1 DEF WarmEntries
<1>8. TypeOK'
  BY <1>1, <1>2, <1>6 DEF TypeOK, FrameRecords
<1>9. ASSUME NEW k \in DOMAIN frames'
      PROVE  /\ frames'[k].accountWarm => cached'
             /\ frames'[k].slots \subseteq WarmEntries'
  <2>1. CASE k = Len(frames) + 1
    BY <1>1, <1>2, <1>5, <1>6, <1>7, <2>1 DEF TypeOK
  <2>2. CASE k # Len(frames) + 1
    <3>1. k \in 1 .. Len(frames)
      BY <1>4, <1>6, <2>2
    <3> QED BY <1>1, <1>4, <1>6, <1>7, <3>1 DEF JournalInv, CachedInv, CheckpointInv
  <2> QED BY <2>1, <2>2
<1>10. ASSUME NEW k \in DOMAIN frames', NEW l \in DOMAIN frames', k <= l
       PROVE  frames'[k].slots \subseteq frames'[l].slots
  <2>1. CASE l = Len(frames) + 1
    BY <1>5, <1>6, <1>7, <1>9, <2>1
  <2>2. CASE l # Len(frames) + 1
    <3>1. k \in 1 .. Len(frames) /\ l \in 1 .. Len(frames)
      BY <1>4, <1>6, <1>10, <2>2
    <3> QED BY <1>4, <1>6, <1>10, <3>1 DEF JournalInv, CheckpointInv
  <2> QED BY <2>1, <2>2
<1> QED BY <1>8, <1>9, <1>10 DEF JournalInv, CachedInv, CheckpointInv

\* A frame that ends well keeps what it warmed.
LEMMA ReturnKeepsJournalInv ==
    ASSUME JournalInv, Return
    PROVE  JournalInv'
<1>1. /\ InFrame /\ Pop(Top.gas)
      /\ spec' = spec /\ number' = number /\ storage' = storage
      /\ cached' = cached /\ accountWarm' = accountWarm /\ slots' = slots /\ listed' = listed
  BY DEF Return, blockVars, journalVars
<1>2. TypeOK /\ Top.gas \in Nat
  BY <1>1, TopFrame DEF JournalInv, FrameRecords
<1>3. OldCheckpoints(frames')
  BY <1>1, <1>2, PoppingKeepsCheckpoints
<1>4. WarmEntries' = WarmEntries
  BY <1>1 DEF WarmEntries
<1>5. \A k \in DOMAIN frames' : frames[k].slots \subseteq WarmEntries'
  BY <1>3, <1>4 DEF OldCheckpoints, JournalInv, CheckpointInv
<1>6. frames' \in Seq(FrameRecords) /\ CachedInv' /\ CheckpointInv'
  BY <1>1, <1>3, <1>5, OldCheckpointsKeepInv
<1>7. TypeOK'
  BY <1>1, <1>2, <1>6 DEF TypeOK, FrameRecords
<1> QED BY <1>6, <1>7 DEF JournalInv

\* Undoing a frame leaves warm exactly the slots of its checkpoint.
LEMMA UndoResult ==
    ASSUME JournalInv, InFrame, Undo
    PROVE  /\ slots' \in [Indices -> SlotStates] /\ accountWarm' = Top.accountWarm
           /\ WarmEntries' = Top.slots
           /\ \A i \in Indices : slots'[i] # "absent" => slots[i] # "absent"
           /\ listed' = listed
           /\ spec' = spec /\ number' = number /\ storage' = storage /\ last' = last
<1>1. /\ accountWarm' = Top.accountWarm
      /\ slots' = [i \in Indices |->
                      IF slots[i] = "warm" /\ i \notin Top.slots THEN "cold" ELSE slots[i]]
      /\ spec' = spec /\ number' = number /\ storage' = storage
      /\ listed' = listed /\ last' = last
  BY DEF Undo, blockVars
<1>2. slots \in [Indices -> SlotStates]
  BY DEF JournalInv, TypeOK
<1>3. \A i \in Indices :
        slots'[i] = IF slots[i] = "warm" /\ i \notin Top.slots THEN "cold" ELSE slots[i]
  BY <1>1
<1>4. \A i \in Indices : slots'[i] \in SlotStates
  BY <1>2, <1>3 DEF SlotStates
<1>5. slots' \in [Indices -> SlotStates]
  BY <1>1, <1>4
<1>6. Top.slots \subseteq WarmEntries
  <2>1. Len(frames) \in DOMAIN frames
    BY TopFrame DEF JournalInv
  <2> QED BY <2>1 DEF JournalInv, CheckpointInv, Top
<1>7. WarmEntries' = Top.slots
  BY <1>3, <1>6 DEF WarmEntries
<1>8. \A i \in Indices : slots'[i] # "absent" => slots[i] # "absent"
  BY <1>3
<1> QED BY <1>1, <1>5, <1>7, <1>8

\* A frame that fails takes back what it warmed, and the checkpoints below still hold.
LEMMA UndoKeepsJournalInv ==
    ASSUME JournalInv, InFrame, NEW g \in Nat, Pop(g), Undo,
           cached' \in BOOLEAN, cached => cached'
    PROVE  JournalInv'
<1>1. /\ slots' \in [Indices -> SlotStates] /\ accountWarm' = Top.accountWarm
      /\ WarmEntries' = Top.slots
      /\ \A i \in Indices : slots'[i] # "absent" => slots[i] # "absent"
      /\ listed' = listed
      /\ spec' = spec /\ number' = number /\ storage' = storage
  BY UndoResult
<1>2. TypeOK
  BY DEF JournalInv
<1>3. OldCheckpoints(frames')
  BY <1>2, PoppingKeepsCheckpoints
<1>4. /\ Len(frames) \in DOMAIN frames /\ DOMAIN frames = 1 .. Len(frames) /\ Top \in FrameRecords
      /\ Top.accountWarm => cached
  BY <1>2, TopFrame DEF JournalInv, CachedInv, Top
<1>5. \A k \in DOMAIN frames' : frames[k].slots \subseteq WarmEntries'
  <2>1. \A k \in DOMAIN frames : frames[k].slots \subseteq frames[Len(frames)].slots
    BY <1>4 DEF JournalInv, CheckpointInv
  <2> QED BY <1>1, <1>3, <2>1 DEF OldCheckpoints, Top
<1>6. frames' \in Seq(FrameRecords) /\ CachedInv' /\ CheckpointInv'
  BY <1>1, <1>3, <1>5, OldCheckpointsKeepInv
<1>7. TypeOK'
  BY <1>1, <1>2, <1>4, <1>6 DEF TypeOK, FrameRecords
<1> QED BY <1>6, <1>7 DEF JournalInv

\* A failing database leaves no frame, and nothing warm.
LEMMA FatalKeepsJournalInv ==
    ASSUME JournalInv, Fatal, cached' \in BOOLEAN, cached => cached'
    PROVE  JournalInv'
<1>1. /\ frames' = << >> /\ accountWarm' = FALSE /\ listed' = {}
      /\ slots' = [i \in Indices |-> IF slots[i] = "warm" THEN "cold" ELSE slots[i]]
      /\ spec' = spec /\ number' = number /\ storage' = storage
  BY DEF Fatal, blockVars
<1>2. frames' \in Seq(FrameRecords) /\ DOMAIN frames' = {}
  BY <1>1
<1>3. \A i \in Indices : slots'[i] \in SlotStates /\ (slots'[i] # "absent" => slots[i] # "absent")
  BY <1>1 DEF JournalInv, TypeOK, SlotStates
<1>4. slots' \in [Indices -> SlotStates]
  BY <1>1, <1>3
<1>5. TypeOK'
  BY <1>1, <1>2, <1>3, <1>4 DEF JournalInv, TypeOK, FrameRecords
<1> QED BY <1>2, <1>5 DEF JournalInv, CachedInv, CheckpointInv

\* A step of the running frame that pays, and that may warm the account or a slot, but has then
\* cached the account.
Warming(g, i) ==
    /\ frames' = TopWith(g)
    /\ cached' \in BOOLEAN /\ accountWarm' \in BOOLEAN
    /\ cached => cached'
    /\ accountWarm' => accountWarm \/ cached'
    /\ slots' = slots \/ (slots' = [slots EXCEPT ![i] = "warm"] /\ cached')
    /\ spec' = spec /\ number' = number /\ storage' = storage /\ listed' = listed

\* Such a step keeps the invariant.
LEMMA WarmingKeepsJournalInv ==
    ASSUME JournalInv, InFrame, NEW g \in Nat, NEW i \in Indices, Warming(g, i)
    PROVE  JournalInv'
<1>1. TypeOK
  BY DEF JournalInv
<1>2. OldCheckpoints(frames')
  BY <1>1, PayingKeepsCheckpoints DEF Warming
<1>3. /\ slots' \in [Indices -> SlotStates]
      /\ \A j \in Indices : slots'[j] # "absent" => slots[j] # "absent" \/ cached'
      /\ WarmEntries \subseteq WarmEntries'
  <2>1. CASE slots' = slots
    BY <1>1, <2>1 DEF TypeOK, WarmEntries
  <2>2. CASE slots' = [slots EXCEPT ![i] = "warm"] /\ cached'
    BY <1>1, <2>2 DEF TypeOK, WarmEntries, SlotStates
  <2> QED BY <2>1, <2>2 DEF Warming
<1>4. \A k \in DOMAIN frames' : frames[k].slots \subseteq WarmEntries'
  BY <1>2, <1>3 DEF OldCheckpoints, JournalInv, CheckpointInv
<1>5. frames' \in Seq(FrameRecords) /\ CachedInv' /\ CheckpointInv'
  BY <1>2, <1>4, OldCheckpointsKeepInv DEF Warming
<1>6. TypeOK'
  BY <1>1, <1>3, <1>5 DEF TypeOK, FrameRecords, Warming
<1> QED BY <1>5, <1>6 DEF JournalInv

\* What a lookup from TsukiV2 on leaves of the gas, and what it warms.  Whether the account was
\* cached makes no difference: a slot that cannot be paid for is skipped either way.
LEMMA HistorySloadResult ==
    ASSUME JournalInv, NEW i \in Indices, NEW skipCold \in BOOLEAN
    PROVE  LET r == HistorySload(i, skipCold)
           IN  /\ r.skipped = (skipCold /\ ~IsWarm(i))
               /\ r.cached = TRUE /\ r.account = accountWarm
               /\ ~r.skipped => r.slots = [slots EXCEPT ![i] = "warm"]
BY DEF HistorySload, SloadSkipped, IsWarm

\* BLOCKHASH keeps the invariant, in any fork.
LEMMA BlockhashOpKeepsJournalInv ==
    ASSUME JournalInv, NEW n \in 0 .. MaxBlock, BlockhashOp(n)
    PROVE  JournalInv'
<1>1. InFrame /\ TypeOK
  BY DEF BlockhashOp, JournalInv
<1>2. Top.gas \in Nat /\ BaseGas \in Nat /\ WarmGas \in Nat /\ ColdGas \in Nat
  BY <1>1, TopFrame, BlockhashAssumption DEF FrameRecords
<1>3. Index(n) \in Indices
  BY IndexOfABlock
<1>4. CASE OutOfRange(n) \/ MadeUp(n)
  <2>1. Top.gas >= BaseGas /\ frames' = TopWith(Top.gas - BaseGas)
        /\ UNCHANGED <<blockVars, journalVars>>
    BY <1>4 DEF OutOfRange, MadeUp, InRange
  <2>2. Warming(Top.gas - BaseGas, Index(n)) /\ Top.gas - BaseGas \in Nat
    BY <1>1, <1>2, <2>1 DEF Warming, blockVars, journalVars, TypeOK
  <2> QED BY <1>1, <1>3, <2>2, WarmingKeepsJournalInv
<1>5. CASE LoadedFlat(n)
  <2>1. Warming(Top.gas - BaseGas, Index(n)) /\ Top.gas - BaseGas \in Nat
    BY <1>1, <1>2, <1>5 DEF LoadedFlat, InRange, Warming, blockVars
  <2> QED BY <1>1, <1>3, <2>1, WarmingKeepsJournalInv
<1>6. CASE LoadedLikeSload(n)
  <2> DEFINE left == Top.gas - BaseGas - WarmGas
             cold == left < ColdGas
             r    == HistorySload(Index(n), cold)
             g    == left - (IF IsWarm(Index(n)) THEN 0 ELSE ColdGas)
  <2>1. /\ left >= 0 /\ ~r.skipped /\ frames' = TopWith(g)
        /\ cached' = r.cached /\ accountWarm' = r.account /\ slots' = r.slots
        /\ UNCHANGED <<blockVars, listed>>
    BY <1>6 DEF LoadedLikeSload
  <2>2. /\ r.skipped = (cold /\ ~IsWarm(Index(n)))
        /\ r.cached = TRUE /\ r.account = accountWarm
        /\ ~r.skipped => r.slots = [slots EXCEPT ![Index(n)] = "warm"]
    <3> HIDE DEF left
    <3>1. cold \in BOOLEAN
      OBVIOUS
    <3> HIDE DEF cold
    <3> QED BY <1>3, <3>1, HistorySloadResult
  <2> HIDE DEF r
  <2>3. g \in Nat
    <3>0. ~(cold /\ ~IsWarm(Index(n)))
      <4> HIDE DEF cold
      <4> QED BY <2>1, <2>2, Zenon
    <3>1. left \in Nat /\ (~IsWarm(Index(n)) => left >= ColdGas)
      BY <1>2, <2>1, <3>0
    <3> HIDE DEF left
    <3>2. CASE IsWarm(Index(n))
      BY <3>1, <3>2
    <3>3. CASE ~IsWarm(Index(n))
      BY <1>2, <3>1, <3>3
    <3> QED BY <3>2, <3>3
  <2>4. Warming(g, Index(n))
    BY <1>1, <2>1, <2>2 DEF Warming, blockVars, TypeOK
  <2> QED BY <1>1, <1>3, <2>3, <2>4, WarmingKeepsJournalInv
<1>7. CASE OutOfGas(n) \/ OutOfGasForSlot(n)
  <2>1. CASE OutOfGas(n)
    <3>1. Pop(0) /\ Undo /\ cached' = cached
      BY <2>1 DEF OutOfGas, Halt
    <3>2. cached' \in BOOLEAN /\ (cached => cached')
      BY <1>1, <3>1 DEF TypeOK
    <3> QED BY <1>1, <3>1, <3>2, UndoKeepsJournalInv
  <2>2. CASE OutOfGasForSlot(n)
    <3>1. Pop(0) /\ Undo /\ cached' = TRUE
      BY <2>2 DEF OutOfGasForSlot, Halt, HistorySload
    <3>2. cached' \in BOOLEAN /\ (cached => cached')
      BY <3>1
    <3> QED BY <1>1, <3>1, <3>2, UndoKeepsJournalInv
  <2> QED BY <1>7, <2>1, <2>2
<1>8. CASE DatabaseError(n)
  <2>1. Fatal /\ (cached' = cached \/ cached' = TRUE)
    BY <1>8 DEF DatabaseError
  <2>2. CASE cached' = cached
    <3>1. cached' \in BOOLEAN
      BY <1>1, <2>2 DEF TypeOK
    <3> QED BY <2>1, <2>2, <3>1, FatalKeepsJournalInv
  <2>3. CASE cached' = TRUE
    BY <2>1, <2>3, FatalKeepsJournalInv
  <2> QED BY <2>1, <2>2, <2>3
<1> QED BY <1>4, <1>5, <1>6, <1>7, <1>8 DEF BlockhashOp

\* The first block finds an empty journal.
LEMMA InitEstablishesJournalInv == Init => JournalInv
<1> SUFFICES ASSUME Init PROVE JournalInv
  OBVIOUS
<1>1. /\ spec \in ScrollSpecId /\ number = 1 /\ cached = FALSE /\ accountWarm = FALSE /\ listed = {}
      /\ storage = [i \in Indices |-> IF i = 0 THEN Hash(0) ELSE 0]
      /\ slots = [i \in Indices |-> "absent"] /\ frames = << >>
  BY BlockhashAssumption DEF Init
<1>2. number \in 1 .. MaxBlock /\ 0 .. MaxBlock + 1 \subseteq Nat /\ {0, 1} \subseteq 0 .. MaxBlock + 1
  BY <1>1, BlockhashAssumption
<1>3. storage \in [Indices -> 0 .. MaxBlock + 1]
  BY <1>1, <1>2 DEF Hash
<1>4. frames \in Seq(FrameRecords) /\ DOMAIN frames = {}
  BY <1>1
<1>5. TypeOK
  BY <1>1, <1>2, <1>3, <1>4 DEF TypeOK, SlotStates, FrameRecords
<1> QED BY <1>4, <1>5 DEF JournalInv, CachedInv, CheckpointInv

\* A new block finds the journal as the last one left it.
LEMMA NewBlockKeepsJournalInv ==
    ASSUME JournalInv, NewBlock
    PROVE  JournalInv'
<1>1. /\ number < MaxBlock /\ number' = number + 1
      /\ storage' = [storage EXCEPT ![number % HISTORY_SERVE_WINDOW] = Hash(number)]
      /\ spec' = spec /\ frames' = frames
      /\ cached' = cached /\ accountWarm' = accountWarm /\ slots' = slots /\ listed' = listed
  BY DEF NewBlock, journalVars
<1>2. number \in Nat /\ number' \in 1 .. MaxBlock /\ Hash(number) \in 0 .. MaxBlock + 1
  BY <1>1, BlockhashAssumption DEF JournalInv, TypeOK, Hash
<1>3. storage' \in [Indices -> 0 .. MaxBlock + 1]
  BY <1>1, <1>2 DEF JournalInv, TypeOK
<1> QED BY <1>1, <1>2, <1>3 DEF JournalInv, TypeOK, CachedInv, CheckpointInv, WarmEntries

\* Every step keeps the journal's invariant.
LEMMA NextKeepsJournalInv == JournalInv /\ [Next]_vars => JournalInv'
<1> SUFFICES ASSUME JournalInv, [Next]_vars PROVE JournalInv'
  OBVIOUS
<1>1. CASE NewBlock
  BY <1>1, NewBlockKeepsJournalInv
<1>2. ASSUME NEW g \in Gases, NEW list \in SUBSET Indices, NEW kept \in BOOLEAN,
             Begin(g, list, kept)
      PROVE  JournalInv'
  BY <1>2, BeginKeepsJournalInv
<1>3. ASSUME NEW g \in Gases, OpenFrame(g) PROVE JournalInv'
  BY <1>3, OpenFrameKeepsJournalInv
<1>4. CASE Return
  BY <1>4, ReturnKeepsJournalInv
<1>5. CASE Revert
  <2>1. InFrame /\ Pop(Top.gas) /\ Undo /\ Top.gas \in Nat /\ cached' = cached
    BY <1>5, TopFrame DEF Revert, JournalInv, FrameRecords
  <2>2. cached' \in BOOLEAN /\ (cached => cached')
    BY <2>1 DEF JournalInv, TypeOK
  <2> QED BY <2>1, <2>2, UndoKeepsJournalInv
<1>6. CASE TouchAccount
  <2>1. 0 \in Indices
    BY BlockhashAssumption DEF Indices
  <2>2. InFrame /\ Top.gas - 1 \in Nat
    BY <1>6, TopFrame DEF TouchAccount, JournalInv, FrameRecords
  <2>3. Warming(Top.gas - 1, 0)
    BY <1>6 DEF TouchAccount, Warming, blockVars
  <2> QED BY <2>1, <2>2, <2>3, WarmingKeepsJournalInv
<1>7. ASSUME NEW n \in 0 .. MaxBlock, BlockhashOp(n) PROVE JournalInv'
  BY <1>7, BlockhashOpKeepsJournalInv
<1>8. CASE UNCHANGED vars
  BY <1>8 DEF vars, blockVars, journalVars, JournalInv, TypeOK, CachedInv, CheckpointInv, WarmEntries
<1> QED BY <1>1, <1>2, <1>3, <1>4, <1>5, <1>6, <1>7, <1>8 DEF Next

-----------------------------------------------------------------------------
(* The answers *)

\* A new block overwrites the slot of the block that leaves the window.
LEMMA NewBlockKeepsRing ==
    ASSUME TypeOK, RingInv, NewBlock
    PROVE  RingInv'
<1>1. /\ number \in Nat /\ number' = number + 1 /\ storage \in [Indices -> 0 .. MaxBlock + 1]
      /\ storage' = [storage EXCEPT ![Index(number)] = Hash(number)]
  BY DEF NewBlock, TypeOK, Index
<1>2. ASSUME NEW m \in 0 .. number, number' - m <= HISTORY_SERVE_WINDOW
      PROVE  storage'[Index(m)] = Hash(m)
  <2>1. Index(m) \in Indices /\ Index(number) \in Indices
    BY <1>1, IndexOfABlock
  <2>2. CASE m = number
    BY <1>1, <2>1, <2>2
  <2>3. CASE m # number
    <3>1. m \in Nat /\ m < number /\ number < m + HISTORY_SERVE_WINDOW
      BY <1>1, <1>2, <2>3, BlockhashAssumption
    <3>2. Index(m) # Index(number)
      BY <1>1, <3>1, SlotsOfAWindow, BlockhashAssumption DEF Index
    <3>3. storage[Index(m)] = Hash(m)
      BY <1>1, <3>1, BlockhashAssumption DEF RingInv
    <3> QED BY <1>1, <2>1, <3>2, <3>3
  <2> QED BY <2>2, <2>3
<1>3. 0 .. number' - 1 = 0 .. number
  BY <1>1
<1> QED BY <1>2, <1>3 DEF RingInv, Index

\* Steps that do not begin a block leave the ring alone.
LEMMA OthersKeepRing ==
    ASSUME RingInv, number' = number, storage' = storage
    PROVE  RingInv'
BY DEF RingInv, Index

\* What BLOCKHASH answers from Feynman on.
LEMMA AnswerIsTheHash ==
    ASSUME TypeOK, RingInv, NEW n \in 0 .. MaxBlock, BlockhashOp(n),
           IsEnabledIn(spec, FEYNMAN), last' # last
    PROVE  last'.value = IF last'.block < last'.at /\ last'.at - last'.block <= BLOCK_HASH_HISTORY
                         THEN Hash(last'.block) ELSE 0
<1>1. n \in Nat /\ number \in Nat
  BY DEF TypeOK
<1>2. CASE OutOfRange(n)
  <2>1. last' = [block |-> n, at |-> number, value |-> 0]
    BY <1>2 DEF OutOfRange, Answer
  <2>2. ~(n < number /\ number - n <= BLOCK_HASH_HISTORY)
    BY <1>1, <1>2, BlockhashAssumption DEF OutOfRange
  <2> QED BY <2>1, <2>2
<1>3. CASE LoadedFlat(n) \/ LoadedLikeSload(n)
  <2>1. InRange(n) /\ last' = [block |-> n, at |-> number, value |-> storage[Index(n)]]
    BY <1>3 DEF LoadedFlat, LoadedLikeSload, Answer
  <2>2. n < number /\ number - n <= BLOCK_HASH_HISTORY
    BY <2>1 DEF InRange
  <2>3. storage[Index(n)] = Hash(n)
    BY <1>1, <2>2, BlockhashAssumption DEF RingInv
  <2> QED BY <2>1, <2>2, <2>3
<1>4. CASE OutOfGas(n) \/ OutOfGasForSlot(n) \/ DatabaseError(n)
  BY <1>4 DEF OutOfGas, OutOfGasForSlot, Halt, Undo, DatabaseError, Fatal
<1>5. ~MadeUp(n)
  BY DEF MadeUp
<1> QED BY <1>2, <1>3, <1>4, <1>5 DEF BlockhashOp

\* Every step keeps the ring and the answers.
LEMMA NextKeepsAnswers ==
    JournalInv /\ RingInv /\ ServesRecentHashes /\ [Next]_vars => RingInv' /\ ServesRecentHashes'
<1> SUFFICES ASSUME JournalInv, RingInv, ServesRecentHashes, [Next]_vars
             PROVE  RingInv' /\ ServesRecentHashes'
  OBVIOUS
<1>1. CASE NewBlock
  <2>1. spec' = spec /\ last' = last
    BY <1>1 DEF NewBlock
  <2> QED BY <1>1, <2>1, NewBlockKeepsRing DEF ServesRecentHashes, JournalInv
<1>2. ASSUME NEW n \in 0 .. MaxBlock, BlockhashOp(n) PROVE RingInv' /\ ServesRecentHashes'
  <2>1. spec' = spec /\ number' = number /\ storage' = storage
    BY <1>2 DEF BlockhashOp, OutOfRange, MadeUp, LoadedFlat, LoadedLikeSload, OutOfGas,
                OutOfGasForSlot, Halt, Undo, DatabaseError, Fatal, blockVars
  <2>2. RingInv'
    BY <2>1, OthersKeepRing
  <2>3. CASE last' = last
    BY <2>1, <2>2, <2>3 DEF ServesRecentHashes
  <2>4. CASE last' # last
    <3>1. IsEnabledIn(spec, FEYNMAN) =>
            last'.value = IF last'.block < last'.at /\ last'.at - last'.block <= BLOCK_HASH_HISTORY
                          THEN Hash(last'.block) ELSE 0
      BY <1>2, <2>4, AnswerIsTheHash DEF JournalInv
    <3> QED BY <2>1, <2>2, <3>1 DEF ServesRecentHashes
  <2> QED BY <2>3, <2>4
<1>3. ASSUME \/ \E g \in Gases, list \in SUBSET Indices, kept \in BOOLEAN : Begin(g, list, kept)
             \/ \E g \in Gases : OpenFrame(g)
             \/ Return \/ Revert \/ TouchAccount \/ UNCHANGED vars
      PROVE  RingInv' /\ ServesRecentHashes'
  <2>1. spec' = spec /\ number' = number /\ storage' = storage /\ last' = last
    BY <1>3 DEF Begin, OpenFrame, Return, Revert, Undo, TouchAccount, vars, blockVars
  <2> QED BY <2>1, OthersKeepRing DEF ServesRecentHashes
<1> QED BY <1>1, <1>2, <1>3 DEF Next

-----------------------------------------------------------------------------
(* Theorems *)

\* The invariant holds in every reachable state.
LEMMA Inductive == Spec => []IInv
<1>1. Init => IInv
  <2> SUFFICES ASSUME Init PROVE IInv
    OBVIOUS
  <2>1. RingInv
    <3>1. number = 1 /\ storage = [i \in Indices |-> IF i = 0 THEN Hash(0) ELSE 0]
      BY DEF Init
    <3>2. 0 \in Indices /\ Index(0) = 0
      BY BlockhashAssumption DEF Indices, Index
    <3> QED BY <3>1, <3>2 DEF RingInv
  <2>2. ServesRecentHashes
    BY DEF Init, ServesRecentHashes
  <2> QED BY <2>1, <2>2, InitEstablishesJournalInv DEF IInv
<1>2. IInv /\ [Next]_vars => IInv'
  BY NextKeepsJournalInv, NextKeepsAnswers DEF IInv
<1> QED BY <1>1, <1>2, PTL DEF Spec

\* Whatever BLOCKHASH is asked for, no frame's gas goes below zero and no slot is in the journal
\* without its account.
THEOREM JournalIsConsistent == Spec => []TypeOK
<1>1. IInv => TypeOK
  BY DEF IInv, JournalInv
<1> QED BY <1>1, Inductive, PTL

\* From Feynman on BLOCKHASH answers with the hash of each of the last BLOCK_HASH_HISTORY blocks,
\* and with 0 for others.
THEOREM RecentHashesAreServed == Spec => []ServesRecentHashes
<1>1. IInv => ServesRecentHashes
  BY DEF IInv
<1> QED BY <1>1, Inductive, PTL

-----------------------------------------------------------------------------
(* EIP-7709 *)

AFrameRecords == [gas : Nat, warm : SUBSET Indices, account : BOOLEAN]

\* What a frame is to EIP-7709: the transaction's list was warm at its checkpoint.
AFrame(r)   == [gas |-> r.gas, warm |-> r.slots \cup listed, account |-> r.accountWarm \/ listed # {}]
AFrames(fs) == [k \in DOMAIN fs |-> AFrame(fs[k])]

\* A frame as EIP-7709 sees it.
LEMMA AFrameResult ==
    ASSUME TypeOK, NEW r \in FrameRecords
    PROVE  /\ AFrame(r) \in AFrameRecords
           /\ AFrame(r).gas = r.gas /\ AFrame(r).warm = r.slots \cup listed
           /\ AFrame(r).account = (r.accountWarm \/ listed # {})
<1> DEFINE a == r.accountWarm \/ listed # {}
<1>1. a \in BOOLEAN
  OBVIOUS
<1>2. r.gas \in Nat /\ r.slots \cup listed \in SUBSET Indices
  BY DEF TypeOK, FrameRecords
<1>3. AFrame(r) = [gas |-> r.gas, warm |-> r.slots \cup listed, account |-> a]
  BY DEF AFrame
<1> HIDE DEF a
<1>4. /\ AFrame(r) \in AFrameRecords
      /\ AFrame(r).gas = r.gas /\ AFrame(r).warm = r.slots \cup listed /\ AFrame(r).account = a
  BY <1>1, <1>2, <1>3 DEF AFrameRecords
<1> QED BY <1>4 DEF a

\* Frames as EIP-7709 sees them: as many, in the same order.
LEMMA AFramesResult ==
    ASSUME TypeOK, NEW fs \in Seq(FrameRecords)
    PROVE  /\ AFrames(fs) \in Seq(AFrameRecords)
           /\ DOMAIN AFrames(fs) = DOMAIN fs /\ Len(AFrames(fs)) = Len(fs)
           /\ \A k \in DOMAIN fs : AFrames(fs)[k] = AFrame(fs[k])
           /\ AFrames(fs) = << >> <=> fs = << >>
<1>1. /\ DOMAIN fs = 1 .. Len(fs) /\ Len(fs) \in Nat
      /\ \A k \in DOMAIN fs : fs[k] \in FrameRecords
  OBVIOUS
<1>2. \A k \in DOMAIN fs : AFrame(fs[k]) \in AFrameRecords
  BY <1>1, AFrameResult
<1> DEFINE as == AFrames(fs)
<1>3. as = [k \in 1 .. Len(fs) |-> AFrame(fs[k])]
  BY <1>1 DEF AFrames
<1> HIDE DEF as
<1>4. as \in Seq(AFrameRecords) /\ Len(as) = Len(fs) /\ DOMAIN as = 1 .. Len(fs)
  BY <1>1, <1>2, <1>3
<1>5. \A k \in DOMAIN fs : as[k] = AFrame(fs[k])
  BY <1>1, <1>3
<1>6. as = << >> <=> fs = << >>
  BY <1>4, EmptySeq
<1> QED BY <1>1, <1>4, <1>5, <1>6 DEF as

\* The running frame as EIP-7709 sees it.
LEMMA TopMaps ==
    ASSUME TypeOK, InFrame
    PROVE  /\ AbstractFrames = AFrames(frames) /\ AbstractFrames # << >>
           /\ AbstractFrames \in Seq(AFrameRecords)
           /\ Len(AbstractFrames) = Len(frames) /\ DOMAIN AbstractFrames = DOMAIN frames
           /\ AbstractFrames[Len(AbstractFrames)] = AFrame(Top)
           /\ EIP7709!Top.gas = Top.gas
           /\ EIP7709!Top.warm = Top.slots \cup listed
           /\ EIP7709!Top.account = (Top.accountWarm \/ listed # {})
<1>1. frames \in Seq(FrameRecords) /\ frames # << >> /\ Len(frames) \in DOMAIN frames
      /\ Top \in FrameRecords
  BY TopFrame DEF InFrame
<1>2. AbstractFrames = AFrames(frames)
  BY DEF AbstractFrames, AFrames, AFrame
<1>3. /\ AbstractFrames \in Seq(AFrameRecords) /\ AbstractFrames # << >>
      /\ Len(AbstractFrames) = Len(frames) /\ DOMAIN AbstractFrames = DOMAIN frames
      /\ AbstractFrames[Len(AbstractFrames)] = AFrame(Top)
  BY <1>1, <1>2, AFramesResult DEF Top
<1>4. /\ AFrame(Top).gas = Top.gas /\ AFrame(Top).warm = Top.slots \cup listed
      /\ AFrame(Top).account = (Top.accountWarm \/ listed # {})
  BY <1>1, AFrameResult
<1> QED BY <1>2, <1>3, <1>4 DEF EIP7709!Top

\* Paying is paying.
LEMMA PayingMaps ==
    ASSUME TypeOK, InFrame, NEW g \in Nat
    PROVE  AFrames(TopWith(g)) = [AFrames(frames) EXCEPT ![Len(AFrames(frames))].gas = g]
<1> DEFINE n == Len(frames)
           r == [Top EXCEPT !.gas = g]
           a == AFrame(Top)
<1>1. /\ frames \in Seq(FrameRecords) /\ n \in DOMAIN frames /\ Top \in FrameRecords
  BY TopFrame
<1>2. r \in FrameRecords /\ r.gas = g /\ r.slots = Top.slots /\ r.accountWarm = Top.accountWarm
  BY <1>1 DEF FrameRecords
<1>3. TopWith(g) = [frames EXCEPT ![n] = r]
  BY DEF TopWith, Top
<1>4. AFrame(r) = [a EXCEPT !.gas = g]
  <2> DEFINE b == Top.accountWarm \/ listed # {}
  <2>1. a = [gas |-> Top.gas, warm |-> Top.slots \cup listed, account |-> b]
    BY DEF AFrame
  <2>2. AFrame(r) = [gas |-> g, warm |-> Top.slots \cup listed, account |-> b]
    <3> DEFINE c == r.accountWarm \/ listed # {}
    <3>1. AFrame(r) = [gas |-> r.gas, warm |-> r.slots \cup listed, account |-> c]
      BY DEF AFrame
    <3>2. r.gas = g /\ r.slots = Top.slots /\ c = b
      BY <1>2
    <3> HIDE DEF r, b, c
    <3> QED BY <3>1, <3>2
  <2> HIDE DEF a, b, r
  <2>3. [a EXCEPT !.gas = g] = [gas |-> g, warm |-> Top.slots \cup listed, account |-> b]
    BY <2>1
  <2> QED BY <2>2, <2>3
<1> HIDE DEF r, n
<1>5. /\ DOMAIN AFrames(frames) = DOMAIN frames /\ Len(AFrames(frames)) = n
      /\ \A k \in DOMAIN frames : AFrames(frames)[k] = AFrame(frames[k])
  BY <1>1, AFramesResult DEF n
<1>6. /\ DOMAIN TopWith(g) = DOMAIN frames
      /\ \A k \in DOMAIN frames : TopWith(g)[k] = IF k = n THEN r ELSE frames[k]
  BY <1>1, <1>3
<1>7. AFrames(TopWith(g)) = [k \in DOMAIN frames |-> IF k = n THEN AFrame(r) ELSE AFrame(frames[k])]
  BY <1>6 DEF AFrames
<1>8. AFrames(frames) = [k \in DOMAIN frames |-> AFrame(frames[k])]
  BY DEF AFrames
<1>9. AFrames(TopWith(g)) = [AFrames(frames) EXCEPT ![n] = AFrame(r)]
  BY <1>7, <1>8
<1>10. AFrames(frames)[n] = a
  BY <1>1, <1>5 DEF Top, n
<1> HIDE DEF a
<1> QED BY <1>4, <1>5, <1>9, <1>10

\* What a step does to the frames EIP-7709 sees: unless the list changes, it is what it does to
\* the frames.
LEMMA FramesMap ==
    ASSUME listed' = listed
    PROVE  AbstractFrames' = AFrames(frames') /\ AbstractFrames = AFrames(frames)
BY DEF AbstractFrames, AFrames, AFrame

\* Steps in which the running frame pays c.
LEMMA PayMaps ==
    ASSUME TypeOK, InFrame, NEW c \in Nat, c <= Top.gas,
           frames' = TopWith(Top.gas - c), listed' = listed
    PROVE  EIP7709!Pay(c)
<1> DEFINE f == AFrames(frames)
           g == Top.gas - c
<1>1. Top.gas \in Nat /\ g \in Nat
  BY TopFrame DEF FrameRecords
<1>2. AFrames(frames') = [f EXCEPT ![Len(f)].gas = g]
  BY <1>1, PayingMaps
<1>3. AbstractFrames' = AFrames(frames') /\ AbstractFrames = f
  BY FramesMap
<1>4. f[Len(f)].gas = Top.gas
  BY <1>3, TopMaps DEF EIP7709!Top
<1> HIDE DEF f
<1>5. AFrames(frames') = [f EXCEPT ![Len(f)].gas = @ - c]
  BY <1>2, <1>4
<1> QED BY <1>3, <1>5 DEF EIP7709!Pay

\* A frame that ends gives its gas to the one below.
LEMMA PopMaps ==
    ASSUME TypeOK, InFrame, NEW g \in Nat, Pop(g), listed' = listed
    PROVE  EIP7709!GiveBack(g)
<1> DEFINE f == AFrames(frames)
           n == Len(frames)
<1>1. /\ frames \in Seq(FrameRecords) /\ n \in Nat \ {0} /\ DOMAIN frames = 1 .. n
      /\ \A k \in 1 .. n : frames[k] \in FrameRecords
  BY TopFrame
<1>2. AbstractFrames' = AFrames(frames') /\ AbstractFrames = f
  BY FramesMap
<1>3. /\ f \in Seq(AFrameRecords) /\ Len(f) = n /\ DOMAIN f = 1 .. n
      /\ \A k \in 1 .. n : f[k] = AFrame(frames[k])
  BY <1>1, AFramesResult
<1>4. CASE n = 1
  <2>1. frames' = << >>
    BY <1>4 DEF Pop
  <2>2. AFrames(frames') = << >>
    BY <2>1, AFramesResult, EmptySeq
  <2> HIDE DEF f, n
  <2> QED BY <1>2, <1>3, <1>4, <2>2 DEF EIP7709!GiveBack
<1>5. CASE n # 1
  <2> DEFINE m      == n - 1
             below  == SubSeq(frames, 1, m)
             r      == [below[m] EXCEPT !.gas = @ + g]
             fbelow == SubSeq(f, 1, m)
             q      == [fbelow[m] EXCEPT !.gas = @ + g]
  <2>1. /\ below \in Seq(FrameRecords) /\ DOMAIN below = 1 .. m /\ m \in 1 .. m /\ m \in 1 .. n
        /\ \A k \in 1 .. m : below[k] = frames[k] /\ k \in 1 .. n
    BY <1>1, <1>5
  <2>2. frames' = [below EXCEPT ![m] = r]
    BY <1>5 DEF Pop
  <2>3. /\ DOMAIN fbelow = 1 .. m
        /\ \A k \in 1 .. m : fbelow[k] = f[k]
        /\ fbelow = [k \in 1 .. m |-> f[k]]
    <3> HIDE DEF f
    <3> QED BY <1>1, <1>3, <1>5
  <2>4. /\ r.gas = frames[m].gas + g
        /\ r.slots = frames[m].slots /\ r.accountWarm = frames[m].accountWarm
    <3>1. \A x \in FrameRecords :
            LET e == [x EXCEPT !.gas = @ + g]
            IN  e.gas = x.gas + g /\ e.slots = x.slots /\ e.accountWarm = x.accountWarm
      BY DEF FrameRecords
    <3> HIDE DEF m, below
    <3> QED BY <1>1, <2>1, <3>1
  <2>5. AFrame(r) = q
    <3> DEFINE w == frames[m].slots \cup listed
               b == frames[m].accountWarm \/ listed # {}
    <3>1. AFrame(r) = [gas |-> frames[m].gas + g, warm |-> w, account |-> b]
      <4> HIDE DEF r, m
      <4> QED BY <2>4 DEF AFrame
    <3>2. fbelow[m] = [gas |-> frames[m].gas, warm |-> w, account |-> b]
      <4> HIDE DEF fbelow, f, m
      <4> QED BY <1>3, <2>1, <2>3 DEF AFrame
    <3> HIDE DEF r, fbelow, w, b
    <3> QED BY <3>1, <3>2
  <2> HIDE DEF r, below, fbelow, q
  <2>6. AFrames(frames') = [k \in 1 .. m |-> IF k = m THEN AFrame(r) ELSE AFrame(frames[k])]
    <3>1. /\ DOMAIN frames' = 1 .. m
          /\ \A k \in 1 .. m : frames'[k] = IF k = m THEN r ELSE frames[k]
      BY <2>1, <2>2
    <3> HIDE DEF m
    <3> QED BY <3>1 DEF AFrames
  <2>7. AFrames(frames') = [fbelow EXCEPT ![m] = q]
    <3> HIDE DEF f, m
    <3>1. \A k \in 1 .. m : f[k] = AFrame(frames[k])
      BY <1>3, <2>1
    <3> QED BY <2>3, <2>5, <2>6, <3>1
  <2>8. AFrames(frames') = [SubSeq(f, 1, Len(f) - 1) EXCEPT ![Len(f) - 1].gas = @ + g]
    <3>1. fbelow = SubSeq(f, 1, Len(f) - 1) /\ m = Len(f) - 1
      BY <1>3 DEF fbelow
    <3> HIDE DEF f, m
    <3> QED BY <2>7, <3>1 DEF q
  <2>9. Len(f) # 1
    BY <1>3, <1>5
  <2> HIDE DEF f, n
  <2> QED BY <1>2, <2>8, <2>9 DEF EIP7709!GiveBack, EIP7709!Below
<1> QED BY <1>4, <1>5

\* Undoing is undoing.
LEMMA UndoMaps ==
    ASSUME JournalInv, InFrame, Undo
    PROVE  EIP7709!Undo
<1>1. TypeOK /\ listed' = listed /\ WarmEntries' = Top.slots /\ accountWarm' = Top.accountWarm
  BY UndoResult DEF JournalInv
<1>2. EIP7709!Top.warm = Top.slots \cup listed /\ EIP7709!Top.account = (Top.accountWarm \/ listed # {})
  BY <1>1, TopMaps
<1>3. {i \in Indices : IsWarm(i)}' = Top.slots \cup listed
  BY <1>1 DEF WarmEntries, IsWarm, TypeOK
<1>4. (accountWarm \/ listed # {})' = (Top.accountWarm \/ listed # {})
  BY <1>1
<1> QED BY <1>2, <1>3, <1>4 DEF EIP7709!Undo

\* What is warm for EIP-7709 depends on the slots and the list only.
LEMMA WarmMaps ==
    ASSUME slots' = slots, listed' = listed, accountWarm' = accountWarm
    PROVE  /\ {i \in Indices : IsWarm(i)}' = {i \in Indices : IsWarm(i)}
           /\ (accountWarm \/ listed # {})' = (accountWarm \/ listed # {})
BY DEF IsWarm

\* A transaction begins with its list warm.
LEMMA BeginImplements ==
    ASSUME TypeOK, NEW g \in Gases, NEW list \in SUBSET Indices, NEW kept \in BOOLEAN,
           Begin(g, list, kept)
    PROVE  EIP7709!Begin(g, list)
<1> DEFINE r == [gas |-> g, slots |-> {}, accountWarm |-> FALSE]
           a == list # {}
           q == [gas |-> g, warm |-> list, account |-> a]
<1>1. /\ ~InFrame /\ accountWarm' = FALSE /\ listed' = list /\ frames' = <<r>>
      /\ slots' = [i \in Indices |-> IF kept /\ slots[i] # "absent" THEN "cold" ELSE "absent"]
  BY DEF Begin
<1>2. {i \in Indices : IsWarm(i)}' = list
  BY <1>1 DEF IsWarm
<1>3. (accountWarm \/ listed # {})' = a
  BY <1>1
<1>4. AbstractFrames = << >>
  <2>1. frames = << >>
    BY <1>1 DEF InFrame
  <2>2. AFrames(frames) = << >>
    BY <2>1, AFramesResult, EmptySeq
  <2> QED BY <2>2 DEF AbstractFrames, AFrames, AFrame
<1>5. AbstractFrames' = <<q>>
  <2>1. [gas |-> r.gas, warm |-> r.slots \cup list, account |-> r.accountWarm \/ a] = q
    <3>1. (r.accountWarm \/ a) = a /\ r.slots \cup list = list
      OBVIOUS
    <3> HIDE DEF a
    <3> QED BY <3>1
  <2>2. DOMAIN frames' = 1 .. 1 /\ frames'[1] = r
    BY <1>1
  <2> DEFINE F(f, l) == [gas |-> f.gas, warm |-> f.slots \cup l, account |-> f.accountWarm \/ l # {}]
  <2>3. AbstractFrames' = [k \in 1 .. 1 |-> F(r, list)]
    <3>1. AbstractFrames' = [k \in DOMAIN frames' |-> F(frames'[k], listed')]
      BY DEF AbstractFrames
    <3>2. listed' = list /\ DOMAIN frames' = 1 .. 1 /\ \A k \in 1 .. 1 : frames'[k] = r
      BY <1>1, <2>2
    <3> HIDE DEF r, F
    <3> QED BY <3>1, <3>2
  <2>4. F(r, list) = q
    BY <2>1
  <2> HIDE DEF q, F
  <2> QED BY <2>3, <2>4
<1> DEFINE warm    == {i \in Indices : IsWarm(i)}
           account == accountWarm \/ listed # {}
<1>6. warm' = list /\ account' = a
  BY <1>2, <1>3
<1>7. AbstractFrames' = <<[gas |-> g, warm |-> warm', account |-> account']>>
  <2> HIDE DEF a, warm, account
  <2> QED BY <1>5, <1>6
<1> QED BY <1>2, <1>3, <1>4, <1>7 DEF EIP7709!Begin

\* A frame is opened.
LEMMA OpenFrameImplements ==
    ASSUME TypeOK, NEW g \in Gases, OpenFrame(g)
    PROVE  EIP7709!Open(g)
<1> DEFINE paid == TopWith(Top.gas - g)
           r    == [gas |-> g, slots |-> WarmEntries, accountWarm |-> accountWarm]
           f    == AFrames(frames)
           h    == [f EXCEPT ![Len(f)].gas = @ - g]
           b    == accountWarm \/ listed # {}
           q    == [gas |-> g, warm |-> {i \in Indices : IsWarm(i)}, account |-> b]
<1>1. /\ InFrame /\ g <= Top.gas /\ frames' = Append(paid, r)
      /\ accountWarm' = accountWarm /\ slots' = slots /\ listed' = listed
  BY DEF OpenFrame, journalVars
<1>2. g \in Nat /\ Top.gas \in Nat /\ Top.gas - g \in Nat
  BY <1>1, BlockhashAssumption, TopFrame DEF FrameRecords
<1>3. paid \in Seq(FrameRecords) /\ Len(paid) \in Nat /\ DOMAIN paid = 1 .. Len(paid)
  BY <1>1, <1>2, PayingKeepsCheckpoints DEF OldCheckpoints
<1>4. AbstractFrames' = AFrames(frames') /\ AbstractFrames = f
  BY <1>1, FramesMap
<1>5. EIP7709!Top.gas = Top.gas /\ AbstractFrames # << >> /\ f[Len(f)].gas = Top.gas
  BY <1>1, <1>4, TopMaps DEF EIP7709!Top
<1>6. AFrames(paid) = h
  <2>1. AFrames(paid) = [f EXCEPT ![Len(f)].gas = Top.gas - g]
    BY <1>1, <1>2, PayingMaps
  <2> HIDE DEF f, paid
  <2> QED BY <1>5, <2>1
<1>7. AFrame(r) = q
  <2>1. WarmEntries \cup listed = {i \in Indices : IsWarm(i)}
    BY DEF WarmEntries, IsWarm, TypeOK
  <2>2. r.gas = g /\ r.slots = WarmEntries /\ r.accountWarm = accountWarm
    OBVIOUS
  <2> HIDE DEF r
  <2> QED BY <2>1, <2>2 DEF AFrame
<1>8. r \in FrameRecords
  BY <1>2 DEF FrameRecords, WarmEntries, TypeOK
<1> HIDE DEF r, q, h, f, paid
<1>9. AFrames(Append(paid, r)) = Append(AFrames(paid), AFrame(r))
  <2> DEFINE n == Len(paid)
             s == AFrames(Append(paid, r))
             t == Append(AFrames(paid), AFrame(r))
  <2>1. /\ Append(paid, r) \in Seq(FrameRecords) /\ Len(Append(paid, r)) = n + 1
        /\ DOMAIN Append(paid, r) = 1 .. n + 1
        /\ \A k \in 1 .. n : Append(paid, r)[k] = paid[k]
        /\ Append(paid, r)[n + 1] = r
    BY <1>3, <1>8
  <2>2. /\ Len(AFrames(paid)) = n /\ AFrames(paid) \in Seq(AFrameRecords)
        /\ \A k \in 1 .. n : AFrames(paid)[k] = AFrame(paid[k])
    BY <1>3, AFramesResult
  <2>3. /\ s \in Seq(AFrameRecords) /\ Len(s) = n + 1
        /\ \A k \in 1 .. n + 1 : s[k] = AFrame(Append(paid, r)[k])
    BY <2>1, AFramesResult
  <2>4. AFrame(r) \in AFrameRecords
    BY <1>8, AFrameResult
  <2>5. /\ t \in Seq(AFrameRecords) /\ Len(t) = n + 1
        /\ \A k \in 1 .. n : t[k] = AFrames(paid)[k]
        /\ t[n + 1] = AFrame(r)
    BY <2>2, <2>4, AppendProperties
  <2> HIDE DEF s, t
  <2>6. ASSUME NEW k \in 1 .. n + 1 PROVE s[k] = t[k]
    <3>1. k = n + 1 \/ k \in 1 .. n
      BY <1>3
    <3> HIDE DEF n
    <3> QED BY <2>1, <2>2, <2>3, <2>5, <3>1
  <2>7. s = t
    BY <2>3, <2>5, <2>6, SeqEqual
  <2> QED BY <2>7 DEF s, t
<1>10. AbstractFrames' = Append(h, q)
  BY <1>1, <1>4, <1>6, <1>7, <1>9
<1>11. /\ {i \in Indices : IsWarm(i)}' = {i \in Indices : IsWarm(i)}
       /\ (accountWarm \/ listed # {})' = (accountWarm \/ listed # {})
  BY <1>1, WarmMaps
<1>12. g <= EIP7709!Top.gas
  BY <1>1, <1>5
<1>13. AbstractFrames' = Append([AbstractFrames EXCEPT ![Len(AbstractFrames)].gas = @ - g], EIP7709!Frame(g))
  BY <1>4, <1>10 DEF h, q, EIP7709!Frame
<1> QED BY <1>5, <1>11, <1>12, <1>13 DEF EIP7709!Open

\* A lookup that succeeds from TsukiV2 on pays EIP-7709's price and warms its slot only.
LEMMA LookupImplements ==
    ASSUME JournalInv, InFrame, NEW n \in 0 .. MaxBlock, LoadedLikeSload(n)
    PROVE  EIP7709!Lookup(Index(n))
<1> DEFINE left == Top.gas - BaseGas - WarmGas
           cold == left < ColdGas
           r    == HistorySload(Index(n), cold)
           c    == IF IsWarm(Index(n)) THEN 0 ELSE ColdGas
           p    == BaseGas + WarmGas + c
           warm == {i \in Indices : IsWarm(i)}
<1>1. /\ left >= 0 /\ ~r.skipped /\ frames' = TopWith(left - c)
      /\ accountWarm' = r.account /\ slots' = r.slots /\ listed' = listed
  BY DEF LoadedLikeSload
<1>2. Index(n) \in Indices /\ TypeOK
  BY IndexOfABlock DEF JournalInv
<1>3. /\ r.skipped = (cold /\ ~IsWarm(Index(n))) /\ r.account = accountWarm
      /\ ~r.skipped => r.slots = [slots EXCEPT ![Index(n)] = "warm"]
  <2>1. cold \in BOOLEAN
    OBVIOUS
  <2> HIDE DEF cold
  <2> QED BY <1>2, <2>1, HistorySloadResult
<1> HIDE DEF r
<1>4. ~(cold /\ ~IsWarm(Index(n)))
  <2> HIDE DEF cold
  <2> QED BY <1>1, <1>3, Zenon
<1>5. Top.gas \in Nat /\ BaseGas \in Nat /\ WarmGas \in Nat /\ ColdGas \in Nat
  BY <1>2, TopFrame, BlockhashAssumption DEF FrameRecords
<1>6. p \in Nat /\ p <= Top.gas /\ left - c = Top.gas - p
  <2>1. CASE IsWarm(Index(n))
    BY <1>1, <1>5, <2>1
  <2>2. CASE ~IsWarm(Index(n))
    <3>1. left \in Int /\ left >= ColdGas
      BY <1>4, <1>5, <2>2
    <3> QED BY <1>5, <2>2, <3>1
  <2> QED BY <2>1, <2>2
<1>7. frames' = TopWith(Top.gas - p)
  BY <1>1, <1>6
<1>8. Index(n) \in warm <=> IsWarm(Index(n))
  BY <1>2
<1>9. EIP7709!Price(Index(n)) = p
  BY <1>8 DEF EIP7709!Price
<1> HIDE DEF p, c, left
<1>10. EIP7709!Pay(p)
  BY <1>1, <1>2, <1>6, <1>7, PayMaps
<1>11. warm' = warm \cup {Index(n)}
  BY <1>1, <1>2, <1>3 DEF IsWarm, TypeOK
<1>12. (accountWarm \/ listed # {})' = (accountWarm \/ listed # {})
  BY <1>1, <1>3
<1>13. AbstractFrames # << >> /\ EIP7709!Top.gas >= p
  BY <1>2, <1>5, <1>6, TopMaps
<1> QED BY <1>9, <1>10, <1>11, <1>12, <1>13 DEF EIP7709!Lookup

\* BLOCKHASH from TsukiV2 on is one of EIP-7709's steps.
LEMMA BlockhashOpImplements ==
    ASSUME JournalInv, IsEnabledIn(spec, TSUKI_V2), NEW n \in 0 .. MaxBlock, BlockhashOp(n)
    PROVE  \/ EIP7709!Lookup(Index(n)) \/ EIP7709!OutOfRange \/ EIP7709!Halt \/ EIP7709!Fatal
<1>1. InFrame /\ TypeOK
  BY DEF BlockhashOp, JournalInv
<1>2. AbstractFrames # << >> /\ EIP7709!Top.gas = Top.gas
  BY <1>1, TopMaps
<1>3. Top.gas \in Nat /\ BaseGas \in Nat
  BY <1>1, TopFrame, BlockhashAssumption DEF FrameRecords
<1>4. IsEnabledIn(spec, FEYNMAN)
  BY <1>1 DEF IsEnabledIn, TSUKI_V2, FEYNMAN, TypeOK, ScrollSpecId, SHANGHAI
<1>5. CASE OutOfRange(n)
  <2>1. /\ Top.gas >= BaseGas /\ frames' = TopWith(Top.gas - BaseGas)
        /\ slots' = slots /\ listed' = listed /\ accountWarm' = accountWarm
    BY <1>5 DEF OutOfRange, journalVars
  <2>2. EIP7709!Pay(BaseGas)
    BY <1>1, <1>3, <2>1, PayMaps
  <2>3. /\ {i \in Indices : IsWarm(i)}' = {i \in Indices : IsWarm(i)}
        /\ (accountWarm \/ listed # {})' = (accountWarm \/ listed # {})
    BY <2>1, WarmMaps
  <2>4. EIP7709!Top.gas >= BaseGas
    BY <1>2, <2>1
  <2> QED BY <1>2, <2>2, <2>3, <2>4 DEF EIP7709!OutOfRange
<1>6. ~MadeUp(n) /\ ~LoadedFlat(n)
  BY <1>4 DEF MadeUp, LoadedFlat
<1>7. CASE LoadedLikeSload(n)
  BY <1>1, <1>7, LookupImplements
<1>8. CASE OutOfGas(n) \/ OutOfGasForSlot(n)
  <2>1. Pop(0) /\ Undo /\ listed' = listed
    BY <1>8 DEF OutOfGas, OutOfGasForSlot, Halt, Undo
  <2>2. EIP7709!GiveBack(0) /\ EIP7709!Undo
    BY <1>1, <2>1, PopMaps, UndoMaps
  <2> QED BY <1>2, <2>2 DEF EIP7709!Halt
<1>9. CASE DatabaseError(n)
  <2>1. /\ frames' = << >> /\ accountWarm' = FALSE /\ listed' = {}
        /\ slots' = [i \in Indices |-> IF slots[i] = "warm" THEN "cold" ELSE slots[i]]
    BY <1>9 DEF DatabaseError, Fatal
  <2>2. {i \in Indices : IsWarm(i)}' = {} /\ (accountWarm \/ listed # {})' = FALSE
    BY <2>1 DEF IsWarm
  <2>3. AbstractFrames' = << >>
    <3>1. DOMAIN frames' = {}
      BY <2>1
    <3> QED BY <3>1 DEF AbstractFrames
  <2> QED BY <1>2, <2>2, <2>3 DEF EIP7709!Fatal
<1> QED BY <1>5, <1>6, <1>7, <1>8, <1>9 DEF BlockhashOp

\* Every step from TsukiV2 on is one of EIP-7709's or leaves alone what it talks about.
LEMMA NextImplements ==
    JournalInv /\ [Next]_vars
        => [IsEnabledIn(spec, TSUKI_V2) => EIP7709!Next]_(EIP7709!vars)
<1> SUFFICES ASSUME JournalInv, [Next]_vars, IsEnabledIn(spec, TSUKI_V2)
             PROVE  EIP7709!Next \/ UNCHANGED EIP7709!vars
  BY Zenon
<1>1. TypeOK
  BY DEF JournalInv
<1>2. CASE NewBlock \/ UNCHANGED vars
  <2>1. slots' = slots /\ listed' = listed /\ accountWarm' = accountWarm /\ frames' = frames
    BY <1>2 DEF NewBlock, vars, journalVars
  <2>2. AbstractFrames' = AbstractFrames
    BY <2>1, FramesMap
  <2> QED BY <2>1, <2>2, WarmMaps DEF EIP7709!vars
<1>3. ASSUME NEW g \in Gases, NEW list \in SUBSET Indices, NEW kept \in BOOLEAN,
             Begin(g, list, kept)
      PROVE  EIP7709!Next
  <2>1. EIP7709!Begin(g, list)
    BY <1>1, <1>3, BeginImplements
  <2> QED BY <2>1 DEF EIP7709!Next
<1>4. ASSUME NEW g \in Gases, OpenFrame(g) PROVE EIP7709!Next
  <2>1. EIP7709!Open(g)
    BY <1>1, <1>4, OpenFrameImplements
  <2> QED BY <2>1 DEF EIP7709!Next
<1>5. CASE Return
  <2>1. /\ InFrame /\ Pop(Top.gas) /\ Top.gas \in Nat
        /\ slots' = slots /\ listed' = listed /\ accountWarm' = accountWarm
    BY <1>1, <1>5, TopFrame DEF Return, journalVars, FrameRecords
  <2>2. AbstractFrames # << >> /\ EIP7709!GiveBack(EIP7709!Top.gas)
    BY <1>1, <2>1, TopMaps, PopMaps
  <2>3. EIP7709!Return
    BY <2>1, <2>2, WarmMaps DEF EIP7709!Return
  <2> QED BY <2>3 DEF EIP7709!Next
<1>6. CASE Revert
  <2>1. InFrame /\ Pop(Top.gas) /\ Top.gas \in Nat /\ Undo /\ listed' = listed
    BY <1>1, <1>6, TopFrame DEF Revert, Undo, FrameRecords
  <2>2. AbstractFrames # << >> /\ EIP7709!GiveBack(EIP7709!Top.gas)
    BY <1>1, <2>1, TopMaps, PopMaps
  <2>3. EIP7709!Undo
    BY <2>1, UndoMaps
  <2>4. EIP7709!Revert
    BY <2>2, <2>3 DEF EIP7709!Revert
  <2> QED BY <2>4 DEF EIP7709!Next
<1>7. CASE TouchAccount
  <2>1. /\ InFrame /\ Top.gas > 0 /\ Top.gas \in Nat /\ accountWarm' = TRUE
        /\ frames' = TopWith(Top.gas - 1) /\ slots' = slots /\ listed' = listed
    BY <1>1, <1>7, TopFrame DEF TouchAccount, FrameRecords
  <2>2. AbstractFrames # << >> /\ EIP7709!Top.gas > 0
    BY <1>1, <2>1, TopMaps
  <2>3. EIP7709!Pay(1)
    BY <1>1, <2>1, PayMaps
  <2>4. /\ {i \in Indices : IsWarm(i)}' = {i \in Indices : IsWarm(i)}
        /\ (accountWarm \/ listed # {})' = TRUE
    BY <2>1 DEF IsWarm
  <2>5. EIP7709!TouchAccount
    BY <2>2, <2>3, <2>4 DEF EIP7709!TouchAccount
  <2> QED BY <2>5 DEF EIP7709!Next
<1>8. ASSUME NEW n \in 0 .. MaxBlock, BlockhashOp(n) PROVE EIP7709!Next
  <2>1. \/ EIP7709!Lookup(Index(n)) \/ EIP7709!OutOfRange \/ EIP7709!Halt \/ EIP7709!Fatal
    BY <1>8, BlockhashOpImplements
  <2>2. Index(n) \in Indices
    BY IndexOfABlock
  <2> QED BY <2>1, <2>2 DEF EIP7709!Next
<1> QED BY <1>2, <1>3, <1>4, <1>5, <1>6, <1>7, <1>8 DEF Next

\* From TsukiV2 on BLOCKHASH is EIP-7709's, whatever the journal happens to have cached.
THEOREM BlockhashIsEip7709 == Spec => ImplementsEip7709
<1>1. Init => EIP7709!Init
  <2> SUFFICES ASSUME Init PROVE EIP7709!Init
    OBVIOUS
  <2>1. /\ slots = [i \in Indices |-> "absent"] /\ listed = {} /\ accountWarm = FALSE
        /\ frames = << >>
    BY DEF Init
  <2>2. {i \in Indices : IsWarm(i)} = {}
    BY <2>1 DEF IsWarm
  <2>3. AbstractFrames = << >>
    <3>1. DOMAIN frames = {}
      BY <2>1
    <3> QED BY <3>1 DEF AbstractFrames
  <2>4. (accountWarm \/ listed # {}) \in BOOLEAN
    OBVIOUS
  <2> QED BY <2>2, <2>3, <2>4 DEF EIP7709!Init
<1>2. IInv => JournalInv
  BY DEF IInv
<1> QED BY <1>1, <1>2, Inductive, NextImplements, PTL DEF Spec, ImplementsEip7709
=============================================================================
