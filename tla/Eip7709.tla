------------------------------- MODULE Eip7709 -------------------------------
(***************************************************************************)
(* What BLOCKHASH promises from TsukiV2, as EIP-7709 puts it: a lookup     *)
(* costs what an SLOAD of the history slot costs and warms that slot, like *)
(* any SLOAD undone when its frame reverts; the history account itself is  *)
(* not touched.  A slot is never warmed by a lookup that cannot pay.       *)
(***************************************************************************)
EXTENDS Integers, Sequences

CONSTANTS Indices, BaseGas, WarmGas, ColdGas, Gases

VARIABLES
    warm,       \* the warm slots of the history account
    account,    \* whether the account is warm
    frames      \* the open frames: gas left, and what was warm at the checkpoint

vars == <<warm, account, frames>>

Frame(g) == [gas |-> g, warm |-> warm, account |-> account]
Top      == frames[Len(frames)]
Below    == SubSeq(frames, 1, Len(frames) - 1)
Pay(g)   == frames' = [frames EXCEPT ![Len(frames)].gas = @ - g]

Init == warm = {} /\ account \in BOOLEAN /\ frames = << >>

\* The transaction's access list may warm slots.
Begin(g, listed) ==
    /\ frames = << >>
    /\ warm' = listed /\ account' = (listed # {})
    /\ frames' = <<[gas |-> g, warm |-> warm', account |-> account']>>

Price(i) == BaseGas + WarmGas + (IF i \in warm THEN 0 ELSE ColdGas)

Lookup(i) ==
    /\ frames # << >> /\ Top.gas >= Price(i)
    /\ warm' = warm \cup {i} /\ Pay(Price(i))
    /\ UNCHANGED account

\* A lookup of a block out of range reads no slot.
OutOfRange ==
    /\ frames # << >> /\ Top.gas >= BaseGas /\ Pay(BaseGas)
    /\ UNCHANGED <<warm, account>>

TouchAccount ==
    /\ frames # << >> /\ Top.gas > 0 /\ account' = TRUE /\ Pay(1)
    /\ UNCHANGED warm

Open(g) ==
    /\ frames # << >> /\ g <= Top.gas
    /\ frames' = Append([frames EXCEPT ![Len(frames)].gas = @ - g], Frame(g))
    /\ UNCHANGED <<warm, account>>

\* The frame ends and gives back what gas it has left.
GiveBack(g) ==
    frames' = IF Len(frames) = 1 THEN << >>
              ELSE [Below EXCEPT ![Len(frames) - 1].gas = @ + g]

Return == frames # << >> /\ GiveBack(Top.gas) /\ UNCHANGED <<warm, account>>

Undo   == warm' = Top.warm /\ account' = Top.account
Revert == frames # << >> /\ GiveBack(Top.gas) /\ Undo
Halt   == frames # << >> /\ GiveBack(0) /\ Undo

\* A failing database ends the transaction.
Fatal == frames # << >> /\ frames' = << >> /\ warm' = {} /\ account' = FALSE

Next ==
    \/ \E g \in Gases, listed \in SUBSET Indices : Begin(g, listed)
    \/ \E i \in Indices : Lookup(i)
    \/ OutOfRange \/ TouchAccount
    \/ \E g \in Gases : Open(g)
    \/ Return \/ Revert \/ Halt \/ Fatal

Spec == Init /\ [][Next]_vars
=============================================================================
