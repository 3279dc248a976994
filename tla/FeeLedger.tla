------------------------------ MODULE FeeLedger ------------------------------
(***************************************************************************)
(* What the handler promises about money, and nothing else.  A transaction *)
(* is opened by a payer, who is charged at most once, up front; while it   *)
(* runs, value moves between accounts and a failed frame takes its moves   *)
(* back; then the payer gets part of the charge back and the collector     *)
(* gets all the rest.  A transaction may also be aborted at any moment,    *)
(* and then no balance has changed.  No step creates or destroys money: it *)
(* is in a balance or in the pot.                                          *)
(***************************************************************************)
EXTENDS Integers

CONSTANTS Accounts, Nobody

VARIABLES
    bal,        \* the balances
    pot,        \* the part of the charge that is neither refunded nor collected
    stage,      \* how far the open transaction is
    payer, collector,
    start,      \* the balances when the transaction was opened
    saved,      \* the balances when its frame was opened
    stored,     \* the balances that were committed last
    handed      \* at most one set of balances that may be committed next

vars == <<bal, pot, stage, payer, collector, start, saved, stored, handed>>

Balances == [Accounts -> Nat]
Stages   == {"closed", "opened", "charged", "running", "refunded", "collected"}

\* The type of the ledger: balances and the pot are never negative.
TypeOK ==
    /\ bal \in Balances /\ start \in Balances /\ saved \in Balances /\ stored \in Balances
    /\ handed \in SUBSET Balances
    /\ pot \in Nat
    /\ stage \in Stages
    /\ payer \in Accounts \cup {Nobody}
    /\ collector \in Accounts

Init ==
    /\ bal \in Balances
    /\ start = bal /\ saved = bal /\ stored = bal /\ handed = {}
    /\ pot = 0 /\ stage = "closed" /\ payer = Nobody /\ collector \in Accounts

\* v moves from a to b.
Moved(f, a, b, v) ==
    LET g == [f EXCEPT ![a] = @ - v] IN [g EXCEPT ![b] = @ + v]

\* A transaction that will be charged is opened, or a system call, which never is.
Open(p) ==
    /\ stage = "closed" /\ stage' \in {"opened", "charged"}
    /\ payer' = p /\ start' = bal /\ saved' = bal /\ handed' = {}
    /\ UNCHANGED <<bal, pot, collector, stored>>

Charge ==
    /\ stage = "opened" /\ stage' = "charged"
    /\ \E v \in 0 .. bal[payer] :
          /\ bal' = [bal EXCEPT ![payer] = @ - v]
          /\ pot' = pot + v
    /\ UNCHANGED <<payer, collector, start, saved, stored, handed>>

OpenFrame ==
    /\ stage = "charged" /\ stage' = "running"
    /\ saved' = bal
    /\ \E b \in Accounts : \E v \in 0 .. bal[payer] : bal' = Moved(bal, payer, b, v)
    /\ UNCHANGED <<pot, payer, collector, start, stored, handed>>

Transfer ==
    /\ stage = "running"
    /\ \E a, b \in Accounts : \E v \in 0 .. bal[a] : bal' = Moved(bal, a, b, v)
    /\ UNCHANGED <<pot, stage, payer, collector, start, saved, stored, handed>>

CloseFrame ==
    /\ stage = "running" /\ stage' = "charged"
    /\ bal' \in {bal, saved}
    /\ UNCHANGED <<pot, payer, collector, start, saved, stored, handed>>

Refund ==
    /\ stage = "charged" /\ stage' = "refunded"
    /\ \E v \in 0 .. pot :
          /\ pot' = pot - v
          /\ bal' = [bal EXCEPT ![payer] = @ + v]
    /\ UNCHANGED <<payer, collector, start, saved, stored, handed>>

Collect ==
    /\ stage = "refunded" /\ stage' = "collected"
    /\ pot' = 0
    /\ bal' = [bal EXCEPT ![collector] = @ + pot]
    /\ UNCHANGED <<payer, collector, start, saved, stored, handed>>

\* Nothing is left in the pot; the balances may be handed out at once.
Close ==
    /\ stage \in {"charged", "collected"} /\ pot = 0 /\ stage' = "closed"
    /\ \/ UNCHANGED <<bal, handed>>
       \/ handed' = {bal} /\ bal' = stored
    /\ UNCHANGED <<pot, payer, collector, start, saved, stored>>

Abort ==
    /\ stage # "closed" /\ stage' = "closed"
    /\ bal' = start /\ pot' = 0
    /\ UNCHANGED <<payer, collector, start, saved, stored, handed>>

HandOut ==
    /\ stage = "closed"
    /\ handed' = {bal} /\ bal' = stored
    /\ UNCHANGED <<pot, stage, payer, collector, start, saved, stored>>

Store ==
    /\ stage = "closed" /\ bal' \in handed /\ stored' = bal' /\ handed' = {}
    /\ UNCHANGED <<pot, stage, payer, collector, start, saved>>

NewCollector(c) ==
    /\ stage = "closed" /\ collector' = c
    /\ UNCHANGED <<bal, pot, stage, payer, start, saved, stored, handed>>

Next ==
    \/ \E p \in Accounts : Open(p)
    \/ Charge
    \/ OpenFrame \/ Transfer \/ CloseFrame
    \/ Refund \/ Collect
    \/ Close \/ Abort
    \/ HandOut \/ Store
    \/ \E c \in Accounts : NewCollector(c)

Spec == Init /\ [][Next]_vars
=============================================================================
