-------------------------- MODULE TransferPrecompile --------------------------
(***************************************************************************)
(* The native transfer precompile (src/src/precompile/transfer.rs) inside  *)
(* the call frames of a transaction.  The frames are revm's (external):    *)
(* contracts call each other in the four ways the EVM knows, every frame   *)
(* has a checkpoint, and a call of the precompile is a frame of its own    *)
(* that is over in one step.                                               *)
(***************************************************************************)
EXTENDS ScrollValidation, Functions

CONSTANTS
    Accounts,           \* the addresses in play
    Contracts,          \* those with code
    Token,              \* NATIVE_DOGE_TOKEN_ADDRESS
    Transfer,           \* the address of the precompile
    Origin,             \* who sends the transaction
    InitialBalance,
    Values,             \* the values calls carry and transfers ask for
    GAS_COST,
    Gases,              \* the gas a caller may forward
    UMAX,               \* U256::MAX
    MaxDepth,           \* bound: how deep calls nest
    MaxCalls            \* bound: how many calls the transaction makes

ASSUME TransferAssumption ==
    /\ IsFiniteSet(Accounts) /\ Contracts \subseteq Accounts /\ Token \in Contracts
    /\ Transfer \in Accounts \ Contracts /\ Origin \in Accounts \ (Contracts \cup {Transfer})
    /\ UMAX \in Nat /\ Values \subseteq 0 .. UMAX /\ InitialBalance \in [Accounts -> 0 .. UMAX]
    /\ GAS_COST \in Nat /\ Gases \subseteq Nat
    /\ MaxDepth \in Nat /\ MaxCalls \in Nat

Schemes == {"call", "staticcall", "delegatecall", "callcode"}

VARIABLES
    bal,        \* the balances
    frames,     \* the open frames, the running one last
    calls,      \* how many calls were made
    outcome     \* what the last call of the precompile came to

vars == <<bal, frames, calls, outcome>>

\* A frame runs code in the name of address; saved is its checkpoint.
FrameRecords == [address : Accounts, caller : Accounts, static : BOOLEAN,
                 saved : [Accounts -> 0 .. UMAX]]

Outcomes == {"none", "ok", "reverted", "error", "out_of_gas", "fatal"}

Running == frames[Len(frames)]

\* The transaction runs a contract, or code that Origin delegated to: a transaction or system
\* call straight to the precompile is a call that Origin makes in its own name.
Init ==
    /\ bal = InitialBalance /\ calls = 0 /\ outcome = "none"
    /\ \E c \in Contracts \cup {Origin} :
          frames = <<[address |-> c, caller |-> Origin, static |-> FALSE, saved |-> bal]>>

-----------------------------------------------------------------------------
(* Frames (external) *)

Moved(b, from, to, v) ==
    LET c == [b EXCEPT ![from] = @ - v] IN [c EXCEPT ![to] = @ + v]

\* In whose name the code called by scheme runs, and who it sees as its caller.
Callee(scheme, target) ==
    [address |-> IF scheme \in {"call", "staticcall"} THEN target ELSE Running.address,
     caller  |-> IF scheme = "delegatecall" THEN Running.caller ELSE Running.address,
     static  |-> Running.static \/ scheme = "staticcall",
     saved   |-> bal]

\* A call may be made: its value is there, and not in a static frame.  Calls whose value would
\* overflow the receiver's balance are left out.
MayCall(scheme, target, value) ==
    /\ frames # << >> /\ calls < MaxCalls
    /\ value # 0 => scheme \in {"call", "callcode"} /\ ~(Running.static /\ scheme = "call")
    /\ value <= bal[Running.address]
    /\ (scheme = "call" /\ target # Running.address) => bal[target] + value <= UMAX

\* What a call moves before the called code runs.
WithValue(scheme, target, value) ==
    IF scheme = "call" THEN Moved(bal, Running.address, target, value) ELSE bal

CallContract(scheme, target, value) ==
    /\ MayCall(scheme, target, value) /\ Len(frames) < MaxDepth
    /\ bal' = WithValue(scheme, target, value)
    /\ frames' = Append(frames, Callee(scheme, target))
    /\ calls' = calls + 1 /\ UNCHANGED outcome

Return ==
    /\ frames # << >>
    /\ frames' = SubSeq(frames, 1, Len(frames) - 1)
    /\ UNCHANGED <<bal, calls, outcome>>

\* The frame reverts or halts.
Revert ==
    /\ frames # << >>
    /\ bal' = Running.saved
    /\ frames' = SubSeq(frames, 1, Len(frames) - 1)
    /\ UNCHANGED <<calls, outcome>>

-----------------------------------------------------------------------------
(* The precompile.  in is its input: static, direct (is_direct_call),      *)
(* caller, gas, wellFormed (96 bytes of calldata), from, to and value.     *)

\* Variants with a mistake: a check is missing.
ContextChecksWithoutStatic(in) ==
    FirstError(<< <<~in.direct, "error">>,
                  <<in.caller # Token, "error">>,
                  <<in.gas < GAS_COST, "out_of_gas">>,
                  <<~in.wellFormed, "error">> >>)
ContextChecksWithoutDirect(in) ==
    FirstError(<< <<in.static, "error">>,
                  <<in.caller # Token, "error">>,
                  <<in.gas < GAS_COST, "out_of_gas">>,
                  <<~in.wellFormed, "error">> >>)
ReceiverOverflowsUnchecked(b, in) == FALSE

\* What run checks before it looks at any account.
ContextChecks(in) ==
    FirstError(<< <<in.static, "error">>,
                  <<~in.direct, "error">>,
                  <<in.caller # Token, "error">>,
                  <<in.gas < GAS_COST, "out_of_gas">>,
                  <<~in.wellFormed, "error">> >>)

\* The check of the receiver's balance.
ReceiverOverflows(b, in) == in.from # in.to /\ b[in.to] + in.value > UMAX

\* Variant with a mistake: the sender's balance is not looked at.
JournalTransferOverdrawn(b, in) ==
    [ok |-> TRUE, bal |-> Moved(b, in.from, in.to, in.value), lost |-> 0]

\* The journal's transfer (external).  If the receiver's balance overflows the sender's has
\* been lowered already, and no journal entry remembers it: lost is what stays gone.
JournalTransfer(b, in) ==
    IF b[in.from] < in.value THEN [ok |-> FALSE, bal |-> b, lost |-> 0]
    ELSE IF in.from # in.to /\ b[in.to] + in.value > UMAX
    THEN [ok |-> FALSE, bal |-> b, lost |-> in.value]
    ELSE [ok |-> TRUE, bal |-> Moved(b, in.from, in.to, in.value), lost |-> 0]

\* run, but for failures of the database.
Outcome(b, in) ==
    IF ContextChecks(in) # Ok THEN ContextChecks(in)
    ELSE IF ReceiverOverflows(b, in) \/ ~JournalTransfer(b, in).ok THEN "reverted"
    ELSE "ok"

\* Variant with a mistake: a failed call keeps the value it was called with.
AfterKeepingValue(b, in) ==
    IF Outcome(b, in) = "ok" THEN JournalTransfer(b, in).bal ELSE b

\* The balances after the call: unless it succeeded, its checkpoint takes back the value it
\* was called with.
After(b, in) ==
    IF Outcome(b, in) = "ok" THEN JournalTransfer(b, in).bal
    ELSE IF ContextChecks(in) # Ok \/ ReceiverOverflows(b, in) THEN bal
    ELSE [bal EXCEPT ![in.from] = @ - JournalTransfer(b, in).lost]

CallTransfer(scheme, callValue, gas, wellFormed, from, to, value) ==
    LET callee == Callee(scheme, Transfer)
        b      == WithValue(scheme, Transfer, callValue)
        in     == [static |-> callee.static, direct |-> callee.address = Transfer,
                   caller |-> callee.caller, gas |-> gas, wellFormed |-> wellFormed,
                   from |-> from, to |-> to, value |-> value]
    IN  /\ MayCall(scheme, Transfer, callValue)
        /\ calls' = calls + 1
        /\ \/ /\ outcome' = Outcome(b, in) /\ bal' = After(b, in)
              /\ UNCHANGED frames
           \* The database fails: the error is fatal to the transaction.
           \/ /\ ContextChecks(in) = Ok
              /\ outcome' = "fatal" /\ bal' = InitialBalance /\ frames' = << >>

-----------------------------------------------------------------------------
Next ==
    \/ \E scheme \in Schemes, target \in Contracts, value \in Values :
          CallContract(scheme, target, value)
    \/ Return
    \/ Revert
    \/ \E scheme \in Schemes, callValue \in Values, gas \in Gases, wellFormed \in BOOLEAN,
          from, to \in Accounts, value \in Values :
          CallTransfer(scheme, callValue, gas, wellFormed, from, to, value)

Spec == Init /\ [][Next]_vars

-----------------------------------------------------------------------------
(* Properties *)

\* No balance leaves the U256, in the frames' checkpoints either.
TypeOK ==
    /\ bal \in [Accounts -> 0 .. UMAX]
    /\ frames \in Seq(FrameRecords)
    /\ calls \in Nat
    /\ outcome \in Outcomes

\* Somebody's money moves only when the running code acts in that account's name, sending
\* value, or in the token's name and outside any static call: code that the token merely
\* calls cannot use the precompile, delegatecall and callcode included.  A revert only gives
\* back.
OnlyTheTokenMovesOthersMoney ==
    [][\A a \in Accounts :
          (bal'[a] < bal[a] /\ Len(frames') >= Len(frames))
              => Running.address \in {a, Token} /\ ~Running.static]_vars

\* While a static frame is open no balance changes, whatever is called from it.
StaticFramesMoveNothing ==
    \A i \in DOMAIN frames : frames[i].static => bal = frames[i].saved

\* A call of the precompile that fails gives back the value it was called with and moves
\* nothing.
FailedTransferMovesNothing ==
    [][(frames' = frames /\ outcome' # "ok") => bal' = bal]_vars

\* The precompile and the calls around it only move money.
SupplyIsConserved == SumFunction(bal) = SumFunction(InitialBalance)
=============================================================================
