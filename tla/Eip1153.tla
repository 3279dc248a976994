------------------------------- MODULE Eip1153 -------------------------------
(***************************************************************************)
(* What TSTORE and TLOAD promise, as EIP-1153 puts it: storage of the      *)
(* account in whose name the code runs, which a failing frame takes back   *)
(* to where it was when the frame began, which nothing below a static call *)
(* changes, and which is empty when a transaction begins.                  *)
(***************************************************************************)
EXTENDS Integers, Sequences

CONSTANTS Addresses, Keys, Values, NoAnswer

VARIABLES
    storage,    \* the transient storage of every account
    calls,      \* the open frames: owner, static, and the storage at their beginning
    answer      \* what the last TLOAD found, NoAnswer after anything else

vars == <<storage, calls, answer>>

Empty == [slot \in Addresses \X Keys |-> 0]
Top   == calls[Len(calls)]
Call(owner, static) == [owner |-> owner, static |-> static, saved |-> storage]

Init == storage = Empty /\ calls = << >> /\ answer = NoAnswer

Begin(a) ==
    /\ calls = << >> /\ storage = Empty
    /\ calls' = <<Call(a, FALSE)>> /\ answer' = NoAnswer
    /\ UNCHANGED storage

\* The called code runs in the name of a, or of its caller by delegatecall.
Open(a, static) ==
    /\ calls # << >>
    /\ calls' = Append(calls, Call(a, Top.static \/ static))
    /\ answer' = NoAnswer /\ UNCHANGED storage

\* What the outermost frame leaves is gone with the transaction.
End(left) ==
    /\ calls # << >> /\ calls' = SubSeq(calls, 1, Len(calls) - 1)
    /\ storage' = IF Len(calls) = 1 THEN Empty ELSE left
    /\ answer' = NoAnswer

Succeed == End(storage)
Fail    == End(Top.saved)

Store(k, v) ==
    /\ calls # << >> /\ ~Top.static
    /\ storage' = [storage EXCEPT ![<<Top.owner, k>>] = v]
    /\ answer' = NoAnswer /\ UNCHANGED calls

Load(k) ==
    /\ calls # << >> /\ answer' = storage[<<Top.owner, k>>]
    /\ UNCHANGED <<storage, calls>>

Other == answer' = NoAnswer /\ UNCHANGED <<storage, calls>>

Next ==
    \/ \E a \in Addresses : Begin(a)
    \/ \E a \in Addresses, static \in BOOLEAN : Open(a, static)
    \/ Succeed \/ Fail \/ Other
    \/ \E k \in Keys : Load(k) \/ \E v \in Values : Store(k, v)

Spec == Init /\ [][Next]_vars
=============================================================================
