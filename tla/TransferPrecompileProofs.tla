----------------------- MODULE TransferPrecompileProofs -----------------------
(***************************************************************************)
(* Theorems of TransferPrecompile, for any accounts, balances and depth.   *)
(***************************************************************************)
EXTENDS TransferPrecompile, ScrollValidationProofs

Balances == [Accounts -> 0 .. UMAX]

\* What the precompile looks at.
Inputs == [static : BOOLEAN, direct : BOOLEAN, caller : Accounts, gas : Nat, wellFormed : BOOLEAN,
           from : Accounts, to : Accounts, value : 0 .. UMAX]

-----------------------------------------------------------------------------
(* Moving money *)

\* Money that is there and that the receiver can take stays in the U256 when it moves; only the
\* sender has less afterwards, and nobody if it is nothing or goes back to the sender.  All
\* together have what they had.
LEMMA MovedMoney ==
    ASSUME NEW b \in Balances, NEW from \in Accounts, NEW to \in Accounts, NEW v \in 0 .. UMAX,
           v <= b[from], from # to => b[to] + v <= UMAX
    PROVE  /\ Moved(b, from, to, v) \in Balances
           /\ v = 0 => Moved(b, from, to, v) = b
           /\ \A a \in Accounts : Moved(b, from, to, v)[a] < b[a] => a = from
           /\ SumFunction(Moved(b, from, to, v)) = SumFunction(b)
<1> DEFINE c == [b EXCEPT ![from] = @ - v]
           d == [c EXCEPT ![to] = @ + v]
<1>1. UMAX \in Nat
  BY TransferAssumption
<1>2. /\ c = [a \in Accounts |-> IF a = from THEN b[from] - v ELSE b[a]]
      /\ c \in Balances
  <2>1. \A a \in Accounts : b[a] \in 0 .. UMAX
    BY DEF Balances
  <2>2. b[from] - v \in 0 .. UMAX
    BY <1>1, <2>1
  <2>3. c = [a \in Accounts |-> IF a = from THEN b[from] - v ELSE b[a]]
    BY DEF Balances
  <2> HIDE DEF c
  <2> QED BY <2>1, <2>2, <2>3 DEF Balances
<1> HIDE DEF c
<1>3. /\ d = [a \in Accounts |-> IF a = to THEN c[to] + v ELSE c[a]]
      /\ \A a \in Accounts : c[a] \in 0 .. UMAX /\ b[a] \in 0 .. UMAX
  BY <1>2 DEF Balances
<1>4. c[to] + v \in 0 .. UMAX
  BY <1>1, <1>2, <1>3
<1> HIDE DEF d
<1>5. d \in Balances
  BY <1>3, <1>4 DEF Balances
<1>6. v = 0 => \A a \in Accounts : d[a] = b[a]
  BY <1>2, <1>3
<1>7. b = [a \in Accounts |-> b[a]] /\ d = [a \in Accounts |-> d[a]]
  BY <1>5 DEF Balances
<1>8. v = 0 => d = b
  BY <1>6, <1>7
<1>9. \A a \in Accounts : d[a] < b[a] => a = from
  BY <1>2, <1>3
<1>10. SumFunction(d) = SumFunction(b)
  <2>1. IsFiniteSet(Accounts) /\ v \in Int /\ -v \in Int
    BY <1>1, TransferAssumption
  <2>2. b \in [Accounts -> Int] /\ c \in [Accounts -> Int] /\ d \in [Accounts -> Int]
    BY <1>2, <1>5 DEF Balances
  <2>3. c[from] = b[from] + (-v) /\ \A a \in Accounts : a # from => c[a] = b[a]
    BY <1>1, <1>2, <1>3
  <2>4. d[to] = c[to] + v /\ \A a \in Accounts : a # to => d[a] = c[a]
    BY <1>3
  <2>5. SumFunction(b) \in Int /\ SumFunction(c) = SumFunction(b) + (-v)
    BY <2>1, <2>2, <2>3, SumChanges
  <2>6. SumFunction(d) = SumFunction(c) + v
    BY <2>1, <2>2, <2>4, SumChanges
  <2> DEFINE sb == SumFunction(b)
             sc == SumFunction(c)
             sd == SumFunction(d)
  <2>7. sb \in Int /\ sc = sb + (-v) /\ sd = sc + v
    BY <2>5, <2>6
  <2> HIDE DEF sb, sc, sd
  <2>8. sd = sb
    BY <2>1, <2>7
  <2> QED BY <2>8 DEF sb, sd
<1> QED BY <1>5, <1>8, <1>9, <1>10 DEF Moved, c, d

\* A list of five checks reports nothing only when all five have passed, and otherwise the
\* error of one of them.
LEMMA FiveChecksResult ==
    ASSUME NEW p, NEW q, NEW r, NEW y, NEW z
    PROVE  LET e == FirstError(<<p, q, r, y, z>>)
           IN  /\ e = Ok \/ e \in {p[2], q[2], r[2], y[2], z[2]}
               /\ p[1] \/ q[1] \/ r[1] \/ y[1] \/ z[1] => e \in {p[2], q[2], r[2], y[2], z[2]}
<1> DEFINE l == <<p, q, r, y, z>>
<1>1. /\ DOMAIN l = 1 .. 5 /\ l[1] = p /\ l[2] = q /\ l[3] = r /\ l[4] = y /\ l[5] = z
  OBVIOUS
<1> HIDE DEF l
<1>2. /\ DOMAIN l = {1, 2, 3, 4, 5} /\ DOMAIN l \subseteq Nat
  BY <1>1
<1>3. ErrorsOf(l) \subseteq {p[2], q[2], r[2], y[2], z[2]}
  BY <1>1, <1>2, Zenon DEF ErrorsOf
<1>4. p[1] \/ q[1] \/ r[1] \/ y[1] \/ z[1] => \E i \in DOMAIN l : l[i][1]
  BY <1>1, <1>2, Zenon
<1>5. /\ FirstError(l) \in {Ok} \cup ErrorsOf(l)
      /\ (\E i \in DOMAIN l : l[i][1]) => FirstError(l) \in ErrorsOf(l)
  BY <1>2, ReportedErrorIsAFailure, Zenon
<1> QED BY <1>3, <1>4, <1>5, Zenon DEF l

\* Past the checks of its context the precompile is called directly by the token, outside static
\* frames.
LEMMA ContextChecksResult ==
    ASSUME NEW in \in Inputs
    PROVE  /\ ContextChecks(in) \in {Ok, "error", "out_of_gas"}
           /\ ContextChecks(in) = Ok => ~in.static /\ in.direct /\ in.caller = Token
<1> DEFINE c1 == in.static
           c2 == ~in.direct
           c3 == in.caller # Token
           c4 == in.gas < GAS_COST
           c5 == ~in.wellFormed
           p == <<c1, "error">>
           q == <<c2, "error">>
           r == <<c3, "error">>
           y == <<c4, "out_of_gas">>
           z == <<c5, "error">>
<1>1. ContextChecks(in) = FirstError(<<p, q, r, y, z>>)
  BY DEF ContextChecks
<1>2. c1 \in BOOLEAN /\ c2 \in BOOLEAN /\ c3 \in BOOLEAN
  BY DEF Inputs
<1>3. /\ c1 => in.static
      /\ ~c1 /\ ~c2 /\ ~c3 => ~in.static /\ in.direct /\ in.caller = Token
  OBVIOUS
<1> HIDE DEF c1, c2, c3, c4, c5
<1>4. /\ p[1] = c1 /\ q[1] = c2 /\ r[1] = c3
      /\ p[2] = "error" /\ q[2] = "error" /\ r[2] = "error"
      /\ y[2] = "out_of_gas" /\ z[2] = "error"
  OBVIOUS
<1> HIDE DEF p, q, r, y, z
<1>5. LET e == ContextChecks(in)
      IN  /\ e = Ok \/ e \in {"error", "out_of_gas"}
          /\ p[1] \/ q[1] \/ r[1] => e \in {"error", "out_of_gas"}
  BY <1>1, <1>4, FiveChecksResult
<1>6. "error" # Ok /\ "out_of_gas" # Ok
  BY DEF Ok
<1> QED BY <1>2, <1>3, <1>4, <1>5, <1>6

\* A call of the precompile that succeeds has moved the amount from an account that had it to one
\* that can take it; a call that fails leaves the balances as they were before it, the value
\* that came with it included.
LEMMA TransferResult ==
    ASSUME bal \in Balances, NEW b \in Balances, NEW in \in Inputs
    PROVE  /\ Outcome(b, in) \in {"ok", "reverted", "error", "out_of_gas"}
           /\ Outcome(b, in) # "ok" => After(b, in) = bal
           /\ Outcome(b, in) = "ok" =>
                 /\ ContextChecks(in) = Ok
                 /\ in.value <= b[in.from] /\ (in.from # in.to => b[in.to] + in.value <= UMAX)
                 /\ After(b, in) = Moved(b, in.from, in.to, in.value)
<1> DEFINE overdrawn == b[in.from] < in.value
           over      == ReceiverOverflows(b, in)
           j         == JournalTransfer(b, in)
<1>1. /\ in.from \in Accounts /\ in.value \in 0 .. UMAX
      /\ b[in.from] \in Nat /\ UMAX \in Nat /\ (in.from # in.to => b[in.to] \in Nat)
  BY TransferAssumption DEF Inputs, Balances
<1>2. overdrawn => ~j.ok /\ j.lost = 0
  BY DEF JournalTransfer
<1>3. ~overdrawn /\ ~over => j.ok /\ j.bal = Moved(b, in.from, in.to, in.value)
  BY DEF JournalTransfer, ReceiverOverflows
<1>4. over \in BOOLEAN /\ (~over /\ in.from # in.to => b[in.to] + in.value <= UMAX)
  BY <1>1 DEF ReceiverOverflows
<1>5. [bal EXCEPT ![in.from] = @ - 0] = bal
  <2>1. bal[in.from] - 0 = bal[in.from]
    BY <1>1, TransferAssumption DEF Balances
  <2> QED BY <2>1 DEF Balances
<1> HIDE DEF overdrawn, over, j
<1>6. /\ Outcome(b, in) = IF ContextChecks(in) # Ok THEN ContextChecks(in)
                          ELSE IF over \/ ~j.ok THEN "reverted" ELSE "ok"
      /\ After(b, in) = IF Outcome(b, in) = "ok" THEN j.bal
                        ELSE IF ContextChecks(in) # Ok \/ over THEN bal
                        ELSE [bal EXCEPT ![in.from] = @ - j.lost]
  BY DEF Outcome, After, over, j
<1>7. ContextChecks(in) \in {"ok", "error", "out_of_gas"}
  BY ContextChecksResult DEF Ok
<1>8. Outcome(b, in) \in {"ok", "reverted", "error", "out_of_gas"}
  BY <1>6, <1>7
<1>9. ASSUME Outcome(b, in) # "ok" PROVE After(b, in) = bal
  <2>1. CASE ContextChecks(in) # Ok \/ over
    BY <1>6, <1>9, <2>1
  <2>2. CASE ContextChecks(in) = Ok /\ ~over
    <3>1. ~j.ok
      BY <1>6, <1>9, <2>2
    <3>2. j.lost = 0
      BY <1>2, <1>3, <2>2, <3>1
    <3> QED BY <1>5, <1>6, <1>9, <2>2, <3>2
  <2> QED BY <2>1, <2>2, <1>4
<1>10. ASSUME Outcome(b, in) = "ok"
       PROVE  /\ ContextChecks(in) = Ok /\ ~over /\ ~overdrawn
              /\ After(b, in) = Moved(b, in.from, in.to, in.value)
  <2>1. ContextChecks(in) = Ok /\ ~over /\ j.ok
    BY <1>6, <1>7, <1>10 DEF Ok
  <2> QED BY <1>2, <1>3, <1>6, <1>10, <2>1
<1>11. ~overdrawn => in.value <= b[in.from]
  BY <1>1 DEF overdrawn
<1> QED BY <1>4, <1>8, <1>9, <1>10, <1>11

-----------------------------------------------------------------------------
(* The inductive invariant *)

\* Frames act in the name of contracts or of Origin, so none in the precompile's own, and a call
\* made from a static frame is static: the open static frames are the last ones.
FramesInv ==
    /\ \A i \in DOMAIN frames : frames[i].address # Transfer
    /\ \A i, j \in DOMAIN frames : (i <= j /\ frames[i].static) => frames[j].static

IInv == TypeOK /\ FramesInv /\ StaticFramesMoveNothing

\* The running frame.
LEMMA RunningFrame ==
    ASSUME IInv, frames # << >>
    PROVE  /\ Len(frames) \in DOMAIN frames /\ Len(frames) \in Nat \ {0}
           /\ DOMAIN frames = 1 .. Len(frames)
           /\ Running \in FrameRecords
           /\ Running.address \in Accounts /\ Running.address # Transfer
           /\ Running.saved \in Balances
           /\ \A i \in DOMAIN frames : i <= Len(frames) /\ (frames[i].static => Running.static)
           /\ Running.static => bal = Running.saved
<1>1. frames \in Seq(FrameRecords)
  BY DEF IInv, TypeOK
<1>2. DOMAIN frames = 1 .. Len(frames) /\ Len(frames) \in Nat \ {0} /\ Running \in FrameRecords
  BY <1>1 DEF Running
<1>3. Len(frames) \in DOMAIN frames
  BY <1>2
<1>4. Running.address # Transfer
  BY <1>3 DEF IInv, FramesInv, Running
<1>5. Running.address \in Accounts
  BY <1>2 DEF FrameRecords
<1>6. Running.saved \in Balances
  BY <1>2 DEF FrameRecords, Balances
<1>7. \A i \in DOMAIN frames : i <= Len(frames) /\ (frames[i].static => Running.static)
  BY <1>2, <1>3 DEF IInv, FramesInv, Running
<1>8. Running.static => bal = Running.saved
  BY <1>3 DEF IInv, StaticFramesMoveNothing, Running
<1> QED BY <1>2, <1>3, <1>4, <1>5, <1>6, <1>7, <1>8

\* The value of a call leaves the account the code acts for, and none leaves a static frame.
LEMMA ValueOfACall ==
    ASSUME IInv, NEW scheme \in Schemes, NEW target \in Accounts, NEW value \in Values,
           MayCall(scheme, target, value)
    PROVE  LET b == WithValue(scheme, target, value)
           IN  /\ b \in Balances
               /\ Running.static \/ scheme # "call" => b = bal
               /\ \A a \in Accounts : b[a] < bal[a] => a = Running.address
               /\ SumFunction(b) = SumFunction(bal)
<1> DEFINE b == WithValue(scheme, target, value)
<1>1. bal \in Balances /\ value \in 0 .. UMAX /\ frames # << >>
  BY TransferAssumption DEF IInv, TypeOK, Balances, MayCall
<1>2. CASE scheme = "call"
  <2>1. b = Moved(bal, Running.address, target, value)
    BY <1>2 DEF WithValue
  <2>2. /\ value <= bal[Running.address]
        /\ Running.address # target => bal[target] + value <= UMAX
        /\ Running.static => value = 0
    BY <1>2 DEF MayCall
  <2>3. Running.address \in Accounts
    BY <1>1, RunningFrame
  <2>4. /\ b \in Balances /\ (value = 0 => b = bal)
        /\ \A a \in Accounts : b[a] < bal[a] => a = Running.address
        /\ SumFunction(b) = SumFunction(bal)
    BY <1>1, <2>1, <2>2, <2>3, MovedMoney
  <2> QED BY <1>2, <2>2, <2>4
<1>3. CASE scheme # "call"
  <2>1. b = bal
    BY <1>3 DEF WithValue
  <2>2. \A a \in Accounts : ~(bal[a] < bal[a])
    BY <1>1, TransferAssumption DEF Balances
  <2> QED BY <1>1, <2>1, <2>2
<1> QED BY <1>2, <1>3

\* A frame that ends leaves the frames below it.
LEMMA FramesBelow ==
    ASSUME IInv, frames # << >>
    PROVE  LET below == SubSeq(frames, 1, Len(frames) - 1)
           IN  /\ below \in Seq(FrameRecords) /\ Len(below) = Len(frames) - 1
               /\ DOMAIN below \subseteq DOMAIN frames
               /\ \A i \in DOMAIN below : below[i] = frames[i]
<1>1. frames \in Seq(FrameRecords) /\ Len(frames) \in Nat \ {0} /\ DOMAIN frames = 1 .. Len(frames)
  BY RunningFrame DEF IInv, TypeOK
<1> QED BY <1>1

\* A call of the precompile: unless the database fails, which ends the transaction, it moves
\* money only if it succeeds, and then the token's own code has called it outside static frames.
LEMMA CallTransferStep ==
    ASSUME IInv, NEW scheme \in Schemes, NEW callValue \in Values, NEW gas \in Gases,
           NEW wellFormed \in BOOLEAN, NEW from \in Accounts, NEW to \in Accounts,
           NEW value \in Values, CallTransfer(scheme, callValue, gas, wellFormed, from, to, value)
    PROVE  /\ bal' \in Balances /\ outcome' \in Outcomes /\ calls' = calls + 1 /\ frames # << >>
           /\ SumFunction(bal') \in {SumFunction(bal), SumFunction(InitialBalance)}
           /\ \/ frames' = << >>
              \/ /\ frames' = frames
                 /\ outcome' # "ok" => bal' = bal
                 /\ outcome' = "ok" => Running.address = Token /\ ~Running.static
<1> DEFINE callee == Callee(scheme, Transfer)
           b      == WithValue(scheme, Transfer, callValue)
           in     == [static |-> callee.static, direct |-> callee.address = Transfer,
                      caller |-> callee.caller, gas |-> gas, wellFormed |-> wellFormed,
                      from |-> from, to |-> to, value |-> value]
<1>1. /\ MayCall(scheme, Transfer, callValue) /\ calls' = calls + 1 /\ frames # << >>
      /\ \/ outcome' = Outcome(b, in) /\ bal' = After(b, in) /\ frames' = frames
         \/ outcome' = "fatal" /\ bal' = InitialBalance /\ frames' = << >>
  BY DEF CallTransfer, MayCall
<1>2. b \in Balances /\ bal \in Balances /\ SumFunction(b) = SumFunction(bal)
  BY <1>1, ValueOfACall, TransferAssumption DEF IInv, TypeOK, Balances
<1>3. /\ callee.static = (Running.static \/ scheme = "staticcall")
      /\ callee.address = Transfer => scheme \in {"call", "staticcall"}
      /\ callee.caller = IF scheme = "delegatecall" THEN Running.caller ELSE Running.address
  BY <1>1, RunningFrame DEF Callee
<1>4. /\ Running.caller \in Accounts /\ Running.address \in Accounts /\ Running.static \in BOOLEAN
      /\ gas \in Nat /\ value \in 0 .. UMAX
  BY <1>1, RunningFrame, TransferAssumption DEF FrameRecords
<1> HIDE DEF callee, b
<1>5. /\ in \in Inputs
      /\ in.static = callee.static /\ in.direct = (callee.address = Transfer)
      /\ in.caller = callee.caller /\ in.from = from /\ in.to = to /\ in.value = value
  BY <1>3, <1>4 DEF Inputs
<1> HIDE DEF in
<1>6. CASE frames' = << >> /\ bal' = InitialBalance /\ outcome' = "fatal"
  BY <1>1, <1>6, TransferAssumption DEF Balances, Outcomes
<1>7. CASE outcome' = Outcome(b, in) /\ bal' = After(b, in) /\ frames' = frames
  <2>1. outcome' \in Outcomes /\ (outcome' # "ok" => bal' = bal)
    BY <1>2, <1>5, <1>7, TransferResult DEF Outcomes
  <2>2. ASSUME outcome' = "ok"
        PROVE  /\ bal' \in Balances /\ Running.address = Token /\ ~Running.static
               /\ SumFunction(bal') = SumFunction(bal)
    <3>1. /\ ContextChecks(in) = Ok /\ bal' = Moved(b, from, to, value)
          /\ value <= b[from] /\ (from # to => b[to] + value <= UMAX)
      BY <1>2, <1>5, <1>7, <2>2, TransferResult
    <3>2. ~callee.static /\ callee.address = Transfer /\ callee.caller = Token
      BY <1>5, <3>1, ContextChecksResult
    <3>3. Running.address = Token /\ ~Running.static
      BY <1>3, <3>2
    <3>4. bal' \in Balances /\ SumFunction(bal') = SumFunction(bal)
      BY <1>2, <1>4, <3>1, MovedMoney
    <3> QED BY <3>3, <3>4
  <2> QED BY <1>1, <1>2, <1>7, <2>1, <2>2
<1> QED BY <1>1, <1>6, <1>7

\* A call of a contract: the new frame is above the others and remembers the balances.
LEMMA CallContractStep ==
    ASSUME IInv, NEW scheme \in Schemes, NEW target \in Contracts, NEW value \in Values,
           CallContract(scheme, target, value)
    PROVE  /\ bal' \in Balances /\ frames # << >> /\ Len(frames') = Len(frames) + 1
           /\ Running.static => bal' = bal
           /\ \A a \in Accounts : bal'[a] < bal[a] => a = Running.address
           /\ SumFunction(bal') = SumFunction(bal) /\ frames' = Append(frames, Callee(scheme, target))
           /\ Callee(scheme, target).saved = bal
           /\ IInv'
<1> DEFINE callee == Callee(scheme, target)
<1>1. /\ MayCall(scheme, target, value) /\ bal' = WithValue(scheme, target, value)
      /\ frames # << >> /\ frames' = Append(frames, callee)
      /\ calls' = calls + 1 /\ outcome' = outcome
  BY DEF CallContract, MayCall
<1>2. target \in Accounts /\ target # Transfer
  BY TransferAssumption
<1>3. /\ bal' \in Balances
      /\ Running.static \/ scheme # "call" => bal' = bal
      /\ \A a \in Accounts : bal'[a] < bal[a] => a = Running.address
      /\ SumFunction(bal') = SumFunction(bal)
  BY <1>1, <1>2, ValueOfACall
<1>4. /\ frames \in Seq(FrameRecords) /\ DOMAIN frames = 1 .. Len(frames) /\ Len(frames) \in Nat \ {0}
      /\ Running.address # Transfer /\ Running \in FrameRecords /\ bal \in Balances
      /\ \A i \in DOMAIN frames : frames[i].static => Running.static
  BY <1>1, RunningFrame DEF IInv, TypeOK, Balances
<1>5. /\ callee \in FrameRecords /\ callee.address # Transfer
      /\ callee.saved = bal /\ (callee.static => Running.static \/ scheme # "call")
      /\ Running.static => callee.static
  BY <1>2, <1>4, TransferAssumption DEF Callee, FrameRecords, Balances
<1> HIDE DEF callee
<1>6. /\ frames' \in Seq(FrameRecords) /\ Len(frames') = Len(frames) + 1
      /\ DOMAIN frames' = 1 .. Len(frames) + 1
      /\ \A i \in 1 .. Len(frames) : frames'[i] = frames[i]
      /\ frames'[Len(frames) + 1] = callee
  BY <1>1, <1>4, <1>5
<1>7. TypeOK'
  BY <1>1, <1>3, <1>6 DEF IInv, TypeOK, Balances
<1>8. ASSUME NEW i \in DOMAIN frames' PROVE frames'[i].address # Transfer
  BY <1>4, <1>5, <1>6 DEF IInv, FramesInv
<1>9. ASSUME NEW i \in DOMAIN frames', NEW j \in DOMAIN frames', i <= j, frames'[i].static
      PROVE  frames'[j].static
  <2>1. CASE j = Len(frames) + 1
    BY <1>4, <1>5, <1>6, <1>9, <2>1
  <2>2. CASE j # Len(frames) + 1
    <3>1. i \in DOMAIN frames /\ j \in DOMAIN frames
      BY <1>4, <1>6, <1>9, <2>2
    <3> QED BY <1>4, <1>6, <1>9, <3>1 DEF IInv, FramesInv
  <2> QED BY <2>1, <2>2
<1>10. ASSUME NEW i \in DOMAIN frames', frames'[i].static PROVE bal' = frames'[i].saved
  <2>1. CASE i = Len(frames) + 1
    BY <1>3, <1>5, <1>6, <1>10, <2>1
  <2>2. CASE i # Len(frames) + 1
    <3>1. i \in DOMAIN frames /\ frames'[i] = frames[i]
      BY <1>4, <1>6, <2>2
    <3>2. bal = frames[i].saved /\ Running.static
      BY <1>4, <1>10, <3>1 DEF IInv, StaticFramesMoveNothing
    <3> QED BY <1>3, <3>1, <3>2
  <2> QED BY <2>1, <2>2
<1>11. FramesInv' /\ StaticFramesMoveNothing'
  BY <1>8, <1>9, <1>10 DEF FramesInv, StaticFramesMoveNothing
<1> QED BY <1>1, <1>3, <1>5, <1>6, <1>7, <1>11 DEF IInv, callee

\* The end of a frame: the frames below it stay, and no static one among them sees another
\* balance, whether the frame returns or reverts.
LEMMA EndOfFrameStep ==
    ASSUME IInv, Return \/ Revert
    PROVE  /\ frames # << >> /\ Len(frames') = Len(frames) - 1
           /\ IInv'
<1> DEFINE below == SubSeq(frames, 1, Len(frames) - 1)
<1>1. /\ frames # << >> /\ frames' = below /\ bal' \in {bal, Running.saved}
      /\ calls' = calls /\ outcome' = outcome
  BY DEF Return, Revert
<1>2. /\ below \in Seq(FrameRecords) /\ Len(below) = Len(frames) - 1
      /\ DOMAIN below \subseteq DOMAIN frames
      /\ \A i \in DOMAIN below : below[i] = frames[i]
  BY <1>1, FramesBelow
<1> HIDE DEF below
<1>3. TypeOK'
  BY <1>1, <1>2, RunningFrame DEF IInv, TypeOK, Balances
<1>4. FramesInv'
  BY <1>1, <1>2 DEF IInv, FramesInv
<1>5. ASSUME NEW i \in DOMAIN below, below[i].static PROVE bal' = below[i].saved
  <2>1. bal = frames[i].saved /\ Running.static /\ bal = Running.saved
    BY <1>1, <1>2, <1>5, RunningFrame DEF IInv, StaticFramesMoveNothing
  <2> QED BY <1>1, <1>2, <2>1
<1>6. StaticFramesMoveNothing'
  BY <1>1, <1>5 DEF StaticFramesMoveNothing
<1> QED BY <1>1, <1>2, <1>3, <1>4, <1>6 DEF IInv

-----------------------------------------------------------------------------
(* Theorems *)

\* The transaction starts with one frame, which is not static.
LEMMA InitEstablishesIInv == Init => IInv
<1> SUFFICES ASSUME Init PROVE IInv
  OBVIOUS
<1>1. PICK c \in Contracts \cup {Origin} :
         frames = <<[address |-> c, caller |-> Origin, static |-> FALSE, saved |-> bal]>>
  BY DEF Init
<1>2. bal \in Balances /\ calls = 0 /\ outcome = "none" /\ c \in Accounts /\ Origin \in Accounts
      /\ c # Transfer
  BY TransferAssumption DEF Init, Balances
<1> DEFINE f == [address |-> c, caller |-> Origin, static |-> FALSE, saved |-> bal]
<1>3. f \in FrameRecords /\ f.address = c /\ ~f.static
  BY <1>2 DEF FrameRecords, Balances
<1> HIDE DEF f
<1>4. frames = <<f>>
  BY <1>1 DEF f
<1>5. frames \in Seq(FrameRecords) /\ DOMAIN frames = {1} /\ frames[1] = f
  BY <1>3, <1>4
<1> QED BY <1>2, <1>3, <1>5 DEF IInv, TypeOK, FramesInv, StaticFramesMoveNothing, Balances, Outcomes

\* Every step keeps the invariant.
LEMMA NextKeepsIInv == IInv /\ [Next]_vars => IInv'
<1> SUFFICES ASSUME IInv, [Next]_vars PROVE IInv'
  OBVIOUS
<1>1. ASSUME NEW scheme \in Schemes, NEW target \in Contracts, NEW value \in Values,
             CallContract(scheme, target, value)
      PROVE  IInv'
  BY <1>1, CallContractStep
<1>2. CASE Return \/ Revert
  BY <1>2, EndOfFrameStep
<1>3. ASSUME NEW scheme \in Schemes, NEW callValue \in Values, NEW gas \in Gases,
             NEW wellFormed \in BOOLEAN, NEW from \in Accounts, NEW to \in Accounts,
             NEW value \in Values, CallTransfer(scheme, callValue, gas, wellFormed, from, to, value)
      PROVE  IInv'
  <2>1. /\ bal' \in Balances /\ outcome' \in Outcomes /\ calls' = calls + 1 /\ frames # << >>
        /\ \/ frames' = << >>
           \/ /\ frames' = frames
              /\ outcome' # "ok" => bal' = bal
              /\ outcome' = "ok" => Running.address = Token /\ ~Running.static
    BY <1>3, CallTransferStep
  <2>2. CASE frames' = << >>
    <3>1. frames' \in Seq(FrameRecords) /\ DOMAIN frames' = {}
      BY <2>2
    <3> QED BY <2>1, <3>1 DEF IInv, TypeOK, FramesInv, StaticFramesMoveNothing, Balances
  <2>3. CASE frames' = frames
    <3>1. frames # << >>
      BY <2>1
    <3>2. Running.static => bal' = bal
      BY <2>1, <2>3
    <3>3. \A i \in DOMAIN frames : frames[i].static => bal' = frames[i].saved
      BY <3>1, <3>2, RunningFrame DEF IInv, StaticFramesMoveNothing
    <3> QED BY <2>1, <2>3, <3>3 DEF IInv, TypeOK, FramesInv, StaticFramesMoveNothing, Balances
  <2> QED BY <2>1, <2>2, <2>3
<1>4. CASE UNCHANGED vars
  BY <1>4 DEF vars, IInv, TypeOK, FramesInv, StaticFramesMoveNothing
<1> QED BY <1>1, <1>2, <1>3, <1>4 DEF Next

\* The invariant holds in every reachable state.
LEMMA Inductive == Spec => []IInv
BY InitEstablishesIInv, NextKeepsIInv, PTL DEF Spec

\* No balance leaves the U256, not even in a checkpoint, whatever the precompile is asked for.
THEOREM BalancesFitIn256Bits == Spec => []TypeOK
<1>1. IInv => TypeOK
  BY DEF IInv
<1> QED BY <1>1, Inductive, PTL

\* While a static frame is open no balance changes, however many calls are made from it.
THEOREM StaticFramesAreSafe == Spec => []StaticFramesMoveNothing
<1>1. IInv => StaticFramesMoveNothing
  BY DEF IInv
<1> QED BY <1>1, Inductive, PTL

\* Money leaves an account only when code acting for it sends it, or when the token's own code,
\* outside static frames, has the precompile move it.
THEOREM OnlyTheTokenCanUseThePrecompile == Spec => OnlyTheTokenMovesOthersMoney
<1> DEFINE Step == \A a \in Accounts :
                      (bal'[a] < bal[a] /\ Len(frames') >= Len(frames))
                          => Running.address \in {a, Token} /\ ~Running.static
<1>1. ASSUME IInv, Next, NEW a \in Accounts, bal'[a] < bal[a], Len(frames') >= Len(frames)
      PROVE  Running.address \in {a, Token} /\ ~Running.static
  <2>1. bal[a] \in Int /\ bal' # bal
    BY <1>1, TransferAssumption DEF IInv, TypeOK
  <2>2. ASSUME NEW scheme \in Schemes, NEW target \in Contracts, NEW value \in Values,
               CallContract(scheme, target, value)
        PROVE  Running.address \in {a, Token} /\ ~Running.static
    BY <1>1, <2>1, <2>2, CallContractStep
  <2>3. ~(Return \/ Revert)
    <3>1. frames # << >> => Len(frames) \in Nat
      BY <1>1, RunningFrame
    <3> QED BY <1>1, <3>1, EndOfFrameStep
  <2>4. ASSUME NEW scheme \in Schemes, NEW callValue \in Values, NEW gas \in Gases,
               NEW wellFormed \in BOOLEAN, NEW from \in Accounts, NEW to \in Accounts,
               NEW value \in Values,
               CallTransfer(scheme, callValue, gas, wellFormed, from, to, value)
        PROVE  Running.address \in {a, Token} /\ ~Running.static
    <3>1. /\ frames # << >>
          /\ \/ frames' = << >>
             \/ /\ outcome' # "ok" => bal' = bal
                /\ outcome' = "ok" => Running.address = Token /\ ~Running.static
      BY <1>1, <2>4, CallTransferStep
    <3>2. frames' # << >>
      <4>1. Len(frames) \in Nat \ {0}
        BY <1>1, <3>1, RunningFrame
      <4> QED BY <1>1, <4>1
    <3> QED BY <2>1, <3>1, <3>2
  <2> QED BY <1>1, <2>2, <2>3, <2>4 DEF Next
<1>2. ASSUME IInv, UNCHANGED vars PROVE Step \/ UNCHANGED vars
  BY <1>2
<1>3. IInv /\ [Next]_vars => [Step]_vars
  BY <1>1, <1>2
<1> QED BY <1>3, Inductive, PTL DEF Spec, OnlyTheTokenMovesOthersMoney

\* A call of the precompile that fails leaves every balance as it was, the value it was called
\* with included.
THEOREM FailedTransfersAreUndone == Spec => FailedTransferMovesNothing
<1> DEFINE Step == (frames' = frames /\ outcome' # "ok") => bal' = bal
<1>1. ASSUME IInv, Next, frames' = frames, outcome' # "ok" PROVE bal' = bal
  <2>1. frames # << >> => Len(frames) \in Nat
    BY <1>1, RunningFrame
  <2>2. ~(Return \/ Revert)
    BY <1>1, <2>1, EndOfFrameStep
  <2>3. ASSUME NEW scheme \in Schemes, NEW target \in Contracts, NEW value \in Values,
               CallContract(scheme, target, value)
        PROVE  FALSE
    BY <1>1, <2>1, <2>3, CallContractStep
  <2>4. ASSUME NEW scheme \in Schemes, NEW callValue \in Values, NEW gas \in Gases,
               NEW wellFormed \in BOOLEAN, NEW from \in Accounts, NEW to \in Accounts,
               NEW value \in Values,
               CallTransfer(scheme, callValue, gas, wellFormed, from, to, value)
        PROVE  bal' = bal
    BY <1>1, <2>4, CallTransferStep
  <2> QED BY <1>1, <2>2, <2>3, <2>4 DEF Next
<1>2. IInv /\ [Next]_vars => [Step]_vars
  BY <1>1
<1> QED BY <1>2, Inductive, PTL DEF Spec, FailedTransferMovesNothing

\* What frames would go back to adds up to the same.
SupplyInv ==
    /\ SupplyIsConserved
    /\ \A i \in DOMAIN frames : SumFunction(frames[i].saved) = SumFunction(InitialBalance)

\* Every step keeps the supply, in the frames' checkpoints too.
LEMMA NextKeepsSupply ==
    ASSUME IInv, SupplyInv, [Next]_vars
    PROVE  SupplyInv'
<1>1. ASSUME NEW scheme \in Schemes, NEW target \in Contracts, NEW value \in Values,
             CallContract(scheme, target, value)
      PROVE  SupplyInv'
  <2> DEFINE callee == Callee(scheme, target)
  <2>1. /\ SumFunction(bal') = SumFunction(bal) /\ frames' = Append(frames, callee)
        /\ callee.saved = bal
    BY <1>1, CallContractStep
  <2> HIDE DEF callee
  <2>2. \A i \in DOMAIN frames' : frames'[i] = callee \/ (i \in DOMAIN frames /\ frames'[i] = frames[i])
    BY <2>1 DEF IInv, TypeOK
  <2> QED BY <2>1, <2>2 DEF SupplyInv, SupplyIsConserved
<1>2. CASE Return \/ Revert
  <2>1. frames # << >> /\ frames' = SubSeq(frames, 1, Len(frames) - 1) /\ bal' \in {bal, Running.saved}
    BY <1>2 DEF Return, Revert
  <2>2. Len(frames) \in DOMAIN frames
    BY <2>1, RunningFrame
  <2>3. \A i \in DOMAIN frames' : i \in DOMAIN frames /\ frames'[i] = frames[i]
    BY <2>1, FramesBelow
  <2> QED BY <2>1, <2>2, <2>3 DEF SupplyInv, SupplyIsConserved, Running
<1>3. ASSUME NEW scheme \in Schemes, NEW callValue \in Values, NEW gas \in Gases,
             NEW wellFormed \in BOOLEAN, NEW from \in Accounts, NEW to \in Accounts,
             NEW value \in Values, CallTransfer(scheme, callValue, gas, wellFormed, from, to, value)
      PROVE  SupplyInv'
  <2>1. /\ SumFunction(bal') \in {SumFunction(bal), SumFunction(InitialBalance)}
        /\ frames' = << >> \/ frames' = frames
    BY <1>3, CallTransferStep
  <2>2. frames' = << >> => DOMAIN frames' = {}
    OBVIOUS
  <2> QED BY <2>1, <2>2 DEF SupplyInv, SupplyIsConserved
<1>4. CASE UNCHANGED vars
  BY <1>4 DEF vars, SupplyInv, SupplyIsConserved
<1> QED BY <1>1, <1>2, <1>3, <1>4 DEF Next

\* Whatever calls nest, revert or fail in the precompile, with whatever balances close to the
\* largest U256: no money is made and none is lost.
THEOREM SupplyNeverChanges == Spec => []SupplyIsConserved
<1>1. Init => SupplyInv
  <2> SUFFICES ASSUME Init PROVE SupplyInv
    OBVIOUS
  <2>1. PICK c \in Contracts \cup {Origin} :
           frames = <<[address |-> c, caller |-> Origin, static |-> FALSE, saved |-> bal]>>
    BY DEF Init
  <2> DEFINE f == [address |-> c, caller |-> Origin, static |-> FALSE, saved |-> bal]
  <2>2. f.saved = bal /\ frames = <<f>>
    BY <2>1
  <2> HIDE DEF f
  <2>3. DOMAIN frames = {1} /\ frames[1] = f
    BY <2>2
  <2> QED BY <2>2, <2>3 DEF Init, SupplyInv, SupplyIsConserved
<1>2. IInv /\ SupplyInv /\ [Next]_vars => SupplyInv'
  BY NextKeepsSupply
<1>3. SupplyInv => SupplyIsConserved
  BY DEF SupplyInv
<1> QED BY <1>1, <1>2, <1>3, Inductive, PTL DEF Spec
=============================================================================
