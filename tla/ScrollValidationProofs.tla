------------------------- MODULE ScrollValidationProofs -------------------------
(***************************************************************************)
(* Lemmas about ScrollValidation: what a list of checks reports, and which *)
(* errors validate_env and validate_initial_tx_gas can report for which    *)
(* transaction.  What is known of sums of balances is here too, for the    *)
(* handler and the precompile.                                             *)
(***************************************************************************)
EXTENDS ScrollValidation, Functions, SequenceTheorems, FiniteSetTheorems, WellFoundedInduction, TLAPS

-----------------------------------------------------------------------------
(* Checks: which errors a list of checks can report *)

Errors == {"PrevrandaoNotSet", "ExcessBlobGasNotSet", "InvalidChainId", "MissingChainId",
           "TxGasLimitGreaterThanCap", "CallerGasLimitMoreThanBlock", "CreateInitCodeSizeLimit",
           "GasPriceLessThanBasefee", "PriorityFeeGreaterThanMaxFee", "Eip2930NotSupported",
           "Eip1559NotSupported", "Eip4844NotSupported", "Eip7702NotSupported",
           "EmptyAuthorizationList", "UnsupportedTransactionType", "CallGasCostMoreThanGasLimit",
           "GasFloorMoreThanGasLimit", "RejectCallerWithCode", "NonceMismatch", "OverflowPayment",
           "LackOfFundForMaxFee", "L1FeeError"}
Checks     == BOOLEAN \X Errors
CheckLists == Seq(Checks)

\* The errors of the checks that fail.
ErrorsOf(checks) == {checks[i][2] : i \in {j \in DOMAIN checks : checks[j][1]}}

\* Of any positions there is a first one.
LEMMA FirstPosition ==
    ASSUME NEW T, T \subseteq Nat, T # {}
    PROVE  \E i \in T : \A j \in T : i <= j
<1> DEFINE R == OpToRel(<, Nat)
<1>1. R = {p \in Nat \X Nat : p[1] < p[2]}
  BY Zenon DEF OpToRel
<1>2. IsWellFoundedOn(R, Nat)
  BY NatLessThanWellFounded
<1> HIDE DEF R
<1>3. PICK i \in T : \A j \in T : ~ (<<j, i>> \in R)
  BY <1>2, WFMin, Zenon
<1>4. ASSUME NEW j \in T PROVE i <= j
  <2>1. <<j, i>> \in Nat \X Nat /\ <<j, i>> \notin R
    BY <1>3
  <2>2. ~ (j < i)
    BY <1>1, <2>1
  <2> QED BY <2>1, <2>2
<1> QED BY <1>4

\* A list of checks reports the error of one that fails, if one does.
LEMMA ReportedErrorIsAFailure ==
    ASSUME NEW checks, DOMAIN checks \subseteq Nat
    PROVE  /\ FirstError(checks) \in {Ok} \cup ErrorsOf(checks)
           /\ (\E i \in DOMAIN checks : checks[i][1]) => FirstError(checks) \in ErrorsOf(checks)
<1> DEFINE failing == {i \in DOMAIN checks : checks[i][1]}
           first   == CHOOSE i \in failing : \A j \in failing : i <= j
<1>1. ASSUME failing # {} PROVE FirstError(checks) \in ErrorsOf(checks)
  <2>1. failing \subseteq Nat
    OBVIOUS
  <2>2. first \in failing
    BY <1>1, <2>1, FirstPosition, Zenon
  <2>3. FirstError(checks) = checks[first][2]
    BY <1>1, Zenon DEF FirstError
  <2> QED BY <2>2, <2>3, Zenon DEF ErrorsOf
<1>2. ASSUME failing = {} PROVE FirstError(checks) = Ok
  BY <1>2, Zenon DEF FirstError
<1> QED BY <1>1, <1>2

\* A list of one element, and of two.
LEMMA ShortLists ==
    ASSUME NEW S, NEW p \in S, NEW q \in S
    PROVE  /\ <<p>> \in Seq(S) /\ DOMAIN <<p>> = {1} /\ <<p>>[1] = p
           /\ <<p, q>> \in Seq(S) /\ DOMAIN <<p, q>> = {1, 2}
           /\ <<p, q>>[1] = p /\ <<p, q>>[2] = q
OBVIOUS

\* Two lists, one after the other.
LEMMA MoreChecks ==
    ASSUME NEW s \in CheckLists, NEW t \in CheckLists
    PROVE  /\ s \o t \in CheckLists
           /\ ErrorsOf(s \o t) \subseteq ErrorsOf(s) \cup ErrorsOf(t)
<1>1. /\ s \o t \in CheckLists /\ Len(s \o t) = Len(s) + Len(t)
      /\ \A i \in 1 .. Len(s) + Len(t) : (s \o t)[i] = IF i <= Len(s) THEN s[i] ELSE t[i - Len(s)]
  BY ConcatProperties, Zenon DEF CheckLists
<1>2. /\ DOMAIN s = 1 .. Len(s) /\ DOMAIN t = 1 .. Len(t) /\ DOMAIN (s \o t) = 1 .. Len(s) + Len(t)
      /\ Len(s) \in Nat /\ Len(t) \in Nat
  BY <1>1, LenProperties DEF CheckLists
<1>3. ASSUME NEW i \in DOMAIN (s \o t), (s \o t)[i][1]
      PROVE  (s \o t)[i][2] \in ErrorsOf(s) \cup ErrorsOf(t)
  <2>1. CASE i <= Len(s)
    <3>1. i \in DOMAIN s /\ (s \o t)[i] = s[i]
      BY <1>1, <1>2, <2>1
    <3> QED BY <1>3, <3>1, Zenon DEF ErrorsOf
  <2>2. CASE ~(i <= Len(s))
    <3>1. i - Len(s) \in DOMAIN t /\ (s \o t)[i] = t[i - Len(s)]
      BY <1>1, <1>2, <2>2
    <3> QED BY <1>3, <3>1, Zenon DEF ErrorsOf
  <2> QED BY <2>1, <2>2
<1>4. ErrorsOf(s \o t) \subseteq ErrorsOf(s) \cup ErrorsOf(t)
  BY <1>3, Zenon DEF ErrorsOf
<1> QED BY <1>1, <1>4

\* What a list of checks reports is one of the errors, and nothing is reported only when every
\* check has passed.
LEMMA CheckListResult ==
    ASSUME NEW checks \in CheckLists
    PROVE  /\ FirstError(checks) \in {Ok} \cup Errors
           /\ FirstError(checks) = Ok => \A i \in DOMAIN checks : ~checks[i][1]
<1>1. ErrorsOf(checks) \subseteq Errors
  <2>1. \A i \in DOMAIN checks : checks[i] \in Checks
    BY DEF CheckLists
  <2> QED BY <2>1, Zenon DEF ErrorsOf, Checks
<1>2. Ok \notin Errors
  BY DEF Ok, Errors
<1>3. DOMAIN checks \subseteq Nat
  BY DEF CheckLists
<1> QED BY <1>1, <1>2, <1>3, ReportedErrorIsAFailure

\* A list of two checks.
LEMMA TwoChecksResult ==
    ASSUME NEW p \in Checks, NEW q \in Checks
    PROVE  /\ FirstError(<<p, q>>) \in {Ok} \cup Errors
           /\ FirstError(<<p, q>>) = Ok => ~p[1] /\ ~q[1]
<1> DEFINE l == <<p, q>>
<1>1. l \in CheckLists /\ DOMAIN l = 1 .. 2 /\ l[1] = p /\ l[2] = q
  BY DEF CheckLists
<1> HIDE DEF l
<1>2. 1 \in DOMAIN l /\ 2 \in DOMAIN l
  BY <1>1
<1>3. /\ FirstError(l) \in {Ok} \cup Errors
      /\ FirstError(l) = Ok => ~p[1] /\ ~q[1]
  BY <1>1, <1>2, CheckListResult
<1> QED BY <1>3 DEF l

\* A list of three checks.
LEMMA ThreeChecksResult ==
    ASSUME NEW p \in Checks, NEW q \in Checks, NEW r \in Checks
    PROVE  /\ FirstError(<<p, q, r>>) \in {Ok} \cup Errors
           /\ FirstError(<<p, q, r>>) = Ok => ~p[1] /\ ~q[1] /\ ~r[1]
<1> DEFINE l == <<p, q, r>>
<1>1. l \in CheckLists /\ DOMAIN l = 1 .. 3 /\ l[1] = p /\ l[2] = q /\ l[3] = r
  BY DEF CheckLists
<1> HIDE DEF l
<1>2. 1 \in DOMAIN l /\ 2 \in DOMAIN l /\ 3 \in DOMAIN l
  BY <1>1
<1>3. /\ FirstError(l) \in {Ok} \cup Errors
      /\ FirstError(l) = Ok => ~p[1] /\ ~q[1] /\ ~r[1]
  BY <1>1, <1>2, CheckListResult
<1> QED BY <1>3 DEF l

\* A list of four checks.
LEMMA FourChecksResult ==
    ASSUME NEW p \in Checks, NEW q \in Checks, NEW r \in Checks, NEW z \in Checks
    PROVE  /\ FirstError(<<p, q, r, z>>) \in {Ok} \cup Errors
           /\ FirstError(<<p, q, r, z>>) = Ok => ~p[1] /\ ~q[1] /\ ~r[1] /\ ~z[1]
<1> DEFINE l == <<p, q, r, z>>
<1>1. /\ l \in CheckLists /\ DOMAIN l = 1 .. 4
      /\ l[1] = p /\ l[2] = q /\ l[3] = r /\ l[4] = z
  BY DEF CheckLists
<1> HIDE DEF l
<1>2. 1 \in DOMAIN l /\ 2 \in DOMAIN l /\ 3 \in DOMAIN l /\ 4 \in DOMAIN l
  BY <1>1
<1>3. /\ FirstError(l) \in {Ok} \cup Errors
      /\ FirstError(l) = Ok => ~p[1] /\ ~q[1] /\ ~r[1] /\ ~z[1]
  BY <1>1, <1>2, CheckListResult
<1> QED BY <1>3 DEF l

-----------------------------------------------------------------------------
(* The errors of validate_env *)

\* What an L1 message can be rejected for before its gas is looked at, and what any other
\* transaction can be.
MessageErrors == {"PrevrandaoNotSet", "InvalidChainId", "CallerGasLimitMoreThanBlock",
                  "CreateInitCodeSizeLimit"}
PriceErrors   == {"GasPriceLessThanBasefee", "PriorityFeeGreaterThanMaxFee"}
TypeErrors    == PriceErrors \cup {"Eip2930NotSupported", "Eip1559NotSupported",
                  "Eip4844NotSupported", "Eip7702NotSupported", "EmptyAuthorizationList",
                  "UnsupportedTransactionType"}
EnvErrors     == MessageErrors \cup TypeErrors \cup {"MissingChainId", "TxGasLimitGreaterThanCap"}

\* A list of checks whose failures are all in E.
FailsWith(checks, E) == checks \in CheckLists /\ ErrorsOf(checks) \subseteq E

\* What lists fail with adds up.
LEMMA FailsWithMore ==
    ASSUME NEW s, NEW t, NEW D, NEW E, NEW F, FailsWith(s, D), FailsWith(t, E), D \cup E \subseteq F
    PROVE  FailsWith(s \o t, F)
<1>1. s \in CheckLists /\ t \in CheckLists /\ ErrorsOf(s) \subseteq D /\ ErrorsOf(t) \subseteq E
  BY DEF FailsWith
<1>2. s \o t \in CheckLists /\ ErrorsOf(s \o t) \subseteq ErrorsOf(s) \cup ErrorsOf(t)
  BY <1>1, MoreChecks
<1> QED BY <1>1, <1>2 DEF FailsWith

\* A list of one check fails with what that check may fail with.
LEMMA FailsWithOne ==
    ASSUME NEW E, NEW p \in Checks, p[1] => p[2] \in E
    PROVE  FailsWith(<<p>>, E)
<1>1. <<p>> \in CheckLists /\ DOMAIN <<p>> = {1} /\ <<p>>[1] = p
  BY ShortLists DEF CheckLists
<1> QED BY <1>1, Zenon DEF FailsWith, ErrorsOf

\* So does a list of two.
LEMMA FailsWithTwo ==
    ASSUME NEW E, NEW p \in Checks, NEW q \in Checks, p[1] => p[2] \in E, q[1] => q[2] \in E
    PROVE  FailsWith(<<p, q>>, E)
<1>1. /\ <<p, q>> \in CheckLists /\ DOMAIN <<p, q>> = {1, 2}
      /\ <<p, q>>[1] = p /\ <<p, q>>[2] = q
  BY ShortLists DEF CheckLists
<1> QED BY <1>1, Zenon DEF FailsWith, ErrorsOf



\* The block environment lacks a prevrandao; no Scroll fork looks for the excess blob gas, since
\* each of them maps to a fork of Ethereum before Cancun.
LEMMA HeaderErrors ==
    ASSUME NEW c, NEW b
    PROVE  FailsWith(HeaderChecks(c, b), {"PrevrandaoNotSet"})
<1> DEFINE c1 == IntoEthSpecId(c.spec) >= EthMERGE /\ ~b.prevrandaoSet
           c2 == IntoEthSpecId(c.spec) >= EthCANCUN /\ ~b.excessBlobGasSet
           p  == <<c1, "PrevrandaoNotSet">>
           q  == <<c2, "ExcessBlobGasNotSet">>
<1>1. c1 \in BOOLEAN /\ c2 \in BOOLEAN /\ ~c2
  BY DEF IntoEthSpecId, EthSHANGHAI, EthCANCUN
<1>2. HeaderChecks(c, b) = <<p, q>>
  BY DEF HeaderChecks
<1> HIDE DEF c1, c2
<1>3. /\ p \in Checks /\ p[1] = c1 /\ p[2] = "PrevrandaoNotSet"
      /\ q \in Checks /\ q[1] = c2 /\ q[2] = "ExcessBlobGasNotSet"
  BY <1>1 DEF Checks, Errors
<1> HIDE DEF p, q
<1> QED BY <1>1, <1>2, <1>3, FailsWithTwo

\* A wrong or missing chain id; an L1 message carries none.
LEMMA ChainIdErrors ==
    ASSUME NEW c, NEW t
    PROVE  FailsWith(ChainIdChecks(c, t),
                     {"InvalidChainId"} \cup IF IsL1Msg(t) THEN {} ELSE {"MissingChainId"})
<1> DEFINE c1 == c.chainIdCheck /\ t.chainId # None /\ t.chainId # c.chainId
           c2 == c.chainIdCheck /\ t.chainId = None /\ t.type \notin {"legacy", "l1msg", "custom"}
           p  == <<c1, "InvalidChainId">>
           q  == <<c2, "MissingChainId">>
<1>1. c1 \in BOOLEAN /\ c2 \in BOOLEAN /\ (IsL1Msg(t) => ~c2)
  BY DEF IsL1Msg
<1>2. ChainIdChecks(c, t) = <<p, q>>
  BY DEF ChainIdChecks
<1> HIDE DEF c1, c2
<1>3. /\ p \in Checks /\ p[1] = c1 /\ p[2] = "InvalidChainId"
      /\ q \in Checks /\ q[1] = c2 /\ q[2] = "MissingChainId"
  BY <1>1 DEF Checks, Errors
<1> HIDE DEF p, q
<1> QED BY <1>1, <1>2, <1>3, FailsWithTwo

\* The cap on the gas of a transaction exempts L1 messages.
LEMMA GasLimitCapErrors ==
    ASSUME NEW c, NEW t
    PROVE  FailsWith(GasLimitCapChecks(c, t),
                     IF IsL1Msg(t) THEN {} ELSE {"TxGasLimitGreaterThanCap"})
<1> DEFINE c1 == ~IsL1Msg(t) /\ t.gasLimit > c.gasLimitCap
           p  == <<c1, "TxGasLimitGreaterThanCap">>
<1>1. c1 \in BOOLEAN /\ (IsL1Msg(t) => ~c1)
  OBVIOUS
<1>2. GasLimitCapChecks(c, t) = <<p>>
  BY DEF GasLimitCapChecks
<1> HIDE DEF c1
<1>3. p \in Checks /\ p[1] = c1 /\ p[2] = "TxGasLimitGreaterThanCap"
  BY <1>1 DEF Checks, Errors
<1> HIDE DEF p
<1> QED BY <1>1, <1>2, <1>3, FailsWithOne

\* The block gas limit and the limit on initcode hold for every transaction.
LEMMA LimitErrors ==
    ASSUME NEW c, NEW b, NEW t
    PROVE  FailsWith(LimitChecks(c, b, t), {"CallerGasLimitMoreThanBlock", "CreateInitCodeSizeLimit"})
<1> DEFINE c1 == ~c.blockGasLimitDisabled /\ t.gasLimit > b.gasLimit
           c2 == IntoEthSpecId(c.spec) >= EthSHANGHAI /\ t.create /\ t.initcode > c.maxInitcodeSize
           p  == <<c1, "CallerGasLimitMoreThanBlock">>
           q  == <<c2, "CreateInitCodeSizeLimit">>
<1>1. c1 \in BOOLEAN /\ c2 \in BOOLEAN
  OBVIOUS
<1>2. LimitChecks(c, b, t) = <<p, q>>
  BY DEF LimitChecks
<1> HIDE DEF c1, c2
<1>3. /\ p \in Checks /\ p[1] = c1 /\ p[2] = "CallerGasLimitMoreThanBlock"
      /\ q \in Checks /\ q[1] = c2 /\ q[2] = "CreateInitCodeSizeLimit"
  BY <1>1 DEF Checks, Errors
<1> HIDE DEF p, q
<1> QED BY <1>1, <1>2, <1>3, FailsWithTwo

\* The prices a transaction offers.
LEMMA PriceErrorsOnly ==
    ASSUME NEW c, NEW b, NEW t
    PROVE  /\ FailsWith(LegacyGasPriceChecks(c, b, t), PriceErrors)
           /\ FailsWith(PriorityFeeChecks(c, b, t), PriceErrors)
<1> DEFINE c1 == ~c.baseFeeCheckDisabled /\ t.maxFee < b.basefee
           c2 == ~c.priorityFeeCheckDisabled /\ t.prio # None /\ t.prio > t.maxFee
           p  == <<c1, "GasPriceLessThanBasefee">>
           q  == <<c2, "PriorityFeeGreaterThanMaxFee">>
<1>1. c1 \in BOOLEAN /\ c2 \in BOOLEAN
  OBVIOUS
<1>2. /\ LegacyGasPriceChecks(c, b, t) = <<p>>
      /\ PriorityFeeChecks(c, b, t) = <<q>> \o <<p>>
  BY DEF LegacyGasPriceChecks, PriorityFeeChecks
<1> HIDE DEF c1, c2
<1>3. /\ p \in Checks /\ p[1] = c1 /\ p[2] \in PriceErrors
      /\ q \in Checks /\ q[1] = c2 /\ q[2] \in PriceErrors
  BY <1>1 DEF Checks, Errors, PriceErrors
<1> HIDE DEF p, q
<1>4. FailsWith(<<p>>, PriceErrors) /\ FailsWith(<<q>>, PriceErrors)
  BY <1>3, FailsWithOne
<1>5. FailsWith(<<q>> \o <<p>>, PriceErrors)
  BY <1>4, FailsWithMore
<1> QED BY <1>2, <1>4, <1>5

\* A type that is not supported is reported as such.
LEMMA SupportErrors ==
    ASSUME NEW c1 \in BOOLEAN, NEW e \in TypeErrors
    PROVE  FailsWith(<< <<c1, e>> >>, TypeErrors)
<1> DEFINE p == <<c1, e>>
<1>1. p \in Checks /\ p[2] = e
  BY DEF Checks, Errors, TypeErrors, PriceErrors
<1> HIDE DEF p
<1>2. FailsWith(<<p>>, TypeErrors)
  BY <1>1, FailsWithOne
<1> QED BY <1>2 DEF p

\* What the type of a transaction makes the handler look at; an L1 message is not asked for a
\* price or a fee.
LEMMA TypeChecksErrors ==
    ASSUME NEW c, NEW b, NEW t, t.type \in TxTypes
    PROVE  /\ FailsWith(TypeChecks(c, b, t), TypeErrors)
           /\ IsL1Msg(t) => FailsWith(TypeChecks(c, b, t), {})
<1>1. PriceErrors \subseteq TypeErrors
  BY DEF TypeErrors
<1>2. CASE t.type = "legacy"
  <2>1. TypeChecks(c, b, t) = LegacyGasPriceChecks(c, b, t)
    BY <1>2 DEF TypeChecks
  <2> QED BY <1>1, <1>2, <2>1, PriceErrorsOnly DEF FailsWith, IsL1Msg
<1>3. CASE t.type = "eip2930"
  <2> DEFINE c1      == ~(IntoEthSpecId(c.spec) >= EthBERLIN)
             support == << <<c1, "Eip2930NotSupported">> >>
  <2>1. c1 \in BOOLEAN
    OBVIOUS
  <2>2. TypeChecks(c, b, t) = support \o LegacyGasPriceChecks(c, b, t)
    BY <1>3 DEF TypeChecks
  <2> HIDE DEF c1
  <2>3. FailsWith(support, TypeErrors)
    BY <2>1, SupportErrors DEF TypeErrors
  <2> HIDE DEF support
  <2> QED BY <2>2, <2>3, <1>1, <1>3, PriceErrorsOnly, FailsWithMore DEF IsL1Msg
<1>4. CASE t.type = "eip1559"
  <2> DEFINE c1      == ~(IntoEthSpecId(c.spec) >= EthLONDON)
             support == << <<c1, "Eip1559NotSupported">> >>
  <2>1. c1 \in BOOLEAN
    OBVIOUS
  <2>2. TypeChecks(c, b, t) = support \o PriorityFeeChecks(c, b, t)
    BY <1>4 DEF TypeChecks
  <2> HIDE DEF c1
  <2>3. FailsWith(support, TypeErrors)
    BY <2>1, SupportErrors DEF TypeErrors
  <2> HIDE DEF support
  <2> QED BY <2>2, <2>3, <1>1, <1>4, PriceErrorsOnly, FailsWithMore DEF IsL1Msg
<1>5. CASE t.type = "eip4844"
  <2> DEFINE c1      == ~(IntoEthSpecId(c.spec) >= EthCANCUN)
             support == << <<c1, "Eip4844NotSupported">> >>
  <2>1. c1 \in BOOLEAN
    OBVIOUS
  <2>2. TypeChecks(c, b, t) = support \o PriorityFeeChecks(c, b, t)
    BY <1>5 DEF TypeChecks
  <2> HIDE DEF c1
  <2>3. FailsWith(support, TypeErrors)
    BY <2>1, SupportErrors DEF TypeErrors
  <2> HIDE DEF support
  <2> QED BY <2>2, <2>3, <1>1, <1>5, PriceErrorsOnly, FailsWithMore DEF IsL1Msg
<1>6. CASE t.type = "eip7702"
  <2> DEFINE c1      == ~IsEnabledIn(c.spec, EUCLID)
             c2      == t.auths = {}
             support == << <<c1, "Eip7702NotSupported">> >>
             listed  == << <<c2, "EmptyAuthorizationList">> >>
  <2>1. c1 \in BOOLEAN /\ c2 \in BOOLEAN
    OBVIOUS
  <2>2. TypeChecks(c, b, t) = (support \o PriorityFeeChecks(c, b, t)) \o listed
    BY <1>6 DEF TypeChecks
  <2> HIDE DEF c1, c2
  <2>3. FailsWith(support, TypeErrors) /\ FailsWith(listed, TypeErrors)
    BY <2>1, SupportErrors DEF TypeErrors
  <2> HIDE DEF support, listed
  <2>4. FailsWith(support \o PriorityFeeChecks(c, b, t), TypeErrors)
    BY <1>1, <2>3, PriceErrorsOnly, FailsWithMore
  <2>5. FailsWith((support \o PriorityFeeChecks(c, b, t)) \o listed, TypeErrors)
    BY <2>3, <2>4, FailsWithMore
  <2> QED BY <1>6, <2>2, <2>5 DEF IsL1Msg
<1>7. CASE t.type = "l1msg"
  <2>1. TypeChecks(c, b, t) = << >>
    BY <1>7 DEF TypeChecks
  <2>2. \A E : FailsWith(<< >>, E)
    BY DEF FailsWith, CheckLists, ErrorsOf
  <2> QED BY <2>1, <2>2
<1>8. CASE t.type = "custom"
  <2>1. TypeChecks(c, b, t) = << <<TRUE, "UnsupportedTransactionType">> >>
    BY <1>8 DEF TypeChecks
  <2>2. FailsWith(<< <<TRUE, "UnsupportedTransactionType">> >>, TypeErrors)
    BY SupportErrors DEF TypeErrors
  <2> QED BY <1>8, <2>1, <2>2 DEF IsL1Msg
<1> QED BY <1>2, <1>3, <1>4, <1>5, <1>6, <1>7, <1>8 DEF TxTypes

\* What validate_env can report.
LEMMA ValidateEnvErrors ==
    ASSUME NEW c, NEW b, NEW t, t.type \in TxTypes
    PROVE  /\ ValidateEnv(c, b, t) \in {Ok} \cup EnvErrors
           /\ IsL1Msg(t) => ValidateEnv(c, b, t) \in {Ok} \cup MessageErrors
<1> DEFINE h == HeaderChecks(c, b)
           i == ChainIdChecks(c, t)
           g == GasLimitCapChecks(c, t)
           y == TypeChecks(c, b, t)
           l == LimitChecks(c, b, t)
           all == h \o i \o g \o y \o l
           D == {"PrevrandaoNotSet", "InvalidChainId"}
           D2 == IF IsL1Msg(t) THEN D ELSE D \cup {"MissingChainId"}
           D3 == IF IsL1Msg(t) THEN D ELSE D2 \cup {"TxGasLimitGreaterThanCap"}
           D4 == IF IsL1Msg(t) THEN D ELSE D3 \cup TypeErrors
           D5 == IF IsL1Msg(t) THEN MessageErrors ELSE EnvErrors
<1>1. FailsWith(h, D)
  BY HeaderErrors DEF FailsWith
<1>2. FailsWith(h \o i, D2)
  <2> DEFINE I == {"InvalidChainId"} \cup IF IsL1Msg(t) THEN {} ELSE {"MissingChainId"}
  <2>1. FailsWith(i, I)
    BY ChainIdErrors
  <2>2. D \cup I \subseteq D2
    OBVIOUS
  <2> HIDE DEF D, D2, I
  <2> QED BY <1>1, <2>1, <2>2, FailsWithMore
<1>3. FailsWith(h \o i \o g, D3)
  BY <1>2, GasLimitCapErrors, FailsWithMore
<1>4. FailsWith(h \o i \o g \o y, D4)
  BY <1>3, TypeChecksErrors, FailsWithMore
<1>5. FailsWith(all, D5)
  BY <1>4, LimitErrors, FailsWithMore DEF MessageErrors, EnvErrors
<1>6. ValidateEnv(c, b, t) = FirstError(all)
  BY DEF ValidateEnv
<1> HIDE DEF all
<1>7. FirstError(all) \in {Ok} \cup D5
  <2>1. DOMAIN all \subseteq Nat
    BY <1>5 DEF FailsWith, CheckLists
  <2> QED BY <1>5, <2>1, ReportedErrorIsAFailure DEF FailsWith
<1> QED BY <1>6, <1>7 DEF MessageErrors, EnvErrors

-----------------------------------------------------------------------------
(* validate_initial_tx_gas *)

\* validate_initial_tx_gas reports that the gas limit is below the intrinsic gas or the floor.
LEMMA InitialTxGasErrors ==
    ASSUME NEW c, NEW t
    PROVE  ValidateInitialTxGas(c, t).error
             \in {Ok, "CallGasCostMoreThanGasLimit", "GasFloorMoreThanGasLimit"}
<1> DEFINE v       == ValidateInitialTxGas(c, t)
           listed  == t.type # "legacy"
           initial == IntrinsicGas(c.gasParams, t, IF listed THEN t.accessAccounts ELSE 0,
                                   IF listed THEN t.accessSlots ELSE 0)
           floor   == IF c.eip7623Disabled \/ ~IsEnabledIn(c.spec, FEYNMAN)
                      THEN 0 ELSE FloorGas(c.gasParams, t)
           c1 == initial > t.gasLimit
           c2 == IsEnabledIn(c.spec, FEYNMAN) /\ floor > t.gasLimit
           p  == <<c1, "CallGasCostMoreThanGasLimit">>
           q  == <<c2, "GasFloorMoreThanGasLimit">>
           E  == {"CallGasCostMoreThanGasLimit", "GasFloorMoreThanGasLimit"}
<1>1. c1 \in BOOLEAN /\ c2 \in BOOLEAN
  OBVIOUS
<1>2. v.error = FirstError(<<p, q>>)
  BY DEF ValidateInitialTxGas
<1> HIDE DEF v, c1, c2
<1>3. p \in Checks /\ p[2] \in E /\ q \in Checks /\ q[2] \in E
  BY <1>1 DEF Checks, Errors
<1> HIDE DEF p, q
<1>4. FailsWith(<<p, q>>, E)
  BY <1>3, FailsWithTwo
<1>5. FirstError(<<p, q>>) \in {Ok} \cup E
  BY <1>4, ReportedErrorIsAFailure DEF FailsWith
<1> QED BY <1>2, <1>5 DEF v

-----------------------------------------------------------------------------
(* Sums: a fold over a finite set, by induction over how many members it has *)

Chosen(s) == CHOOSE x \in s : TRUE

\* What a sum adds up to on s if g has the sums of smaller sets.
SumOn(f, g, s) == IF s = {} THEN 0 ELSE f[Chosen(s)] + g[s \ {Chosen(s)}]

\* g has the sum of f over every set that f is defined on, or over those with at most n members.
HasSums(f, g)       == g = [s \in SUBSET DOMAIN f |-> SumOn(f, g, s)]
UpTo(f, n)          == {s \in SUBSET DOMAIN f : Cardinality(s) <= n}
HasSumsUpTo(f, n, g) == g = [s \in UpTo(f, n) |-> SumOn(f, g, s)]

\* Without the chosen member a set is one smaller.
LEMMA ChosenMember ==
    ASSUME NEW D, IsFiniteSet(D), NEW s \in SUBSET D
    PROVE  /\ IsFiniteSet(s) /\ Cardinality(s) \in Nat /\ Cardinality(s) <= Cardinality(D)
           /\ s # {} => /\ Chosen(s) \in s /\ s \ {Chosen(s)} \in SUBSET D
                        /\ Cardinality(s \ {Chosen(s)}) = Cardinality(s) - 1
                        /\ Cardinality(s) > 0
<1>1. IsFiniteSet(s) /\ Cardinality(s) \in Nat /\ Cardinality(s) <= Cardinality(D)
  BY FS_Subset, FS_CardinalityType
<1>2. ASSUME s # {}
      PROVE  /\ Chosen(s) \in s /\ s \ {Chosen(s)} \in SUBSET D
             /\ Cardinality(s \ {Chosen(s)}) = Cardinality(s) - 1 /\ Cardinality(s) > 0
  <2>1. Chosen(s) \in s
    BY <1>2 DEF Chosen
  <2>2. Cardinality(s \ {Chosen(s)}) = Cardinality(s) - 1
    BY <1>1, <2>1, FS_RemoveElement
  <2>3. Cardinality(s) # 0
    BY <1>1, <1>2, FS_EmptySet
  <2> QED BY <1>1, <2>1, <2>2, <2>3
<1> QED BY <1>1, <1>2

\* There are sums up to any number of members.
LEMMA SumsUpToExist ==
    ASSUME NEW f, IsFiniteSet(DOMAIN f), NEW m \in Nat
    PROVE  \E g : HasSumsUpTo(f, m, g)
<1> DEFINE Bad == {n \in Nat : ~ \E g : HasSumsUpTo(f, n, g)}
<1>1. CASE Bad = {}
  BY <1>1
<1>2. CASE Bad # {}
  <2>1. PICK n \in Bad : \A k \in Bad : n <= k
    BY <1>2, FirstPosition
  <2>2. n \in Nat /\ ~ \E g : HasSumsUpTo(f, n, g)
    BY <2>1
  <2>3. \A k \in Nat : k < n => \E g : HasSumsUpTo(f, k, g)
    BY <2>1, <2>2
  <2> HIDE DEF Bad
  <2>4. PICK g : n > 0 => HasSumsUpTo(f, n - 1, g)
    <3>1. n > 0 => n - 1 \in Nat /\ n - 1 < n
      BY <2>2
    <3> QED BY <2>3, <3>1
  <2> DEFINE h == [s \in UpTo(f, n) |-> SumOn(f, g, s)]
  <2>5. ASSUME NEW s \in UpTo(f, n)
        PROVE  SumOn(f, g, s) = SumOn(f, h, s)
    <3>1. CASE s = {}
      BY <3>1 DEF SumOn
    <3>2. CASE s # {}
      <4> DEFINE t == s \ {Chosen(s)}
                 l == n - 1
      <4>1. /\ t \in SUBSET DOMAIN f /\ Cardinality(t) = Cardinality(s) - 1 /\ Cardinality(s) \in Nat
            /\ Cardinality(s) > 0 /\ Cardinality(s) <= n
        BY <3>2, ChosenMember DEF UpTo
      <4>2. n > 0 /\ Cardinality(t) <= l /\ Cardinality(t) <= n
        BY <2>2, <4>1
      <4>3. t \in UpTo(f, l) /\ t \in UpTo(f, n)
        BY <4>1, <4>2 DEF UpTo
      <4>4. g[t] = SumOn(f, g, t)
        <5>1. g = [u \in UpTo(f, l) |-> SumOn(f, g, u)]
          BY <2>4, <4>2 DEF HasSumsUpTo
        <5> HIDE DEF t, l
        <5> QED BY <4>3, <5>1
      <4>5. h[t] = SumOn(f, g, t)
        BY <4>3
      <4>6. g[t] = h[t]
        BY <4>4, <4>5
      <4> HIDE DEF h
      <4> QED BY <3>2, <4>6 DEF SumOn
    <3> QED BY <3>1, <3>2
  <2>6. h = [s \in UpTo(f, n) |-> SumOn(f, h, s)]
    BY <2>5
  <2> HIDE DEF h
  <2>7. HasSumsUpTo(f, n, h)
    BY <2>6 DEF HasSumsUpTo
  <2> QED BY <2>2, <2>7
<1> QED BY <1>1, <1>2

\* SumFunction is such a sum.
LEMMA SumFunctionIsSum ==
    ASSUME NEW f, IsFiniteSet(DOMAIN f)
    PROVE  \E g : HasSums(f, g) /\ SumFunction(f) = g[DOMAIN f]
<1> DEFINE m == Cardinality(DOMAIN f)
           g == CHOOSE k : HasSums(f, k)
<1>1. m \in Nat
  BY FS_CardinalityType
<1>2. UpTo(f, m) = SUBSET DOMAIN f
  BY ChosenMember DEF UpTo
<1>3. \E k : HasSums(f, k)
  <2>1. PICK k : HasSumsUpTo(f, m, k)
    BY <1>1, SumsUpToExist
  <2>2. HasSums(f, k)
    BY <1>2, <2>1 DEF HasSums, HasSumsUpTo
  <2> QED BY <2>2
<1>4. HasSums(f, g)
  BY <1>3
<1>5. SumFunction(f) = g[DOMAIN f]
  BY Zenon DEF SumFunction, SumFunctionOnSet, FoldFunctionOnSet, MapThenFoldSet, HasSums, SumOn, Chosen
<1> QED BY <1>4, <1>5

\* Over any set, the sum changes by as much as one of its members.
LEMMA SumsDiffer ==
    ASSUME NEW D, IsFiniteSet(D), NEW f \in [D -> Int], NEW h \in [D -> Int], NEW g, NEW k,
           HasSums(f, g), HasSums(h, k), NEW a \in D, NEW d \in Int,
           h[a] = f[a] + d, \A x \in D : x # a => h[x] = f[x],
           NEW t \in SUBSET D
    PROVE  g[t] \in Int /\ k[t] = g[t] + (IF a \in t THEN d ELSE 0)
<1> DEFINE Good(s) == g[s] \in Int /\ k[s] = g[s] + (IF a \in s THEN d ELSE 0)
           Bad == {n \in Nat : \E s \in SUBSET D : Cardinality(s) = n /\ ~Good(s)}
<1>1. \A s \in SUBSET D : g[s] = SumOn(f, g, s) /\ k[s] = SumOn(h, k, s)
  <2>1. DOMAIN f = D /\ DOMAIN h = D
    OBVIOUS
  <2> QED BY <2>1 DEF HasSums
<1>2. CASE Bad = {}
  BY <1>2, ChosenMember
<1>3. CASE Bad # {}
  <2>1. PICK n \in Bad : \A m \in Bad : n <= m
    BY <1>3, FirstPosition
  <2>2. PICK s \in SUBSET D : Cardinality(s) = n /\ ~Good(s)
    BY <2>1
  <2>3. \A u \in SUBSET D : Cardinality(u) \in Nat /\ Cardinality(u) < n => Good(u)
    BY <2>1
  <2> HIDE DEF Bad
  <2>4. CASE s = {}
    <3>1. g[s] = 0 /\ k[s] = 0 /\ a \notin s
      BY <1>1, <2>4 DEF SumOn
    <3> QED BY <2>2, <3>1
  <2>5. CASE s # {}
    <3> DEFINE x == Chosen(s)
               u == s \ {x}
    <3>1. /\ x \in s /\ u \in SUBSET D /\ Cardinality(u) \in Nat /\ Cardinality(u) < n
      <4>1. /\ x \in s /\ u \in SUBSET D /\ Cardinality(u) = Cardinality(s) - 1
            /\ Cardinality(s) \in Nat /\ Cardinality(s) > 0
        BY <2>5, ChosenMember
      <4> QED BY <2>2, <4>1
    <3>2. Good(u)
      BY <2>3, <3>1
    <3>3. g[s] = f[x] + g[u] /\ k[s] = h[x] + k[u]
      BY <1>1, <2>5 DEF SumOn
    <3>4. x \in D /\ f[x] \in Int /\ h[x] = f[x] + (IF x = a THEN d ELSE 0)
      <4>1. x \in D
        BY <3>1
      <4> HIDE DEF x
      <4>2. f[x] \in Int
        BY <4>1
      <4> QED BY <4>1, <4>2
    <3>5. a \in s <=> (a \in u \/ a = x)
      BY <3>1
    <3>6. ~ (a \in u /\ a = x)
      OBVIOUS
    <3> HIDE DEF x, u
    <3>7. Good(s)
      BY <3>2, <3>3, <3>4, <3>5, <3>6
    <3> QED BY <2>2, <3>7
  <2> QED BY <2>4, <2>5
<1> QED BY <1>2, <1>3

\* The sum of all changes by as much as one of them.
LEMMA SumChanges ==
    ASSUME NEW D, IsFiniteSet(D), NEW f \in [D -> Int], NEW h \in [D -> Int], NEW a \in D, NEW d \in Int,
           h[a] = f[a] + d, \A x \in D : x # a => h[x] = f[x]
    PROVE  SumFunction(f) \in Int /\ SumFunction(h) = SumFunction(f) + d
<1>1. DOMAIN f = D /\ DOMAIN h = D
  OBVIOUS
<1>2. PICK g : HasSums(f, g) /\ SumFunction(f) = g[D]
  BY <1>1, SumFunctionIsSum
<1>3. PICK k : HasSums(h, k) /\ SumFunction(h) = k[D]
  BY <1>1, SumFunctionIsSum
<1>4. D \in SUBSET D
  OBVIOUS
<1>5. g[D] \in Int /\ k[D] = g[D] + (IF a \in D THEN d ELSE 0)
  BY <1>2, <1>3, <1>4, SumsDiffer
<1> QED BY <1>2, <1>3, <1>5
=================================================================================
