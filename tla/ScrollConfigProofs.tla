--------------------------- MODULE ScrollConfigProofs ---------------------------
(***************************************************************************)
(* Theorems of ScrollConfig: the precompile sets meet the fork schedule,   *)
(* and the parts of an EVM that is moved between forks meet its fork.      *)
(***************************************************************************)
EXTENDS ScrollConfig, TLAPS

-----------------------------------------------------------------------------
(* Sets and schedules *)

\* What has begun by a fork, the entries no later one replaces, and the entries of a set of
\* precompiles that begins with a fork.
Begun(spec) == {e \in Schedule : e.since <= spec}
Newest(E)   == {e \in E : \A f \in E : f.address = e.address => f.since <= e.since}
Entries(p, since) == {[address |-> a, since |-> since, impl |-> p[a]] : a \in DOMAIN p}

\* p holds the newest implementations of a schedule, and nothing else.
Holds(p, E) ==
    /\ DOMAIN p = {e.address : e \in Newest(E)}
    /\ \A e \in Newest(E) : p[e.address] = e.impl

\* Every precompile of a set has its entry.
LEMMA EntriesOfASet ==
    ASSUME NEW p, NEW k
    PROVE  /\ \A e \in Entries(p, k) : e.address \in DOMAIN p /\ e.since = k /\ e.impl = p[e.address]
           /\ \A a \in DOMAIN p : \E e \in Entries(p, k) : e.address = a
<1>1. \A e \in Entries(p, k) : e.address \in DOMAIN p /\ e.since = k /\ e.impl = p[e.address]
  BY DEF Entries
<1>2. ASSUME NEW a \in DOMAIN p PROVE \E e \in Entries(p, k) : e.address = a
  <2> DEFINE e == [address |-> a, since |-> k, impl |-> p[a]]
  <2>1. e \in Entries(p, k) /\ e.address = a
    BY DEF Entries
  <2> QED BY <2>1
<1> QED BY <1>1, <1>2

\* The first set holds what begins with it.
LEMMA HoldsItself ==
    ASSUME NEW p, NEW k \in Int
    PROVE  Holds(p, Entries(p, k))
<1>1. \A e \in Entries(p, k) : e.address \in DOMAIN p /\ e.since = k /\ e.impl = p[e.address]
  BY EntriesOfASet
<1>2. \A a \in DOMAIN p : \E e \in Entries(p, k) : e.address = a
  BY EntriesOfASet
<1>3. Newest(Entries(p, k)) = Entries(p, k)
  BY <1>1 DEF Newest
<1> QED BY <1>1, <1>2, <1>3 DEF Holds

\* A set that extends an older one, as the sets of mod.rs do, holds what the older one held, but
\* for what it replaces.
LEMMA HoldsMore ==
    ASSUME NEW p, NEW more, NEW E, NEW k \in Int, Holds(p, E),
           \A e \in E : e.since \in Int /\ e.since <= k /\ (e.since = k => e.address \notin DOMAIN more)
    PROVE  Holds(Extend(p, more), E \cup Entries(more, k))
<1> DEFINE N == Entries(more, k)
           q == Extend(p, more)
<1>1. \A e \in N : e.address \in DOMAIN more /\ e.since = k /\ e.impl = more[e.address]
  BY EntriesOfASet
<1>2. \A a \in DOMAIN more : \E e \in N : e.address = a
  BY EntriesOfASet
<1>3. /\ DOMAIN q = DOMAIN more \cup DOMAIN p
      /\ \A a \in DOMAIN q : q[a] = IF a \in DOMAIN more THEN more[a] ELSE p[a]
  BY DEF Extend
<1> HIDE DEF N, q
<1>4. Newest(E \cup N) = N \cup {e \in Newest(E) : e.address \notin DOMAIN more}
  <2>1. ASSUME NEW e \in N PROVE e \in Newest(E \cup N)
    BY <1>1, <2>1 DEF Newest
  <2>2. ASSUME NEW e \in Newest(E), e.address \notin DOMAIN more PROVE e \in Newest(E \cup N)
    BY <1>1, <2>2 DEF Newest
  <2>3. ASSUME NEW e \in Newest(E \cup N), e \notin N
        PROVE  e \in Newest(E) /\ e.address \notin DOMAIN more
    <3>1. e \in E /\ \A f \in E \cup N : f.address = e.address => f.since <= e.since
      BY <2>3 DEF Newest
    <3>2. e.address \notin DOMAIN more
      BY <1>1, <1>2, <3>1
    <3> QED BY <3>1, <3>2 DEF Newest
  <2> QED BY <2>1, <2>2, <2>3
<1>5. /\ DOMAIN p = {e.address : e \in Newest(E)}
      /\ \A e \in Newest(E) : p[e.address] = e.impl
  BY DEF Holds
<1>6. DOMAIN q = {e.address : e \in Newest(E \cup N)}
  <2>1. ASSUME NEW a \in DOMAIN q PROVE \E e \in Newest(E \cup N) : e.address = a
    <3>1. CASE a \in DOMAIN more
      BY <1>2, <1>4, <3>1
    <3>2. CASE a \notin DOMAIN more
      <4>1. PICK e \in Newest(E) : e.address = a
        BY <1>3, <1>5, <2>1, <3>2
      <4> QED BY <1>4, <3>2, <4>1
    <3> QED BY <3>1, <3>2
  <2>2. ASSUME NEW e \in Newest(E \cup N) PROVE e.address \in DOMAIN q
    BY <1>1, <1>3, <1>4, <1>5, <2>2
  <2> QED BY <2>1, <2>2
<1>7. \A e \in Newest(E \cup N) : q[e.address] = e.impl
  BY <1>1, <1>3, <1>4, <1>5
<1>8. Holds(q, E \cup N)
  BY <1>6, <1>7 DEF Holds
<1> QED BY <1>8 DEF N, q

\* The schedule fork by fork: what each of the sets of mod.rs adds.
LEMMA ScheduleByFork ==
    /\ Begun(SHANGHAI)  = Entries(PreBernoulli, SHANGHAI)
    /\ Begun(BERNOULLI) = Begun(SHANGHAI) \cup Entries([SHA256 |-> "sha256"], BERNOULLI)
    /\ Begun(CURIE) = Begun(BERNOULLI) /\ Begun(DARWIN) = Begun(BERNOULLI)
    /\ Begun(EUCLID)    = Begun(DARWIN) \cup Entries([P256VERIFY |-> "p256verify"], EUCLID)
    /\ Begun(FEYNMAN)   = Begun(EUCLID) \cup Entries([BN254_PAIRING |-> "pairing"], FEYNMAN)
    /\ Begun(GALILEO)   = Begun(FEYNMAN)
          \cup Entries([MODEXP |-> "modexp_osaka", P256VERIFY |-> "p256verify_osaka"], GALILEO)
    /\ Begun(TSUKI)     = Begun(GALILEO)
          \cup (Entries([RIPEMD160 |-> "ripemd160_32_bytes"], TSUKI)
                   \cup Entries(TsukiExtensions, TSUKI))
    /\ Begun(TSUKI_V2)  = Begun(TSUKI)
<1> DEFINE pre == Entries(PreBernoulli, SHANGHAI)
           sha == [address |-> "SHA256",        since |-> BERNOULLI, impl |-> "sha256"]
           pv1 == [address |-> "P256VERIFY",    since |-> EUCLID,    impl |-> "p256verify"]
           pai == [address |-> "BN254_PAIRING", since |-> FEYNMAN,   impl |-> "pairing"]
           mod == [address |-> "MODEXP",        since |-> GALILEO,   impl |-> "modexp_osaka"]
           pv2 == [address |-> "P256VERIFY",    since |-> GALILEO,   impl |-> "p256verify_osaka"]
           rip == [address |-> "RIPEMD160",     since |-> TSUKI,     impl |-> "ripemd160_32_bytes"]
           tra == [address |-> "TRANSFER",      since |-> TSUKI,     impl |-> "transfer"]
<1>1. Schedule = pre \cup {sha, pv1, pai, mod, pv2, rip, tra}
  BY DEF Schedule, Entries
<1>2. /\ \A e \in pre : e.since = 1
      /\ sha.since = 2 /\ pv1.since = 5 /\ pai.since = 6 /\ mod.since = 7 /\ pv2.since = 7
      /\ rip.since = 8 /\ tra.since = 8
  BY DEF Entries, SHANGHAI, BERNOULLI, EUCLID, FEYNMAN, GALILEO, TSUKI
<1>3. /\ Entries([SHA256 |-> "sha256"], BERNOULLI) = {sha}
      /\ Entries([P256VERIFY |-> "p256verify"], EUCLID) = {pv1}
      /\ Entries([BN254_PAIRING |-> "pairing"], FEYNMAN) = {pai}
      /\ Entries([RIPEMD160 |-> "ripemd160_32_bytes"], TSUKI) = {rip}
      /\ Entries(TsukiExtensions, TSUKI) = {tra}
  <2>1. Entries([SHA256 |-> "sha256"], BERNOULLI) = {sha}
    BY DEF Entries
  <2>2. Entries([P256VERIFY |-> "p256verify"], EUCLID) = {pv1}
    BY DEF Entries
  <2>3. Entries([BN254_PAIRING |-> "pairing"], FEYNMAN) = {pai}
    BY DEF Entries
  <2>4. Entries([RIPEMD160 |-> "ripemd160_32_bytes"], TSUKI) = {rip}
    BY DEF Entries
  <2>5. Entries(TsukiExtensions, TSUKI) = {tra}
    BY DEF Entries, TsukiExtensions
  <2> QED BY <2>1, <2>2, <2>3, <2>4, <2>5
<1>4. Entries([MODEXP |-> "modexp_osaka", P256VERIFY |-> "p256verify_osaka"], GALILEO) = {mod, pv2}
  BY DEF Entries
<1> HIDE DEF pre, sha, pv1, pai, mod, pv2, rip, tra
<1>5. /\ Begun(1) = pre /\ Begun(2) = pre \cup {sha} /\ Begun(3) = Begun(2) /\ Begun(4) = Begun(2)
      /\ Begun(5) = Begun(4) \cup {pv1} /\ Begun(6) = Begun(5) \cup {pai}
      /\ Begun(7) = Begun(6) \cup {mod, pv2} /\ Begun(8) = Begun(7) \cup ({rip} \cup {tra})
      /\ Begun(9) = Begun(8)
  BY <1>1, <1>2 DEF Begun
<1> QED BY <1>3, <1>4, <1>5 DEF pre, SHANGHAI, BERNOULLI, CURIE, DARWIN, EUCLID, FEYNMAN, GALILEO,
                                   TSUKI, TSUKI_V2

\* The set of every fork holds the schedule of that fork.
LEMMA SetsHoldTheSchedule ==
    ASSUME NEW spec \in ScrollSpecId
    PROVE  Holds(NewWithSpec(spec).inner, Begun(spec))
<1> USE DEF SHANGHAI, BERNOULLI, CURIE, DARWIN, EUCLID, FEYNMAN, GALILEO, TSUKI, TSUKI_V2
<1>1. \A s \in Int : \A e \in Begun(s) : e.since <= s /\ e.since \in Int
  <2>1. \A e \in Schedule : e.since \in Int
    BY DEF Schedule
  <2> QED BY <2>1 DEF Begun
<1>2. Holds(PreBernoulli, Begun(1))
  BY HoldsItself, ScheduleByFork
<1>3. Holds(Bernoulli, Begun(2))
  <2>1. \A e \in Begun(1) : e.since \in Int /\ e.since <= 2 /\ e.since # 2
    BY <1>1
  <2>2. Holds(Extend(PreBernoulli, [SHA256 |-> "sha256"]),
              Begun(1) \cup Entries([SHA256 |-> "sha256"], 2))
    BY <1>2, <2>1, HoldsMore
  <2> QED BY <2>2, ScheduleByFork DEF Bernoulli
<1>4. Holds(Bernoulli, Begun(3)) /\ Holds(Bernoulli, Begun(4))
  BY <1>3, ScheduleByFork
<1>5. Holds(Euclid, Begun(5))
  <2>1. \A e \in Begun(4) : e.since \in Int /\ e.since <= 5 /\ e.since # 5
    BY <1>1
  <2>2. Holds(Extend(Bernoulli, [P256VERIFY |-> "p256verify"]),
              Begun(4) \cup Entries([P256VERIFY |-> "p256verify"], 5))
    BY <1>4, <2>1, HoldsMore
  <2> QED BY <2>2, ScheduleByFork DEF Euclid
<1>6. Holds(Feynman, Begun(6))
  <2>1. \A e \in Begun(5) : e.since \in Int /\ e.since <= 6 /\ e.since # 6
    BY <1>1
  <2>2. Holds(Extend(Euclid, [BN254_PAIRING |-> "pairing"]),
              Begun(5) \cup Entries([BN254_PAIRING |-> "pairing"], 6))
    BY <1>5, <2>1, HoldsMore
  <2> QED BY <2>2, ScheduleByFork DEF Feynman
<1>7. Holds(Galileo, Begun(7))
  <2> DEFINE more == [MODEXP |-> "modexp_osaka", P256VERIFY |-> "p256verify_osaka"]
  <2>1. \A e \in Begun(6) : e.since \in Int /\ e.since <= 7 /\ e.since # 7
    BY <1>1
  <2>2. Galileo = Extend(Feynman, more) /\ Begun(7) = Begun(6) \cup Entries(more, 7)
    BY ScheduleByFork DEF Galileo
  <2> HIDE DEF more
  <2>3. Holds(Extend(Feynman, more), Begun(6) \cup Entries(more, 7))
    BY <1>6, <2>1, HoldsMore
  <2> QED BY <2>2, <2>3
<1>8. Holds(Tsuki, Begun(8))
  <2> DEFINE more == [RIPEMD160 |-> "ripemd160_32_bytes"]
  <2>1. \A e \in Begun(7) : e.since \in Int /\ e.since <= 8 /\ e.since # 8
    BY <1>1
  <2>2. Holds(TsukiStatic, Begun(7) \cup Entries(more, 8))
    BY <1>7, <2>1, HoldsMore DEF TsukiStatic
  <2>3. \A e \in Entries(more, 8) : e.since = 8 /\ e.address = "RIPEMD160"
    BY DEF Entries
  <2>4. DOMAIN TsukiExtensions = {"TRANSFER"}
    BY DEF TsukiExtensions
  <2>5. Begun(8) = (Begun(7) \cup Entries(more, 8)) \cup Entries(TsukiExtensions, 8)
    BY ScheduleByFork
  <2> HIDE DEF more
  <2>6. \A e \in Begun(7) \cup Entries(more, 8) :
           e.since \in Int /\ e.since <= 8 /\ (e.since = 8 => e.address \notin DOMAIN TsukiExtensions)
    BY <2>1, <2>3, <2>4
  <2>7. Holds(Extend(TsukiStatic, TsukiExtensions),
              (Begun(7) \cup Entries(more, 8)) \cup Entries(TsukiExtensions, 8))
    BY <2>2, <2>6, HoldsMore
  <2> QED BY <2>5, <2>7 DEF Tsuki
<1>9. Holds(Tsuki, Begun(9))
  BY <1>8, ScheduleByFork
<1>10. spec \in 1 .. 9
  BY DEF ScrollSpecId
<1> DEFINE inner == NewWithSpec(spec).inner
<1>11. /\ spec = 1 => inner = PreBernoulli
       /\ spec \in {2, 3, 4} => inner = Bernoulli
       /\ spec = 5 => inner = Euclid
       /\ spec = 6 => inner = Feynman
       /\ spec = 7 => inner = Galileo
       /\ spec \in {8, 9} => inner = Tsuki
  BY DEF NewWithSpec
<1> HIDE DEF inner
<1>12. Holds(inner, Begun(spec))
  BY <1>2, <1>3, <1>4, <1>5, <1>6, <1>7, <1>8, <1>9, <1>10, <1>11
<1> QED BY <1>12 DEF inner

\* Holding the schedule of a fork is having installed what is due.
LEMMA HoldingIsInstalling ==
    ASSUME NEW spec, NEW p, Holds(p, Begun(spec))
    PROVE  /\ {[address |-> a, impl |-> p[a]] : a \in DOMAIN p} = Due(spec)
           /\ DOMAIN p = {e.address : e \in Scheduled(spec)}
<1>1. Scheduled(spec) = Newest(Begun(spec))
  BY DEF Scheduled, Newest, Begun
<1>2. /\ DOMAIN p = {e.address : e \in Scheduled(spec)}
      /\ \A e \in Scheduled(spec) : p[e.address] = e.impl
  BY <1>1 DEF Holds
<1> DEFINE installed == {[address |-> a, impl |-> p[a]] : a \in DOMAIN p}
<1>3. ASSUME NEW r \in installed PROVE r \in Due(spec)
  <2>1. PICK a \in DOMAIN p : r = [address |-> a, impl |-> p[a]]
    OBVIOUS
  <2>2. PICK e \in Scheduled(spec) : e.address = a
    BY <1>2
  <2> QED BY <1>2, <2>1, <2>2 DEF Due
<1>4. ASSUME NEW r \in Due(spec) PROVE r \in installed
  <2>1. PICK e \in Scheduled(spec) : r = [address |-> e.address, impl |-> e.impl]
    BY DEF Due
  <2> QED BY <1>2, <2>1
<1> QED BY <1>2, <1>3, <1>4

\* The gas parameters of a fork: what EIP-7702 and EIP-7623 add stays from their fork on.
LEMMA GasParamsOfAFork ==
    ASSUME NEW spec \in ScrollSpecId
    PROVE  /\ NewScrollSpec(spec).perEmptyAccount = IF spec >= EUCLID THEN 25000 ELSE 0
           /\ NewScrollSpec(spec).floorPerToken   = IF spec >= FEYNMAN THEN 10 ELSE 0
<1> DEFINE euclid == IF spec >= EUCLID THEN Extend(ShanghaiGas, EIP7702Gas) ELSE ShanghaiGas
           all    == IF spec >= FEYNMAN THEN Extend(euclid, EIP7623Gas) ELSE euclid
<1>1. /\ DOMAIN ShanghaiGas = {"perEmptyAccount", "authRefund", "floorPerToken", "floorBase"}
      /\ ShanghaiGas["perEmptyAccount"] = 0 /\ ShanghaiGas["floorPerToken"] = 0
      /\ DOMAIN EIP7702Gas = {"perEmptyAccount", "authRefund"}
      /\ EIP7702Gas["perEmptyAccount"] = 25000
      /\ DOMAIN EIP7623Gas = {"floorPerToken", "floorBase"}
      /\ EIP7623Gas["floorPerToken"] = 10
  BY DEF ShanghaiGas, EIP7702Gas, EIP7623Gas
<1>2. \A f, g : /\ DOMAIN Extend(f, g) = DOMAIN g \cup DOMAIN f
                /\ \A a \in DOMAIN g \cup DOMAIN f :
                      Extend(f, g)[a] = IF a \in DOMAIN g THEN g[a] ELSE f[a]
  BY DEF Extend
<1> DEFINE x == Extend(ShanghaiGas, EIP7702Gas)
<1>3. /\ DOMAIN x = DOMAIN ShanghaiGas /\ x["perEmptyAccount"] = 25000 /\ x["floorPerToken"] = 0
  <2>1. /\ DOMAIN x = DOMAIN EIP7702Gas \cup DOMAIN ShanghaiGas
        /\ \A a \in DOMAIN EIP7702Gas \cup DOMAIN ShanghaiGas :
              x[a] = IF a \in DOMAIN EIP7702Gas THEN EIP7702Gas[a] ELSE ShanghaiGas[a]
    BY <1>2
  <2> HIDE DEF x
  <2> QED BY <1>1, <2>1
<1>4. NewScrollSpec(spec) = all
  BY DEF NewScrollSpec, IsEnabledIn
<1>5. euclid = IF spec >= EUCLID THEN x ELSE ShanghaiGas
  OBVIOUS
<1> HIDE DEF euclid
<1> DEFINE y == Extend(euclid, EIP7623Gas)
<1>6. all = IF spec >= FEYNMAN THEN y ELSE euclid
  OBVIOUS
<1>7. /\ DOMAIN y = DOMAIN EIP7623Gas \cup DOMAIN euclid
      /\ \A a \in DOMAIN EIP7623Gas \cup DOMAIN euclid :
            y[a] = IF a \in DOMAIN EIP7623Gas THEN EIP7623Gas[a] ELSE euclid[a]
  BY <1>2
<1> HIDE DEF all, x, y
<1>8. /\ DOMAIN euclid = DOMAIN ShanghaiGas /\ euclid["floorPerToken"] = 0
      /\ spec >= EUCLID => euclid["perEmptyAccount"] = 25000
      /\ ~(spec >= EUCLID) => euclid["perEmptyAccount"] = 0
  BY <1>1, <1>3, <1>5
<1>9. y["perEmptyAccount"] = euclid["perEmptyAccount"] /\ y["floorPerToken"] = 10
  BY <1>1, <1>7, <1>8
<1>10. /\ all["perEmptyAccount"] = IF spec >= EUCLID THEN 25000 ELSE 0
       /\ all["floorPerToken"] = IF spec >= FEYNMAN THEN 10 ELSE 0
  BY <1>6, <1>8, <1>9
<1> QED BY <1>4, <1>10

-----------------------------------------------------------------------------
(* The inductive invariant *)

TypeInv ==
    /\ pc \in {"idle", "transaction", "system_call"}
    /\ cfg \in [spec : ScrollSpecId, gasParams : {NewScrollSpec(s) : s \in ScrollSpecId},
                tx_gas_limit_cap : Nat \cup {None}]
    /\ ownCap \in Nat \cup {None} /\ highest \in Nat /\ seen \in ScrollSpecId

\* The provider is whole, the one of the last transaction's fork, and its addresses are warm
\* together; a running transaction has seen the configuration's fork.
ProviderInv ==
    /\ provider = NewWithSpec(seen)
    /\ warm \in {{}, DOMAIN provider.inner}
    /\ pc = "transaction" => seen = cfg.spec /\ warm = DOMAIN provider.inner

\* The configuration has its own fork's gas and the cap that the owner or the forks have set.
CfgInv ==
    /\ cfg.gasParams = NewScrollSpec(cfg.spec)
    /\ cfg.tx_gas_limit_cap = IF ownCap # None THEN ownCap
                              ELSE IF highest >= TSUKI THEN TX_GAS_LIMIT_CAP ELSE None

IInv == TypeInv /\ ProviderInv /\ CfgInv /\ table = [base |-> EthSHANGHAI]

\* An EVM is built whole for its fork.
LEMMA InitEstablishesIInv == Init => IInv
<1> SUFFICES ASSUME Init PROVE IInv
  OBVIOUS
<1>1. PICK s \in InitialSpecs :
        /\ pc = "idle" /\ cfg = NewScroll(s) /\ provider = NewWithSpec(s)
        /\ warm = {} /\ table = MakeScrollInstructionTable(s)
        /\ ownCap = None /\ highest = s /\ seen = s
  BY DEF Init
<1>2. s \in ScrollSpecId /\ s \in Nat
  BY ConfigAssumption DEF ScrollSpecId, SHANGHAI, TSUKI_V2
<1>3. cfg = [spec |-> s, gasParams |-> NewScrollSpec(s),
             tx_gas_limit_cap |-> IF s >= TSUKI THEN TX_GAS_LIMIT_CAP ELSE None]
  BY <1>1 DEF NewScroll, SetScrollSpec, IsEnabledIn
<1>4. TypeInv
  BY <1>1, <1>2, <1>3, ConfigAssumption DEF TypeInv
<1>5. ProviderInv
  BY <1>1 DEF ProviderInv
<1>6. CfgInv
  BY <1>1, <1>3 DEF CfgInv
<1>7. table = [base |-> EthSHANGHAI]
  BY <1>1 DEF MakeScrollInstructionTable, IntoEthSpecId
<1> QED BY <1>4, <1>5, <1>6, <1>7 DEF IInv

\* A move to another fork takes the gas along and sets the cap only where nobody has.
LEMMA MoveToKeepsIInv ==
    ASSUME IInv, NEW s \in LaterSpecs, MoveTo(s)
    PROVE  IInv'
<1>1. s \in ScrollSpecId /\ s \in Nat
  BY ConfigAssumption DEF ScrollSpecId, SHANGHAI, TSUKI_V2
<1> DEFINE cap == IF s >= TSUKI /\ cfg.tx_gas_limit_cap = None
                  THEN TX_GAS_LIMIT_CAP ELSE cfg.tx_gas_limit_cap
<1>2. /\ pc = "idle" /\ pc' = pc /\ highest' = IF s > highest THEN s ELSE highest
      /\ provider' = provider /\ warm' = warm /\ table' = table /\ ownCap' = ownCap /\ seen' = seen
      /\ cfg' = [spec |-> s, gasParams |-> NewScrollSpec(s), tx_gas_limit_cap |-> cap]
  BY DEF MoveTo, SetScrollSpec, IsEnabledIn
<1>3. cfg.tx_gas_limit_cap \in Nat \cup {None} /\ highest \in Nat
  BY DEF IInv, TypeInv
<1>4. cap \in Nat \cup {None}
  BY <1>3, ConfigAssumption
<1>5. cap = IF ownCap # None THEN ownCap ELSE IF highest' >= TSUKI THEN TX_GAS_LIMIT_CAP ELSE None
  BY <1>1, <1>2, <1>3, ConfigAssumption DEF IInv, CfgInv, TSUKI
<1> HIDE DEF cap
<1>6. TypeInv'
  BY <1>1, <1>2, <1>3, <1>4 DEF IInv, TypeInv
<1>7. ProviderInv'
  BY <1>2 DEF IInv, ProviderInv
<1>8. CfgInv'
  BY <1>2, <1>5 DEF CfgInv
<1> QED BY <1>2, <1>6, <1>7, <1>8 DEF IInv

\* The owner's cap is kept apart from the forks'.
LEMMA SetCapKeepsIInv ==
    ASSUME IInv, NEW c \in OwnCaps \cup {None}, SetCap(c)
    PROVE  IInv'
<1>1. /\ pc = "idle" /\ pc' = pc /\ cfg' = [cfg EXCEPT !.tx_gas_limit_cap = c]
      /\ ownCap' = c /\ highest' = 0
      /\ provider' = provider /\ warm' = warm /\ table' = table /\ seen' = seen
  BY DEF SetCap
<1>2. c \in Nat \cup {None}
  BY ConfigAssumption
<1>3. /\ cfg' \in [spec : ScrollSpecId, gasParams : {NewScrollSpec(s) : s \in ScrollSpecId},
                   tx_gas_limit_cap : Nat \cup {None}]
      /\ cfg'.spec = cfg.spec /\ cfg'.gasParams = cfg.gasParams /\ cfg'.tx_gas_limit_cap = c
  BY <1>1, <1>2 DEF IInv, TypeInv
<1>4. TypeInv'
  BY <1>1, <1>2, <1>3 DEF IInv, TypeInv
<1>5. ProviderInv'
  BY <1>1 DEF IInv, ProviderInv
<1>6. CfgInv'
  BY <1>1, <1>3 DEF IInv, CfgInv, TSUKI
<1> QED BY <1>1, <1>4, <1>5, <1>6 DEF IInv

\* A transaction brings the provider to the configuration's fork and its addresses to the journal.
LEMMA TransactKeepsIInv ==
    ASSUME IInv, Transact
    PROVE  IInv'
<1> DEFINE r == SetSpec(provider, cfg.spec)
<1>1. /\ pc = "idle" /\ pc' = "transaction" /\ provider' = r.provider /\ seen' = cfg.spec
      /\ warm' = IF r.changed \/ warm = {} THEN DOMAIN r.provider.inner ELSE warm
      /\ cfg' = cfg /\ table' = table /\ ownCap' = ownCap /\ highest' = highest
  BY DEF Transact
<1>2. provider = NewWithSpec(seen) /\ provider.spec = seen /\ warm \in {{}, DOMAIN provider.inner}
  BY DEF IInv, ProviderInv, NewWithSpec
<1>3. /\ r.provider = NewWithSpec(cfg.spec)
      /\ ~r.changed => r.provider = provider
  BY <1>2 DEF SetSpec
<1> HIDE DEF r
<1>4. provider' = NewWithSpec(seen') /\ warm' = DOMAIN provider'.inner
  BY <1>1, <1>2, <1>3
<1>5. cfg.spec \in ScrollSpecId
  BY DEF IInv, TypeInv
<1>6. TypeInv'
  BY <1>1, <1>5 DEF IInv, TypeInv
<1>7. ProviderInv'
  BY <1>1, <1>4 DEF ProviderInv
<1>8. CfgInv'
  BY <1>1 DEF IInv, CfgInv
<1> QED BY <1>1, <1>6, <1>7, <1>8 DEF IInv

\* Every step keeps the invariant.
LEMMA NextKeepsIInv == IInv /\ [Next]_vars => IInv'
<1> SUFFICES ASSUME IInv, [Next]_vars PROVE IInv'
  OBVIOUS
<1>1. ASSUME NEW s \in LaterSpecs, MoveTo(s) PROVE IInv'
  BY <1>1, MoveToKeepsIInv
<1>2. ASSUME NEW c \in OwnCaps \cup {None}, SetCap(c) PROVE IInv'
  BY <1>2, SetCapKeepsIInv
<1>3. CASE Transact
  BY <1>3, TransactKeepsIInv
<1>4. CASE SystemCall
  BY <1>4 DEF SystemCall, IInv, TypeInv, ProviderInv, CfgInv
<1>5. CASE End
  BY <1>5 DEF End, IInv, TypeInv, ProviderInv, CfgInv
<1>6. CASE UNCHANGED vars
  BY <1>6 DEF vars, IInv, TypeInv, ProviderInv, CfgInv
<1> QED BY <1>1, <1>2, <1>3, <1>4, <1>5, <1>6 DEF Next

\* The invariant holds in every reachable state.
LEMMA Inductive == Spec => []IInv
BY InitEstablishesIInv, NextKeepsIInv, PTL DEF Spec

-----------------------------------------------------------------------------
(* Theorems *)

\* What a provider for a fork has installed is what is due in that fork.
LEMMA ProviderInstalls ==
    ASSUME IInv
    PROVE  Installed = Due(seen) /\ DOMAIN provider.inner = {e.address : e \in Scheduled(seen)}
<1>1. seen \in ScrollSpecId /\ provider = NewWithSpec(seen)
  BY DEF IInv, TypeInv, ProviderInv
<1>2. Holds(provider.inner, Begun(seen))
  BY <1>1, SetsHoldTheSchedule
<1> QED BY <1>2, HoldingIsInstalling DEF Installed

\* The code of a transaction finds the precompiles due in its fork, and exactly their addresses
\* warm, wherever the EVM has been before.
THEOREM TransactionsRunOnTheirFork == Spec => []TransactionsMeetTheirFork
<1>1. ASSUME IInv PROVE TransactionsMeetTheirFork
  <2>1. ASSUME pc = "transaction"
        PROVE  Installed = Due(cfg.spec) /\ warm = {e.address : e \in Scheduled(cfg.spec)}
    <3>1. seen = cfg.spec /\ warm = DOMAIN provider.inner
      BY <1>1, <2>1 DEF IInv, ProviderInv
    <3> QED BY <1>1, <3>1, ProviderInstalls
  <2> QED BY <2>1 DEF TransactionsMeetTheirFork
<1> QED BY <1>1, Inductive, PTL

\* A system call, which the provider is not told about, runs on the whole precompile set of the
\* last transaction's fork.
THEOREM SystemCallsRunOnAWholeFork == Spec => []SystemCallsMeetLastTransactionsFork
<1>1. ASSUME IInv PROVE SystemCallsMeetLastTransactionsFork
  <2>1. Installed = Due(seen)
    BY <1>1, ProviderInstalls
  <2>2. warm \in {{}, DOMAIN provider.inner}
    BY <1>1 DEF IInv, ProviderInv
  <2> QED BY <2>1, <2>2 DEF SystemCallsMeetLastTransactionsFork
<1> QED BY <1>1, Inductive, PTL

\* The instruction table made when the EVM was built serves every fork it is moved to, and the
\* overrides run what has begun by that fork.
THEOREM InstructionsRunOnTheirFork == Spec => []InstructionsMeetTheirFork
<1>1. ASSUME IInv PROVE InstructionsMeetTheirFork
  <2>1. cfg.spec \in 1 .. 9
    BY <1>1 DEF IInv, TypeInv, ScrollSpecId, SHANGHAI, TSUKI_V2
  <2>2. table = MakeScrollInstructionTable(cfg.spec)
    BY <1>1 DEF IInv, MakeScrollInstructionTable, IntoEthSpecId
  <2> DEFINE running == {op \in Overrides : ~NotActivated(op, cfg)}
             begun   == {"BLOCKHASH", "DIFFICULTY"}
                        \cup {e[1] : e \in {x \in OpcodeSchedule : x[2] <= cfg.spec}}
  <2>3. \A op : op \in running <=>
           \/ op \in {"BLOCKHASH", "DIFFICULTY"}
           \/ op \in {"BASEFEE", "TSTORE", "TLOAD", "MCOPY"} /\ 3 <= cfg.spec
           \/ op = "CLZ" /\ 7 <= cfg.spec
    BY <2>1 DEF Overrides, NotActivated, IsEnabledIn, CURIE, GALILEO
  <2>4. /\ \A x \in OpcodeSchedule :
              \/ x[1] \in {"BASEFEE", "TSTORE", "TLOAD", "MCOPY"} /\ x[2] = 3
              \/ x[1] = "CLZ" /\ x[2] = 7
        /\ \A op \in {"BASEFEE", "TSTORE", "TLOAD", "MCOPY"} :
              \E x \in OpcodeSchedule : x[1] = op /\ x[2] = 3
        /\ \E x \in OpcodeSchedule : x[1] = "CLZ" /\ x[2] = 7
    <3> DEFINE curie == {"BASEFEE", "TSTORE", "TLOAD", "MCOPY"}
    <3> HIDE DEF curie
    <3>1. OpcodeSchedule = curie \X {3} \cup {<<"CLZ", 7>>}
      BY DEF OpcodeSchedule, CURIE, GALILEO, curie
    <3>2. \A op \in curie : <<op, 3>> \in OpcodeSchedule
      BY <3>1
    <3>3. \A x \in OpcodeSchedule : (x[1] \in curie /\ x[2] = 3) \/ (x[1] = "CLZ" /\ x[2] = 7)
      BY <3>1
    <3>4. <<"CLZ", 7>> \in OpcodeSchedule
      BY <3>1
    <3> QED BY <3>2, <3>3, <3>4 DEF curie
  <2>5. \A op : op \in begun <=>
           \/ op \in {"BLOCKHASH", "DIFFICULTY"}
           \/ op \in {"BASEFEE", "TSTORE", "TLOAD", "MCOPY"} /\ 3 <= cfg.spec
           \/ op = "CLZ" /\ 7 <= cfg.spec
    <3>1. \A op : op \in begun <=>
             \/ op \in {"BLOCKHASH", "DIFFICULTY"}
             \/ \E x \in OpcodeSchedule : x[2] <= cfg.spec /\ op = x[1]
      OBVIOUS
    <3> QED BY <2>4, <3>1
  <2> HIDE DEF running, begun
  <2>6. running = begun
    BY <2>3, <2>5
  <2> QED BY <2>2, <2>6 DEF InstructionsMeetTheirFork, running, begun
<1> QED BY <1>1, Inductive, PTL

\* The gas parameters are those of the configuration's fork and the cap is the owner's or else
\* the highest fork's, after any sequence of moves.
THEOREM ConfigurationFollowsTheFork == Spec => []ConfigFollowsFork
<1>1. ASSUME IInv PROVE ConfigFollowsFork
  <2>1. cfg.spec \in ScrollSpecId
    BY <1>1 DEF IInv, TypeInv
  <2> QED BY <1>1, <2>1, GasParamsOfAFork DEF IInv, CfgInv, ConfigFollowsFork
<1> QED BY <1>1, Inductive, PTL
=============================================================================
