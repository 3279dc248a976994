---------------------------- MODULE PrecompileSets ----------------------------
(***************************************************************************)
(* Which precompile implementation an address has in each fork             *)
(* (src/src/precompile/mod.rs), for the modules that follow the sets on a  *)
(* live EVM (ScrollConfig) and those that call them (PurePrecompiles).     *)
(***************************************************************************)
EXTENDS ScrollSpecs

-----------------------------------------------------------------------------
(* Precompile sets: which implementation each address has.  A later set    *)
(* extends an earlier one and replaces what has the same address.          *)

Extend(set, more) ==
    [a \in DOMAIN more \cup DOMAIN set |-> IF a \in DOMAIN more THEN more[a] ELSE set[a]]

PreBernoulli == [ECRECOVER     |-> "ecrecover",      SHA256    |-> "not_implemented",
                 RIPEMD160     |-> "not_implemented", IDENTITY  |-> "identity",
                 MODEXP        |-> "modexp_32_bytes", BN254_ADD |-> "bn254_add",
                 BN254_MUL     |-> "bn254_mul",       BN254_PAIRING |-> "pairing_4_pairs",
                 BLAKE2F       |-> "not_implemented"]

Bernoulli == Extend(PreBernoulli, [SHA256 |-> "sha256"])
Euclid    == Extend(Bernoulli,    [P256VERIFY |-> "p256verify"])
Feynman   == Extend(Euclid,       [BN254_PAIRING |-> "pairing"])
Galileo   == Extend(Feynman,      [MODEXP |-> "modexp_osaka", P256VERIFY |-> "p256verify_osaka"])

\* Variant with a mistake: the newest set starts from the wrong older one.
TsukiStaticFromEuclid == Extend(Euclid, [RIPEMD160 |-> "ripemd160_32_bytes"])

TsukiStatic     == Extend(Galileo, [RIPEMD160 |-> "ripemd160_32_bytes"])
TsukiExtensions == [TRANSFER |-> "transfer"]
Tsuki           == Extend(TsukiStatic, TsukiExtensions)

\* new_with_spec: a match on the fork, arm by arm.
NewWithSpec(spec) ==
    [spec  |-> spec,
     inner |-> CASE spec = SHANGHAI -> PreBernoulli
                 [] spec \in {BERNOULLI, CURIE, DARWIN} -> Bernoulli
                 [] spec = EUCLID -> Euclid
                 [] spec = FEYNMAN -> Feynman
                 [] spec = GALILEO -> Galileo
                 [] spec \in {TSUKI, TSUKI_V2} -> Tsuki]
=============================================================================
