---------------------------- MODULE PurePrecompiles ----------------------------
(***************************************************************************)
(* Calls of the precompiles without state, through the forks: the checks   *)
(* that modexp.rs, hash.rs, bn254.rs and blake2.rs under                   *)
(* src/src/precompile put in front of revm's cryptography.  An input is a  *)
(* sequence of bytes; a byte has BYTE values and a word of modexp's header *)
(* WORD bytes, 256 and 32 in the code.  Gas and results are revm's.        *)
(***************************************************************************)
EXTENDS PrecompileSets, Sequences, SequencesExt

CONSTANTS
    BYTE, WORD,
    BERNOULLI_MODEXP_LIMIT,     \* modexp's BERNOULLI_LEN_LIMIT
    OSAKA_MODEXP_LIMIT,         \* that of revm's osaka_run
    TSUKI_LEN_LIMIT,            \* ripemd160's
    BERNOULLI_PAIRS,            \* bn254's BERNOULLI_LEN_LIMIT
    PAIR_ELEMENT_LEN,
    Inputs

ASSUME PureAssumption ==
    /\ BYTE \in Nat \ {0, 1} /\ WORD \in Nat \ {0}
    /\ TSUKI_LEN_LIMIT \in Nat /\ BERNOULLI_PAIRS \in Nat /\ PAIR_ELEMENT_LEN \in Nat
    /\ BERNOULLI_MODEXP_LIMIT \in Nat /\ OSAKA_MODEXP_LIMIT \in Nat
    /\ BERNOULLI_MODEXP_LIMIT <= OSAKA_MODEXP_LIMIT
    /\ \A input \in Inputs : input \in Seq(0 .. BYTE - 1)

VARIABLES
    spec,       \* the fork
    target,     \* the precompile called
    input,
    outcome     \* "revm" if revm's implementation gets the input, otherwise the error

vars == <<spec, target, input, outcome>>

-----------------------------------------------------------------------------
(* The header of modexp: the lengths of base, exponent and modulus *)

\* right_pad_with_offset::<WORD> (external).
RightPadWithOffset(in, offset) ==
    LET data == SubSeq(in, offset + 1, Len(in))
    IN  [i \in 1 .. WORD |-> IF i <= Len(data) THEN data[i] ELSE 0]

\* U256::from_be_bytes (external).
FromBeBytes(bytes) ==
    LET value[n \in 0 .. Len(bytes)] == IF n = 0 THEN 0 ELSE value[n - 1] * BYTE + bytes[n]
    IN  value[Len(bytes)]

HeaderWord(in, i) == FromBeBytes(RightPadWithOffset(in, i * WORD))

\* The first operand that is longer than limit, if any, fails the call.
LengthsChecked(lengths, limit) ==
    LET long == {i \in 1 .. 3 : lengths[i] > limit}
    IN  IF long = {} THEN "revm"
        ELSE <<"base overflow", "exp overflow", "mod overflow">>[Min(long)]

\* Variant with a mistake: the lengths are narrowed before they are compared.
BernoulliModexpNarrowed(in) ==
    LengthsChecked([i \in 1 .. 3 |-> HeaderWord(in, i - 1) % BYTE], BERNOULLI_MODEXP_LIMIT)

BernoulliModexp(in) ==
    LengthsChecked([i \in 1 .. 3 |-> HeaderWord(in, i - 1)], BERNOULLI_MODEXP_LIMIT)

\* revm's modexp of Osaka, with the limit of EIP-7823 (external).
OsakaModexp(in) ==
    LengthsChecked([i \in 1 .. 3 |-> HeaderWord(in, i - 1)], OSAKA_MODEXP_LIMIT)

-----------------------------------------------------------------------------
(* The others *)

TsukiRipemd160(in) ==
    IF Len(in) > TSUKI_LEN_LIMIT THEN "ripemd160 input overflow" ELSE "revm"

BernoulliPairing(in) ==
    IF Len(in) > BERNOULLI_PAIRS * PAIR_ELEMENT_LEN THEN "pairing input overflow" ELSE "revm"

\* What a call of an address comes to under a fork; an address that is no precompile runs none.
Called(s, address, in) ==
    LET inner == NewWithSpec(s).inner
        impl  == IF address \in DOMAIN inner THEN inner[address] ELSE "none"
    IN  CASE impl = "none" -> "no precompile"
          [] impl = "not_implemented" -> "not implemented"
          [] impl = "modexp_32_bytes" -> BernoulliModexp(in)
          [] impl = "modexp_osaka" -> OsakaModexp(in)
          [] impl = "ripemd160_32_bytes" -> TsukiRipemd160(in)
          [] impl = "pairing_4_pairs" -> BernoulliPairing(in)
          [] OTHER -> "revm"

\* The addresses of the precompiles without state.
Targets == DOMAIN TsukiStatic

-----------------------------------------------------------------------------
Init ==
    /\ spec = SHANGHAI
    /\ target \in Targets /\ input \in Inputs
    /\ outcome = Called(SHANGHAI, target, input)

\* The same call is made again under a later fork, next or not.
CallAgain(s) ==
    /\ s > spec /\ spec' = s
    /\ outcome' = Called(s, target, input)
    /\ UNCHANGED <<target, input>>

Next == \E s \in ScrollSpecId : CallAgain(s)

Spec == Init /\ [][Next]_vars

-----------------------------------------------------------------------------
\* The length of the i-th operand as EIP-198 has it: the input goes on with zeros for ever, and a
\* number is the sum of its digits, each times the value of its place.
ByteAt(k)  == IF k <= Len(input) THEN input[k] ELSE 0
Place[k \in 0 .. WORD] == IF k = 0 THEN 1 ELSE BYTE * Place[k - 1]
OperandLength(i) == SumFunction([k \in 1 .. WORD |-> ByteAt(i * WORD + k) * Place[WORD - k]])

ModexpLimit == IF spec < GALILEO THEN BERNOULLI_MODEXP_LIMIT ELSE OSAKA_MODEXP_LIMIT

\* revm's modexp gets an input exactly if no operand is longer than the fork allows, the header
\* read at its full width and beyond the end of a short input: a length of 2^64 is not taken for
\* zero, and a header cut in the middle of a word has the high digits of that word.
ModexpComputesWithinLimit ==
    target = "MODEXP" =>
        (outcome = "revm" <=> \A i \in 0 .. 2 : OperandLength(i) <= ModexpLimit)

\* A fork may add a precompile and widen what one accepts, but never takes anything back: a call
\* that reached revm's implementation under one fork reaches one under every later fork, although
\* each set replaces entries of the one before and the limits of every precompile change at
\* forks of their own.
ForksTakeNothingBack == [][outcome = "revm" => outcome' = "revm"]_vars
=============================================================================
