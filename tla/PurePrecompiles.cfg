SPECIFICATION Spec
CONSTANTS
    SystemAddress = SystemAddress
    None = None
    BYTE = 3
    WORD = 2
    BERNOULLI_MODEXP_LIMIT = 1
    OSAKA_MODEXP_LIMIT = 4
    TSUKI_LEN_LIMIT = 2
    BERNOULLI_PAIRS = 4
    PAIR_ELEMENT_LEN = 2
    Inputs <- MCInputs
CHECK_DEADLOCK FALSE
INVARIANT ModexpComputesWithinLimit
PROPERTY ForksTakeNothingBack
