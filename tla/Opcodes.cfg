SPECIFICATION Spec
CONSTANTS
    SystemAddress = SystemAddress
    None = None
    Specs = {2, 9}
    Addresses = {a1, a2}
    Keys = {1}
    Values = {0, 1}
    Operands = {0, 1, 7, 8}
    Bytes = {0, 1}
    WORD = 2
    USIZE_MAX = 7
    WordBits = 4
    StaticGas <- MCStaticGas
    CALL_GAS = 1
    COPY_GAS = 1
    MEMORY_GAS = 1
    GasLimit = 6
    MaxDepth = 3
    MaxRuns = 2
CHECK_DEADLOCK FALSE
INVARIANTS TypeOK McopyIsEip5656
PROPERTIES ImplementsEip1153
