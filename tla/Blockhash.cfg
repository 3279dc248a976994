SPECIFICATION Spec
CONSTANTS
    SystemAddress = SystemAddress
    None = None
    InitialSpecs = {5, 7, 8, 9}
    HISTORY_SERVE_WINDOW = 3
    BLOCK_HASH_HISTORY = 2
    BaseGas = 1
    WarmGas = 1
    ColdGas = 2
    Gases = {3, 7}
    MaxBlock = 5
    MaxDepth = 2
INVARIANTS TypeOK ServesRecentHashes
PROPERTIES ImplementsEip7709
