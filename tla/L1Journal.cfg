SPECIFICATION Spec
CONSTANTS
    SystemAddress = SystemAddress
    None = None
    UMAX = 255
    PRECISION = 2
    U64_MAX = 15
    U96_MAX = 31
    ZERO_BYTE_COST = 1
    NON_ZERO_BYTE_COST = 2
    TX_L1_COMMIT_EXTRA_COST = 1
    MaxSize = 4
    DataSet <- MCDataSet
    InitialSpecs <- MCSpecs
    InitialValues = {2}
    WriteValues = {0, 3}
    MaxTouches = 3
INVARIANTS FeeIsExactUpToCap FeeGrowsWithSize
