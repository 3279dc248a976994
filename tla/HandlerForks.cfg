SPECIFICATION Spec
CONSTANTS
    SystemAddress = SystemAddress
    None = None
    NoTx = NoTx
    NoState = NoState
    Nobody = Nobody
    alice = alice
    dapp = dapp
    fresh = fresh
    Accounts <- MCAccounts
    Cfgs <- MCForks
    Blocks <- MCBlocks
    Txs <- FeeTxs
    SystemCalls <- FeeSystem
    OracleValues <- FeeOracleValues
    DefaultInfo <- FeeDefaultInfo
    Infos <- FeeInfos
    TryFetch <- ComposedTryFetch
    DataSet <- FeeDataSet
    FeeDefined <- ComposedFeeDefined
    TxL1Cost <- ComposedTxL1Cost
    InitialBalance <- FeeBalance
    InitialCode <- MCCode
    InitialOracle <- Cheap
    AuthRefunds = {0}
    UMAX = 255
    PRECISION = 2
    U64_MAX = 15
    U96_MAX = 31
    ZERO_BYTE_COST = 1
    NON_ZERO_BYTE_COST = 2
    TX_L1_COMMIT_EXTRA_COST = 1
    MaxSize = 4
    MaxRuns = 2
CHECK_DEADLOCK FALSE
INVARIANTS OnlyTheTransactionLacksInputs FeeFromOracleAtStart
PROPERTIES ImplementsLedger
