SPECIFICATION Spec
CONSTANTS
    SystemAddress = SystemAddress
    None = None
    NoTx = NoTx
    NoState = NoState
    Nobody = Nobody
    alice = alice
    dapp = dapp
    fresh = fresh
    Accounts <- MCAccounts
    Cfgs <- MCTsukiV2
    Blocks <- MCBlocks
    Txs <- MCL1Txs
    SystemCalls <- MCSystem
    OracleValues <- MCOracleValues
    DefaultInfo <- MCDefaultInfo
    Infos <- MCInfos
    TryFetch <- MCTryFetch
    DataSet <- MCDataSet
    FeeDefined <- MCFeeDefined
    TxL1Cost <- MCTxL1Cost
    InitialBalance <- MCBalance
    InitialCode <- MCCode
    InitialOracle = 2
    AuthRefunds = {0, 1}
    UMAX = 100
    MaxRuns = 1
CHECK_DEADLOCK FALSE
PROPERTIES L1MessageNonceChecked
