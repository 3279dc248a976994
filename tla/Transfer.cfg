SPECIFICATION Spec
CONSTANTS
    SystemAddress = SystemAddress
    None = None
    Token = Token
    Transfer = Transfer
    alice = alice
    rich = rich
    dapp = dapp
    Origin = alice
    Accounts <- MCAccounts
    Contracts <- MCContracts
    InitialBalance <- MCBalance
    Values = {0, 1, 2}
    GAS_COST = 9
    Gases = {8, 9}
    UMAX = 7
    MaxDepth = 3
    MaxCalls = 3
CHECK_DEADLOCK FALSE
INVARIANTS TypeOK SupplyIsConserved StaticFramesMoveNothing
PROPERTIES OnlyTheTokenMovesOthersMoney FailedTransferMovesNothing
