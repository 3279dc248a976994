SPECIFICATION Spec
CONSTANTS
    SystemAddress = SystemAddress
    None = None
    InitialSpecs = {1, 2, 3, 4, 5, 6, 7, 8, 9}
    LaterSpecs = {1, 2, 3, 4, 5, 6, 7, 8, 9}
    TX_GAS_LIMIT_CAP = 16777216
    OwnCaps = {1000}
INVARIANTS TransactionsMeetTheirFork SystemCallsMeetLastTransactionsFork InstructionsMeetTheirFork ConfigFollowsFork
