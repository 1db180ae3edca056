SPECIFICATION FairSSpec
CONSTANTS
    Keys <- MCKeys
    Versions <- MCVersions
    Scripts <- MCScripts
    StakingTx <- MCStakingTx
    Requests <- FewRequests
    Procs = {p1}
    WalletKeys = {"c1"}
    MaxStakingTransactionHeight = 2
    StaleIndex = FALSE
    MaxHeight = 3
    MaxSigned = 1
    MaxReceived = 1
PROPERTY EveryCallReturns
PROPERTY GoodRequestsAreSigned
PROPERTY GoodClientsAreServed
