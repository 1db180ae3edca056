SPECIFICATION Spec
CONSTANTS
    Keys <- MCKeys
    Versions <- MCVersions
    Scripts <- MCScripts
    StakingTx <- MCStakingTx
    Requests <- RaceRequests
    Procs = {p1, p2}
    WalletKeys = {"c1"}
    MaxStakingTransactionHeight = 2
    StaleIndex = FALSE
    MaxHeight = 3
    MaxSigned = 1
SYMMETRY HandlerSymmetry
INVARIANT MatureWhenChecked
