SPECIFICATION HSpec
CONSTANTS
    Keys <- MCKeys
    Versions <- MCVersions
    Scripts <- MCScripts
    StakingTx <- MCStakingTx
    Requests <- AllRequests
    Procs = {p1}
    WalletKeys = {"c1"}
    MaxStakingTransactionHeight = 2
    StaleIndex = TRUE
    MaxHeight = 3
    MaxSigned = 2
INVARIANT TypeOK
INVARIANT SignsOnlyTheDeserved
INVARIANT SignsWhatTheStakerSigned
INVARIANT RejectsOnlyTheUndeserving
INVARIANT ReadsWereTrue
INVARIANT OneUnbondingUnlessMoved
PROPERTY KeepsThePromise
