SPECIFICATION RepeatSpec
CONSTANTS
    Keys <- MCKeys
    Versions <- MCVersions
    Scripts <- MCScripts
    StakingTx <- MCStakingTx
    MaxStakingTransactionHeight = 9
    Requests <- MCRequests
    Heights <- MCHeights
    MaxBest = 5
INVARIANT DocumentedAmountBound
