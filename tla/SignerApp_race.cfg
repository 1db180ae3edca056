SPECIFICATION Spec
CONSTANTS
    Keys <- MCKeys
    Versions <- MCVersions
    Scripts <- MCScripts
    StakingTx <- MCStakingTx
    Requests <- RaceRequests
    Procs = {p1, p2}
    WalletKeys = {"c1"}
    MaxStakingTransactionHeight = 2
    StaleIndex = TRUE
    MaxHeight = 3
    MaxSigned = 1
INVARIANT Evidence
INVARIANT OneUnbondingPerStake
INVARIANT MatureUnlessReorged
INVARIANT NeverAheadOfTheTip
SYMMETRY HandlerSymmetry
