SPECIFICATION SSpec
CONSTANTS
    Keys <- MCKeys
    Versions <- OneVersion
    Scripts <- MCScripts
    StakingTx <- MCStakingTx
    Requests <- TwoRequests
    Procs = {p1,p2}
    WalletKeys = {"c1"}
    MaxStakingTransactionHeight = 2
    StaleIndex = FALSE
    MaxHeight = 1
    MaxSigned = 1
    MaxReceived = 1
SYMMETRY HandlerSymmetry
INVARIANT ReadsItsOwnSignature
INVARIANT SigningsAreCounted
