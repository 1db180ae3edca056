SPECIFICATION FairSpec
CONSTANTS
    Callers = {b1,k1}
    PrivKeyCallers = {k1}
    NoRequest = NoRequest
    Requests <- MCRequests
    SimpleTransfers <- MCSimpleTransfers
    WalletHas <- MCWalletHas
    BadLeaf = {"bad leaf"}
    MaxTries = 3
INVARIANT NoKeyLeftBehind
PROPERTY IsExternalBtcSigner
PROPERTY WaitIsBounded
PROPERTY OnlyAHungNodeBlocks
