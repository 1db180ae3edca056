SPECIFICATION Spec
CONSTANTS
    Utxo <- MCUtxo
    Amount <- MCAmount
    Spendable <- MCSpendable
    Payments <- MCPayments
    Callers = {c1, c2}
    BaseFee = 1
    InputFee = 2
    Dust = 2
SYMMETRY CallerSymmetry
INVARIANT FeeIsCovered
INVARIANT FewestInputs
INVARIANT LosesOnlyToOthers
INVARIANT InsufficientIsTrue
