SPECIFICATION FairSpec
CONSTANTS
    Exchanges = {e1, e2}
    MaxReceived = 3
INVARIANT TypeOK
INVARIANT CountersBalance
INVARIANT SuccessIsCountedFirst
INVARIANT StatusTellsTheOutcome
PROPERTY EveryClientIsAnswered
PROPERTY ShutdownEnds
