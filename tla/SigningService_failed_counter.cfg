SPECIFICATION Spec
CONSTANTS
    Exchanges = {e1, e2}
    MaxReceived = 2
INVARIANT FailedMeansInternal
