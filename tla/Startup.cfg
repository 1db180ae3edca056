SPECIFICATION FairSpec
CONSTANTS
    Dumps = {d1}
    Starts = {s1, s2}
    OperatorFiles <- MCOperatorFiles
    Neighbours <- MCNeighbours
    MaxUint32 = 429
INVARIANT NobodyElsesSettings
PROPERTY LateDumpsTouchNothing
PROPERTY BothOrNeither
