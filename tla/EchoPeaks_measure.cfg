SPECIFICATION Spec
CONSTANTS
    TMin = 1
    TMax = 12
    TWidth = 4
    MaxDelay = 2
    Heights = {1, 2, 3}
INVARIANTS TypeOK Separated StrongestKept PairsAscend NearestIsWritten HalvesMatch
