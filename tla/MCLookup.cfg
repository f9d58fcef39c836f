CONSTANTS
    Runs = {r1, r2, r3}
    Keys <- MCKeys
    TextOf <- MCTextOf
    NoLimit = NoLimit
    None = None
    Tables <- MCTables
    Lefts <- MCLefts
    Configs <- MCConfigs
    DefaultLimit = 2
    MaxLimit = 9
    MaxFetch = 1
    MaxTime = 3
    MaxWrites = 1
SYMMETRY Interchangeable
SPECIFICATION Spec
INVARIANTS AnswersJoin BoundedStaleness
CHECK_DEADLOCK FALSE
