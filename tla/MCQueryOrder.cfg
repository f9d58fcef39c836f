SPECIFICATION Spec
CONSTANTS
    Qualified <- MCQualified
    DefaultLimit = 2
    MaxLimit = 9
    MaxRows = 5
    Worlds <- CutWorlds
INVARIANT FoldObeysOrder
CHECK_DEADLOCK FALSE
