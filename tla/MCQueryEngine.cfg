SPECIFICATION Spec
CONSTANTS
    Qualified <- MCQualified
    DefaultLimit = 2
    MaxLimit = 9
    MaxRows = 5
    Worlds <- MCWorlds
INVARIANTS FoldKeepsMeaning OthersUnseen QueryAnswered MoreIsTrue PipeAnswered
CHECK_DEADLOCK FALSE
