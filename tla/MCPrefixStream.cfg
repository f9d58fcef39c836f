CONSTANTS
    RowIds = {1, 2, 3, 4, 5}
    Rewritten = Rewritten
    NoLimit = NoLimit
    Queries <- MCQueries
    Tables <- MCTables
    MaxRows = 2
    MaxLimit = 3
    MaxWrites = 1
SPECIFICATION Spec
INVARIANTS PrefixFaithful CompleteExactly DelegationAgrees ClosedBeforeTail
CHECK_DEADLOCK FALSE
