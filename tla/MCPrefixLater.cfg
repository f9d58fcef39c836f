CONSTANTS
    RowIds = {1, 2, 3, 4, 5}
    Rewritten = Rewritten
    NoLimit = NoLimit
    Queries <- SheetLater
    Tables <- MCTables
    MaxRows = 2
    MaxLimit = 3
    MaxWrites = 0
SPECIFICATION Spec
INVARIANT DelegationNeverObservable
CHECK_DEADLOCK FALSE
