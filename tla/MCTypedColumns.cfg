CONSTANTS
    Numbers <- MCNumbers
    FloatOf <- MCFloatOf
    Times = {1400, 2000, 3000}
    NanoOf <- MCNanoOf
    InRange = {1400, 2000}
    Plain <- MCPlain
    Capacities = {0, 1, 4}
    MinGrowth = 2
    MaxLen = 4
SPECIFICATION Spec
INVARIANTS ColumnFaithful KernelsAgree
CHECK_DEADLOCK FALSE
