CONSTANTS
    Columns <- MCColumns
    Alphabet <- MCAlphabet
    Numerals <- MCNumerals
    Unit <- MCUnit
    Seeds <- MCSeeds
    ColumnOf <- MCColumnOf
    Eval <- MCEval
    Host <- MCHost
    Failed <- MCFailed
    Inputs <- MCInputs
    Pipes <- MCPipes
SPECIFICATION Spec
INVARIANTS Answered RowsApart
CHECK_DEADLOCK FALSE
