CONSTANTS
    Exec = Exec
    Replays = {r1}
    Ids = {a}
    NoId = NoId
    NoRows = NoRows
    MaxStages = 3
    Pipes <- MCPipes
SPECIFICATION Spec
INVARIANT LookupsSucceed
CHECK_DEADLOCK FALSE
