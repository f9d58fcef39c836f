CONSTANTS
    Exec = Exec
    Replays = {r1, r2}
    Ids = {a}
    NoId = NoId
    NoRows = NoRows
    MaxStages = 3
    Pipes <- MCPipes
SPECIFICATION Spec
INVARIANTS SnapshotFaithful EffectsOnce ReplayAgrees LookupMissesOnlySwallowed
PROPERTY ImplementsLiveReplay
CHECK_DEADLOCK FALSE
