SPECIFICATION Spec
CONSTANTS
    NSeqMax = 2
    Budget = 3
    Chunk = 3
    MaxPrompt = 3
    ColdPrompts <- MCPrompts
    Tails = {0, 1}
    MaxLen = 4
    MaxSaved = 1
    Waived = {}
    NoRequest = NoRequest
INVARIANTS
    CellsMatch
    LogitsOwn
    CheckpointExact
PROPERTIES
    PutOffWhenFull
    ImplementsSolo
