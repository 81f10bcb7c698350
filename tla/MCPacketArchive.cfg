SPECIFICATION Spec
CONSTANTS
    None = None
    Payload <- MCPayload
    Count = 2
    MaxTaken = 3
    MaxExits = 2
INVARIANTS
    RowsWhole
    PrintedIsStored
    LossBounded
