SPECIFICATION Spec
\* A record the encoder refuses is never sent.
CHECK_DEADLOCK FALSE
CONSTANTS
    None = None
    MaxSteps = 10
    fnv1a64 <- MCHash
    Records <- MCRecords
    Alterable <- MCAlterable
    Ids = {0, 1, 2, 3}
    Counts = {0, 1, 3, 4, 5}
    MaxAlter = 2
INVARIANTS
    EncodedFramesDecode
    StoreAccepts
    FaithfulWhenUnaltered
    Canonical
    CompleteScansEncode
