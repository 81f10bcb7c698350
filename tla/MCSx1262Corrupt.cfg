SPECIFICATION Spec
CONSTANTS
    None = None
    Offset = {0, 1}
    EdgeQueue = 2
    MaxPackets = 2
    MaxFaults = 0
    MaxKills = 0
INVARIANT
    CorruptNeverRead
