SPECIFICATION FairSpec
CONSTANTS
    None = None
    Offset = {0, 1}
    EdgeQueue = 2
    MaxPackets = 3
    MaxFaults = 1
    MaxKills = 1
INVARIANTS
    UndisturbedHanded
    MixedOnlyDisturbed
    NoStalePacket
    LeftInStandby
PROPERTIES
    FlagsHandled
    ListensAgain
