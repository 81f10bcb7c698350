SPECIFICATION FairSpec
\* All stores open and every id used: nothing is left to do.
CHECK_DEADLOCK FALSE
CONSTANTS
    Opener = {o1, o2}
    Id = {1, 2}
    None = None
    MaxStops = 3
INVARIANTS
    OpenIsUsable
    MigratedLinksHold
PROPERTIES
    DurableKept
    SupportedOpens
