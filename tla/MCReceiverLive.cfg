SPECIFICATION FairSpec
CONSTANTS
    None = None
    k1 = k1
    k2 = k2
    one = one
    two = two
    other = other
    s1 = s1
    s2 = s2
    Key = {k1}
    Meta = {two, other}
    Body = {s1, s2}
    FragmentCount <- Counts
    Identity <- SharedIdentity
    Delivered <- OneScan
    MaxFragments = 2
    PacketId = {1, 2, 3, 4}
    MaxActive = 1
    MaxCount = 2
    ReplayLimit = 9
    MaxExits = 2
    MaxRejected = 1
PROPERTIES
    ImplementsLedger
    EventuallyClassified
    StartsInTheEnd
