SPECIFICATION FairSpec
CONSTANTS
    None = None
    k1 = k1
    k2 = k2
    one = one
    two = two
    other = other
    s1 = s1
    s2 = s2
    Key = {k1}
    Meta = {one, two}
    Body = {s1, s2}
    FragmentCount <- Counts
    Identity <- SharedIdentity
    Delivered <- MixedCounts
    MaxFragments = 2
    PacketId = {1, 2}
    MaxActive = 1
    MaxCount = 9
    ReplayLimit = 9
    MaxExits = 1
    MaxRejected = 0
PROPERTY
    StartsInTheEnd
