SPECIFICATION Spec
CONSTANTS
    None = None
    Key = {k1, k2, k3}
    m1 = m1
    m2 = m2
    Meta = {m1, m2}
    Body = {b1, b2}
    FragmentCount <- Counts
    MaxFragments = 2
    PacketId = {1, 2, 3, 4}
    MaxActive = 1
    MaxCount = 2
    Time = {0, 1}
INVARIANTS
    CacheExclusive
    HandedConsistent
    NothingLost
PROPERTY
    FirstCopyWins
