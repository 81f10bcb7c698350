SPECIFICATION Spec
CONSTANTS
    None = None
    k1 = k1
    k2 = k2
    one = one
    two = two
    other = other
    s1 = s1
    s2 = s2
    Key = {k1, k2}
    Meta = {two, other}
    Body = {s1, s2}
    FragmentCount <- LongCounts
    Identity <- SharedIdentity
    Delivered <- TwoScans
    MaxFragments = 3
    PacketId = {1, 2, 3, 4}
    MaxActive = 1
    MaxCount = 9
    ReplayLimit = 2
    MaxExits = 2
    MaxRejected = 1
INVARIANTS
    FailsAtLimitsOnly
    OneScanPerKey
    ProvenanceExact
    CountersExact
    PendingIsHeld
    MemoryMatchesStore
    PendingBounded
