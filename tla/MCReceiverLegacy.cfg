SPECIFICATION LegacySpec
CONSTANTS
    None = None
    k1 = k1
    m1 = m1
    s1 = s1
    s2 = s2
    Key = {k1}
    Meta = {m1}
    Body = {s1, s2}
    FragmentCount <- Counts
    Identity <- OneIdentity
    Delivered <- Copies
    MaxFragments = 3
    PacketId = {1, 2, 3, 4, 5, 6}
    MaxActive = 1
    MaxCount = 9
    ReplayLimit = 9
    MaxExits = 2
    MaxRejected = 0
    MaxLegacy = 5
INVARIANTS
    CompletedAlone
    CoalescedOnce
