SPECIFICATION SafetySpec
CONSTANTS
    Streams = {s1, s2, s3}
    Workers = {w1, w2}
    Keys = {k1, k2}
    NoKey = NoKey
    MaxChunks = 2
    MaxExtraChunks = 0
    Capacity = 3
    SlotCount = 2
    SizeModulus = 8
    SizeOf <- MCSizeOf
    NoEntry = NoEntry
    LeaderAborts = TRUE
    Trailers = TRUE
    LocalReplies = TRUE
    WithBody = {s3}
SYMMETRY Symmetry
INVARIANTS
    TypeOK
    LeaderOwnsInflight
    FullyBackfilled
    CoalescedInOrder
    OnlyCompleteResponsesCached
PROPERTIES
    ImplementsRingStore
    NothingEncodedAfterEnd
CHECK_DEADLOCK FALSE
