SPECIFICATION SafetySpec
CONSTANTS
    Streams = {s1, s2, s3, s4}
    Workers = {w1, w2}
    Keys = {k1}
    NoKey = NoKey
    MaxChunks = 1
    MaxExtraChunks = 0
    Capacity = 1
    SlotCount = 1
    SizeModulus = 8
    SizeOf <- MCSizeOf
    NoEntry = NoEntry
    LeaderAborts = TRUE
    Trailers = FALSE
    LocalReplies = FALSE
    WithBody = {}
SYMMETRY Symmetry
INVARIANTS
    FullyBackfilled
    CoalescedInOrder
CHECK_DEADLOCK FALSE
