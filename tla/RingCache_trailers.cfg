SPECIFICATION Spec
CONSTANTS
    Streams = {s1, s2}
    Workers = {w1, w2}
    Keys = {k1}
    NoKey = NoKey
    MaxChunks = 1
    MaxExtraChunks = 0
    Capacity = 2
    SlotCount = 1
    SizeModulus = 8
    SizeOf <- MCSizeOf
    NoEntry = NoEntry
    LeaderAborts = FALSE
    Trailers = TRUE
    LocalReplies = FALSE
    WithBody = {}
PROPERTY
    FollowersServed
CHECK_DEADLOCK FALSE
