SPECIFICATION MCSpec
CONSTANTS
    Streams = {s1, s2, s3}
    Workers = {w1, w2}
    Keys = {k1, k2}
    NoKey = NoKey
    MaxChunks = 1
    MaxExtraChunks = 1
    Capacity = 2
    SlotCount = 1
    SizeModulus = 8
    SizeOf <- MCSizeOf
    NoEntry = NoEntry
    LeaderAborts = FALSE
    Trailers = FALSE
    LocalReplies = FALSE
    WithBody = {s3}
INVARIANT
    InflightHasLeader
PROPERTIES
    FollowersServed
    MutexReleased
CHECK_DEADLOCK FALSE
