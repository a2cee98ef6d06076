SPECIFICATION SafetySpec
CONSTANTS
    Streams = {s1, s2}
    Workers = {w1, w2}
    Keys = {k1}
    NoKey = NoKey
    MaxChunks = 1
    MaxExtraChunks = 0
    Capacity = 2
    SlotCount = 1
    SizeModulus = 8
    SizeOf <- MCSizeOf
    NoEntry = NoEntry
    LeaderAborts = FALSE
    Trailers = FALSE
    LocalReplies = TRUE
    WithBody = {}
SYMMETRY Symmetry
PROPERTY
    TornDownStreamsUntouched
CHECK_DEADLOCK FALSE
