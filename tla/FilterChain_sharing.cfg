SPECIFICATION SafetySpec
CONSTANTS
    c1 = c1
    c2 = c2
    Configs = {c1, c2}
    Protos <- MCProtos
    Chains <- OneInEach
    Streams = {s1, s2, s3}
    Hosts <- MCHosts
    Paths <- MCPaths
    Char = {"a", "/"}
    Slash = "/"
    None = None
    RequestBodies = TRUE
SYMMETRY Symmetry
INVARIANTS
    TypeOK
    FragmentsPointIntoTheCache
    AnsweredForItsOwnRequest
    OneLeaderPerRequest
PROPERTY
    FirstConfigurationRules
CHECK_DEADLOCK FALSE
