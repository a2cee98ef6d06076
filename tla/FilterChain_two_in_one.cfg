SPECIFICATION Spec
CONSTANTS
    c1 = c1
    c2 = c2
    Configs = {c1, c2}
    Protos <- MCProtos
    Chains <- TwoInOne
    Streams = {s1}
    Hosts <- MCHosts
    Paths <- MCPaths
    Char = {"a", "/"}
    Slash = "/"
    None = None
    RequestBodies = FALSE
PROPERTY
    LeaderAsksUpstream
CHECK_DEADLOCK FALSE
