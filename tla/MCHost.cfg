SPECIFICATION MCSpec
CONSTANTS
    Secrets = {s1, s2}
    Calls = {c1, c2}
    Keys = {k1, k2}
    NoKey = NoKey
    Graphs <- GraphsValue
    MaxFailures = 2
    m1 = m1
    m2 = m2
    m3 = m3
    Message <- Messages
    Falsy = {}
    Refusable = {m2}
    Initial <- StartLoaded
    SaveThrows = FALSE
    MaxCrashes = 1
    MaxWrites = 3
    Stops = {p1, p2, p3}
    StopCalls = {p1, p2}
INVARIANTS StopsAndTells ExitsAreTrue
PROPERTIES SecretsStayReadable LockIsComplete FileKeepsTheLine WalksAndRuntimesEnd
CHECK_DEADLOCK FALSE
