SPECIFICATION MCSpec
CONSTANTS
    Callback = {f}
    MaxListeners = 1
    MaxDepth = 2
    MaxEmits = 3
    MaxAdds = 3
    Listeners = {l1, l2, l3}
    BufferLength = 2
    MaxEmissions = 3
    MaxNesting = 3
    Waiters = {w1, w2, w3}
    Emissions = {e1, e2}
    Resources = {r1, r2, r3}
    Disposals = {d1, d2}
    Arrays = {a1}
    Plains = {p1}
    Promises = {q1}
    Items = {1, 2}
    Nothing = nothing
    MaxLength = 2
    MaxNested = 2
    MaxMethods = 2
    x1 = x1
    x2 = x2
    p = p
    q = q
    Piped <- MCPiped
    Firsts = {f1, f2}
    Seconds = {x1, x2}
    Values = {1, 2}
    Undefined = undefined
    Null = null
    MaxPipes = 1
    MaxSets = 3
    MaxHandlers = 1
INVARIANTS PipeAttachedWhileListened OnceAndBounded ReplayedOnce EmissionsReachAll EndedOrKept ArraysFollow BindingsFollow
CHECK_DEADLOCK FALSE
