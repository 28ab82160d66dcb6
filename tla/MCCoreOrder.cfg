SPECIFICATION MCSpec
CONSTANTS
    Module <- ModuleValue
    Needs <- NeedsValue
    Tasks <- TasksValue
    Start = {1, 2, 3}
    MaxListeners = 2
    m1 = m1
    m2 = m2
    m3 = m3
    m4 = m4
    Message <- Messages
    Falsy = {m3}
    Refusable = {m1, m4}
    Initial <- StartLoaded
    SaveThrows = FALSE
INVARIANT DependencyOrder
CHECK_DEADLOCK FALSE
