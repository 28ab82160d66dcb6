SPECIFICATION RefusedSpec
CONSTANTS
    Module <- ModuleValue
    Needs <- NeedsValue
    Tasks <- TasksValue
    Start = {1, 2, 3}
    MaxListeners = 2
    m1 = m1
    m2 = m2
    m3 = m3
    m4 = m4
    Message = {m1, m2, m3}
    Falsy = {}
    Refusable = {m1}
    Initial <- StartEmpty
    SaveThrows = FALSE
PROPERTY EveryMessageFinishes
