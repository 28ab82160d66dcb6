SPECIFICATION MCSpec
CONSTANTS
    m1 = m1
    m2 = m2
    m3 = m3
    f1 = f1
    f2 = f2
    c1 = c1
    c2 = c2
    Message <- Messages
    Falsy = {}
    Refusable = {}
    Initial <- NothingWaits
    SaveThrows = FALSE
    Kind <- Kinds3
    MaxCrashes = 2
    Names = {1, 2, 3}
    Files <- FilesValue
    Crons <- CronsValue
    On <- OnValue
    Nowhere = Nowhere
    MaxListeners = 1
    MaxRequests = 3
    s1 = s1
    j1 = j1
    Schedules = {s1, s2}
    Jobs = {j1, j2}
    Multiple <- TwoSlots
    Of <- OfFirst
    Limit = 10
    MaxSkips = 1
INVARIANTS RunsAnswer OneTimer SlotsAccounted
PROPERTIES WorkflowsInStep EveryWorkflowFinishes ChainHolds
CHECK_DEADLOCK FALSE
