SPECIFICATION Spec
CONSTANTS
    db = db
    web = web
    other = other
    Name = {db, web, other}
    Program = {db, web}
    Named <- WebIsNamed
    Dependencies <- OneDependency
    MaxStarts = 3
    MaxProcesses = 3
    Waits = {TRUE, FALSE}
    Ends = {"crash", "stop"}
INVARIANTS RunningIsUp RegisteredIsConnected DependenciesReadyFirst
CHECK_DEADLOCK FALSE
