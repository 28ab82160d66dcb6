SPECIFICATION FairSpec
CONSTANTS
    db = db
    web = web
    other = other
    Name = {db, web}
    Program = {db, web}
    Named <- OwnNames
    Dependencies <- OneDependency
    MaxStarts = 4
    MaxProcesses = 3
    Waits = {FALSE}
    Ends = {}
PROPERTY EveryStartReturns
CHECK_DEADLOCK FALSE
