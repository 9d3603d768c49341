SPECIFICATION Spec
CONSTANTS
    NumProcs = 3
    Send = {x1, x2}
    NumWorkers = 2
    NumTasks = 2
    ScanLimit = 1
    OrphanAge = 1
    MaxRuntime = 1
    MaxIds = 3
    MaxDelay = 2
    MaxRefusals = 2
    HttpTask = {h1, h2}
    WsTask = {s1}
    MaxMessages = 2
INVARIANTS
    BoardSound
PROPERTIES
    StepsKept
    
CHECK_DEADLOCK FALSE
