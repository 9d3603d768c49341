SPECIFICATION Spec
CONSTANTS
    a1 = a1
    Agent = {a1}
    Task = {t1, t2}
    Conn = {c1, c2}
    OwnerOf <- OneOwner
    AgentOf <- OneAgent
    Board = {t2}
    Syncing = {a1}
    Said = {"working", "completed"}
    MaxMessages = 2
    NULL = NULL
INVARIANT
    Supervised
PROPERTIES
    TasksDecided
    SuccessorKept
    CompletedKept
CONSTRAINT OneTask
CHECK_DEADLOCK FALSE
