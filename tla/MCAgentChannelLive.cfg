SPECIFICATION FairSpec
CONSTANTS
    a1 = a1
    Agent = {a1}
    Task = {t1}
    Conn = {c1, c2}
    OwnerOf <- OneOwner
    AgentOf <- OneAgent
    Board = {}
    Syncing = {a1}
    Said = {"working"}
    MaxMessages = 2
    NULL = NULL
PROPERTIES
    EveryTaskEnds
CHECK_DEADLOCK FALSE
