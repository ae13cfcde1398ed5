\* The small programs, one after the other.
SPECIFICATION AnySpec
CONSTANTS
    t1 = t1
    t2 = t2
    t3 = t3
    t4 = t4
    b1 = b1
    b2 = b2
    Threads = {t1, t2, t3}
    Barriers = {b1, b2}
    Count <- TwoBarriers
    Plan <- Alternate
    n = 2
    t = 4
    BUFFER_SIZE = 2
    ITEMS = 4
    MAX_SPURIOUS = 3
    Names = {"a", "b"}
    Paths <- TwoLevels
    Data = {"one"}
    MAX_RUNS = 2
    Lines <- TypedLines
    MAX_SENT = 5
    WORKERS = 3
    ENTRIES = 1
    MAX_TURNS = 1
    num_nodes = 2
    ts_Parent <- RootAndLeaf
    Value <- FiveInLeaf
INVARIANTS
    BarrierSound
    OppositeRoles
    CountsRight
    EachItemOnce
    LeaveTogether
    SyncRight
    SumsRight
PROPERTIES
    ImplementsPhases
    ImplementsStream
    AgreeingStays
    ProgramsEnd
CHECK_DEADLOCK FALSE
