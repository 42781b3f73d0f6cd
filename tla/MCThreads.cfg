SPECIFICATION FairSpec
CONSTANTS
    Workers = {w1, w2}
    Tasks = {t1, t2}
    Dbs <- TwoDbs
    ArgsDb = 1
    Arenas = {2}
    Bases <- MCBases
    DbSize = 4
    MaxDbs = 2
    MaxDepc = 2
    MaxDepth = 2
INVARIANTS
    HeldBlocksResolve
PROPERTIES
    LaunchedTasksEnd
    AcquiredBlocksSpec
CHECK_DEADLOCK FALSE
