SPECIFICATION Spec
CONSTANTS
    Workers = {w1}
    Tasks = {t1}
    Dbs <- ThreeDbs
    ArgsDb = 1
    Arenas = {2}
    Bases <- MCBases
    DbSize = 2
    MaxDbs = 2
    MaxDepc = 1
    MaxDepth = 1
INVARIANTS
    CapacityOnlyWhenAcquired
CHECK_DEADLOCK FALSE
