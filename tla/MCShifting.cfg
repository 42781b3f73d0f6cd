SPECIFICATION Spec
CONSTANTS
    Workers = {w1}
    Tasks = {t1, t2}
    Dbs <- ThreeDbs
    ArgsDb = 1
    Arenas = {2}
    Bases <- MCBases
    DbSize = 2
    MaxDbs = 2
    MaxDepc = 3
    MaxDepth = 2
INVARIANTS
    TypeOK
    TablesCoherent
    TaskStatesIsolated
    NoReleaseAssertion
    CapacityOnlyByOwnBlocks
SYMMETRY Symmetry
CHECK_DEADLOCK FALSE
