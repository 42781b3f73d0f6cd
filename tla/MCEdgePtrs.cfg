SPECIFICATION PtrSpec
CONSTANTS
    Workers = {w1}
    Tasks = {t1, t2}
    Dbs <- MCDbs
    ArgsDb = 1
    Arenas <- NoCells
    Bases <- MCBases
    DbSize = 4
    MaxDbs = 2
    MaxDepc = 2
    MaxDepth = 1
    BasedCells <- MCBasedCells
    RelCells <- NoCells
    Offsets <- MCOffsets
INVARIANTS
    BasedPtrsResolveFromAnyCell
SYMMETRY Symmetry
CHECK_DEADLOCK FALSE
