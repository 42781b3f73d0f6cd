SPECIFICATION Spec
CONSTANTS
    Tasks = {t1, t2}
    Arenas = {a1}
    NoArena = NoArena
    Modes = {"EW", "RW"}
    Half = 2048
    ArenaBytes <- MCArenaBytes
    RootSize = 8
    TypeSizes <- MCTypeSizes
    Counts <- MCCounts
    MaxAllocs = 3
    MaxSaves = 1
INVARIANTS
    TypeOK
    AllocationsDisjoint
    AllocationsInBounds
    NaturallyAligned
    RootIsFirst
    RacesNeedSharing
SYMMETRY Symmetric
CHECK_DEADLOCK FALSE
